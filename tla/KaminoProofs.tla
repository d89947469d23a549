---------------------------- MODULE KaminoProofs -----------------------------
(***************************************************************************)
(* Proofs about the Kamino adapter, for any unit of the scaled fractions,  *)
(* any interest, fees and losses, and any users.  What is reported follows *)
(* from the types alone, by the roundings of the reserve's fractions; what *)
(* a withdrawal pays, from interest never being below the fees of it.      *)
(***************************************************************************)
EXTENDS KaminoUsdc, AccountsProofs

IInv ==
  /\ AccountsInv(Places) /\ TokensTypeOK
  /\ reserve \in [Reserves -> Reserve]
  /\ FundedPositionsAreSound

-----------------------------------------------------------------------------
(* Arithmetic.                                                             *)

LEMMA StrictProductsOrdered ==
  ASSUME NEW x \in Int, NEW y \in Int, NEW d \in Nat \ {0}, x < y
  PROVE  x * d < y * d
<1>1. (x + 1) * d <= y * d
  BY ProductsOrdered
<1>2. (x + 1) * d = x * d + d /\ x * d \in Int /\ y * d \in Int
  OBVIOUS
<1> QED BY <1>1, <1>2

(* A fraction, floored to whole units. *)
LEMMA FloorIs ==
  ASSUME NEW value \in Nat
  PROVE  /\ scaled_fraction_floor(value) \in Nat
         /\ scaled_fraction_floor(value) * One <= value
         /\ value <= scaled_fraction_floor(value) * One + (One - 1)
         /\ value % One = 0 => scaled_fraction_floor(value) * One = value
<1> DEFINE whole == value \div One
<1>1. One \in Nat \ {0}
  BY KaminoConstants
<1>2. whole \in Nat /\ whole * One <= value /\ value < (whole + 1) * One
  BY <1>1, Floored
<1>3. value = whole * One + (value % One)
  BY <1>1
<1>4. (whole + 1) * One = whole * One + One /\ whole * One \in Nat
  BY <1>1, <1>2
<1>5. scaled_fraction_floor(value) = whole
  BY DEF scaled_fraction_floor
<1> DEFINE part == whole * One
<1>6. part \in Nat /\ part <= value /\ value < part + One /\ value = part + (value % One)
  BY <1>2, <1>3, <1>4
<1> HIDE DEF part
<1>7. part <= value /\ value <= part + (One - 1) /\ (value % One = 0 => part = value)
  BY <1>1, <1>6
<1> QED BY <1>2, <1>5, <1>7 DEF part

LEMMA SumOfFloors ==
  ASSUME NEW a \in Int, NEW b \in Int, NEW p \in Int, NEW r \in Int, NEW q \in Int,
         NEW n \in Int
  PROVE  (a + b - p - r - q) * n = a * n + b * n - p * n - r * n - q * n
OBVIOUS

LEMMA ReserveNumbers ==
  ASSUME NEW v \in Reserve
  PROVE  /\ v.available \in Nat /\ v.borrowed \in Nat /\ v.protocol_fees \in Nat
         /\ v.referrer_fees \in Nat /\ v.pending_fees \in Nat /\ v.mint_supply \in Nat
BY KaminoConstants, AccountsConstants DEF Reserve, U64

(* The floored total and the exact worth: the floored debts may lack less  *)
(* than a unit, each floored fee may add less than one.                    *)
LEMMA TotalNearExact ==
  ASSUME NEW v \in Reserve
  PROVE  /\ total_supply(v) \in Int /\ Exact(v) \in Int
         /\ total_supply(v) * One <= Exact(v) + 3 * (One - 1)
         /\ Exact(v) - (One - 1) <= total_supply(v) * One
         /\ WholeFees(v) => total_supply(v) * One <= Exact(v)
<1>1. One \in Nat \ {0}
  BY KaminoConstants
<1> DEFINE b == scaled_fraction_floor(v.borrowed)
           p == scaled_fraction_floor(v.protocol_fees)
           r == scaled_fraction_floor(v.referrer_fees)
           q == scaled_fraction_floor(v.pending_fees)
<1>2. /\ b \in Nat /\ b * One <= v.borrowed /\ v.borrowed <= b * One + (One - 1)
      /\ p \in Nat /\ p * One <= v.protocol_fees /\ v.protocol_fees <= p * One + (One - 1)
      /\ r \in Nat /\ r * One <= v.referrer_fees /\ v.referrer_fees <= r * One + (One - 1)
      /\ q \in Nat /\ q * One <= v.pending_fees /\ v.pending_fees <= q * One + (One - 1)
  BY ReserveNumbers, FloorIs
<1>3. WholeFees(v) => /\ p * One = v.protocol_fees /\ r * One = v.referrer_fees
                      /\ q * One = v.pending_fees
  BY ReserveNumbers, FloorIs DEF WholeFees
<1>4. total_supply(v) = v.available + b - p - r - q
  BY DEF total_supply
<1> HIDE DEF b, p, r, q
<1>5. (v.available + b - p - r - q) * One
        = v.available * One + b * One - p * One - r * One - q * One
  BY <1>1, <1>2, ReserveNumbers, SumOfFloors
<1> DEFINE total == total_supply(v) * One
           aO == v.available * One
           bO == b * One
           pO == p * One
           rO == r * One
           qO == q * One
<1>6. /\ total = aO + bO - pO - rO - qO
      /\ aO \in Int /\ bO \in Int /\ pO \in Int /\ rO \in Int /\ qO \in Int
      /\ bO <= v.borrowed /\ v.borrowed <= bO + (One - 1)
      /\ pO <= v.protocol_fees /\ v.protocol_fees <= pO + (One - 1)
      /\ rO <= v.referrer_fees /\ v.referrer_fees <= rO + (One - 1)
      /\ qO <= v.pending_fees /\ v.pending_fees <= qO + (One - 1)
      /\ WholeFees(v) => pO = v.protocol_fees /\ rO = v.referrer_fees /\ qO = v.pending_fees
  BY <1>1, <1>2, <1>3, <1>4, <1>5, ReserveNumbers
<1>7. Exact(v) = aO + v.borrowed - v.protocol_fees - v.referrer_fees - v.pending_fees
  BY DEF Exact
<1>8. total_supply(v) \in Int
  BY <1>2, <1>4, ReserveNumbers
<1> HIDE DEF total, aO, bO, pO, rO, qO
<1>9. /\ Exact(v) \in Int /\ total <= Exact(v) + 3 * (One - 1)
      /\ Exact(v) - (One - 1) <= total
      /\ WholeFees(v) => total <= Exact(v)
  BY <1>1, <1>6, <1>7, ReserveNumbers
<1> QED BY <1>8, <1>9 DEF total

(* Accruing interest never lowers what a reserve is worth. *)
LEMMA AccrualsGain ==
  ASSUME NEW v \in Reserve, NEW accrual \in Accruals
  PROVE  /\ Exact(v) <= Exact(Accrued(v, accrual))
         /\ Accrued(v, accrual).available = v.available
         /\ Accrued(v, accrual).mint_supply = v.mint_supply
<1>1. /\ accrual.interest \in Nat /\ accrual.protocol \in Nat
      /\ accrual.referrer \in Nat /\ accrual.pending \in Nat
      /\ accrual.protocol + accrual.referrer + accrual.pending <= accrual.interest
  BY KaminoConstants
<1> DEFINE w == Accrued(v, accrual)
           scaled == v.available * One
<1>2. /\ w.available = v.available /\ w.mint_supply = v.mint_supply
      /\ w.borrowed = v.borrowed + accrual.interest
      /\ w.protocol_fees = v.protocol_fees + accrual.protocol
      /\ w.referrer_fees = v.referrer_fees + accrual.referrer
      /\ w.pending_fees = v.pending_fees + accrual.pending
  BY DEF Accrued, Reserve
<1>3. scaled \in Int
  BY ReserveNumbers, KaminoConstants
<1> HIDE DEF w
<1>4. /\ Exact(v) = scaled + v.borrowed - v.protocol_fees - v.referrer_fees - v.pending_fees
      /\ Exact(w) = scaled + w.borrowed - w.protocol_fees - w.referrer_fees - w.pending_fees
  BY <1>2 DEF Exact
<1> HIDE DEF scaled
<1>5. Exact(v) <= Exact(w)
  BY <1>1, <1>2, <1>3, <1>4, ReserveNumbers
<1> QED BY <1>2, <1>5 DEF w

-----------------------------------------------------------------------------
(* Tokens.                                                                 *)

(* One account's amount changes, and nothing else.                         *)
LEMMA AmountSet ==
  ASSUME TokensTypeOK, NEW t \in TokenAccounts, NEW amount \in U64,
         tokens' = [tokens EXCEPT ![t].amount = amount]
  PROVE  /\ TokensTypeOK'
         /\ tokens'[t].amount = amount
         /\ \A u \in TokenAccounts : /\ tokens'[u].owner = tokens[u].owner
                                     /\ u # t => tokens'[u] = tokens[u]
<1> DEFINE account == [tokens[t] EXCEPT !.amount = amount]
<1>1. tokens \in [TokenAccounts -> [owner: Holders, amount: U64]]
  BY DEF TokensTypeOK
<1>2. tokens' = [tokens EXCEPT ![t] = account]
  BY <1>1
<1>3. /\ account \in [owner: Holders, amount: U64]
      /\ account.owner = tokens[t].owner /\ account.amount = amount
  BY <1>1
<1> HIDE DEF account
<1> QED BY <1>1, <1>2, <1>3 DEF TokensTypeOK

LEMMA UsersKeepTypes ==
  ASSUME TokensTypeOK, UseTokens
  PROVE  TokensTypeOK'
<1>1. ASSUME NEW s \in TokenAccounts, NEW d \in TokenAccounts, NEW user \in Users,
             NEW amount \in Amounts, Transfer(s, d, user, amount)
      PROVE  TokensTypeOK'
  <2> DEFINE source == [tokens[s] EXCEPT !.amount = @ - amount]
             destination == [tokens[d] EXCEPT !.amount = @ + amount]
  <2>1. /\ tokens \in [TokenAccounts -> [owner: Holders, amount: U64]]
        /\ amount \in Nat
    BY SplTokensConstants DEF TokensTypeOK
  <2>2. /\ s # d
        /\ amount <= tokens[s].amount /\ tokens[d].amount + amount <= MaxU64
        /\ tokens' = [tokens EXCEPT ![s].amount = @ - amount, ![d].amount = @ + amount]
    BY <1>1 DEF Transfer
  <2>3. tokens' = [[tokens EXCEPT ![s] = source] EXCEPT ![d] = destination]
    BY <2>1, <2>2
  <2>4. /\ source \in [owner: Holders, amount: U64]
        /\ destination \in [owner: Holders, amount: U64]
    BY <2>1, <2>2, AccountsConstants DEF U64
  <2> HIDE DEF source, destination
  <2> QED BY <2>1, <2>3, <2>4 DEF TokensTypeOK
<1>2. ASSUME NEW t \in TokenAccounts, NEW holder \in Holders, SetAuthority(t, holder)
      PROVE  TokensTypeOK'
  BY <1>2 DEF SetAuthority, TokensTypeOK
<1> QED BY <1>1, <1>2 DEF UseTokens

-----------------------------------------------------------------------------
(* Kamino.                                                                 *)

LEMMA TokenAmounts ==
  ASSUME TokensTypeOK
  PROVE  /\ tokens \in [TokenAccounts -> [owner: Users, amount: U64]]
         /\ \A t \in TokenAccounts : tokens[t].amount \in Nat
BY KaminoConstants, AccountsConstants DEF TokensTypeOK, U64

LEMMA ReserveSet ==
  ASSUME IInv, NEW r \in Reserves, NEW v \in Reserve, reserve' = [reserve EXCEPT ![r] = v]
  PROVE  reserve' \in [Reserves -> Reserve] /\ reserve'[r] = v
BY DEF IInv

LEMMA RatesAreNatural ==
  ASSUME NEW v \in Reserve, Exact(v) >= 0, NEW amount \in Nat
  PROVE  Minted(v, amount) \in Nat /\ Paid(v, amount) \in Nat
<1>1. Exact(v) \in Nat /\ v.mint_supply \in Nat /\ One \in Nat \ {0}
  BY ReserveNumbers, TotalNearExact, KaminoConstants
<1>2. CASE v.mint_supply = 0 \/ Exact(v) = 0
  BY <1>2 DEF Minted, Paid
<1>3. CASE v.mint_supply # 0 /\ Exact(v) # 0
  <2> DEFINE due == amount * v.mint_supply * One
             worth == amount * Exact(v)
             scaled == v.mint_supply * One
             exact == Exact(v)
  <2>1. due \in Nat /\ worth \in Nat /\ scaled \in Nat \ {0} /\ exact \in Nat \ {0}
    BY <1>1, <1>3
  <2>2. Minted(v, amount) = due \div exact /\ Paid(v, amount) = worth \div scaled
    BY <1>3 DEF Minted, Paid
  <2> HIDE DEF due, worth, scaled, exact
  <2> QED BY <2>1, <2>2, Floored
<1> QED BY <1>2, <1>3

LEMMA DepositReserveMoves ==
  ASSUME IInv, NEW r \in Reserves, NEW t \in TokenAccounts, NEW amount \in Nat,
         NEW accrual \in Accruals, deposit_reserve_liquidity(r, t, amount, accrual)
  PROVE  /\ TokensTypeOK' /\ reserve' \in [Reserves -> Reserve]
         /\ tokens'[t].amount >= tokens[t].amount
         /\ \A u \in TokenAccounts : /\ tokens'[u].owner = tokens[u].owner
                                     /\ u # t => tokens'[u] = tokens[u]
<1> DEFINE v == Accrued(reserve[r], accrual)
           minted == Minted(v, amount)
           next == [v EXCEPT !.available = @ + amount, !.mint_supply = @ + minted]
<1>1. v \in Reserve /\ Exact(v) >= 0
  BY DEF deposit_reserve_liquidity, MayAccrue, Sound
<1>2. /\ v.mint_supply + minted <= MaxU64 /\ v.available + amount <= MaxU64
      /\ tokens[t].amount + minted <= MaxU64
      /\ tokens' = [tokens EXCEPT ![t].amount = @ + minted]
      /\ reserve' = [reserve EXCEPT ![r] = next]
  BY DEF deposit_reserve_liquidity, Mint
<1>3. minted \in Nat
  BY <1>1, RatesAreNatural
<1> HIDE DEF v, minted
<1>4. tokens[t].amount \in Nat
  BY TokenAmounts DEF IInv
<1>5. tokens[t].amount + minted \in U64
  BY <1>2, <1>3, <1>4, AccountsConstants DEF U64
<1>6. next \in Reserve
  <2>1. v.available + amount \in U64 /\ v.mint_supply + minted \in U64
    BY <1>1, <1>2, <1>3, ReserveNumbers, AccountsConstants DEF U64
  <2> QED BY <1>1, <2>1 DEF Reserve
<1> HIDE DEF next
<1>7. tokens' = [tokens EXCEPT ![t].amount = tokens[t].amount + minted]
  BY <1>2
<1>8. reserve' \in [Reserves -> Reserve]
  BY <1>2, <1>6, ReserveSet
<1>9. /\ TokensTypeOK' /\ tokens'[t].amount = tokens[t].amount + minted
      /\ \A u \in TokenAccounts : /\ tokens'[u].owner = tokens[u].owner
                                  /\ u # t => tokens'[u] = tokens[u]
  BY <1>5, <1>7, AmountSet DEF IInv
<1>10. tokens'[t].amount >= tokens[t].amount
  BY <1>3, <1>4, <1>9
<1> QED BY <1>8, <1>9, <1>10

LEMMA RedeemReserveMoves ==
  ASSUME IInv, NEW r \in Reserves, NEW t \in TokenAccounts, NEW signer,
         NEW collateral \in Nat, NEW accrual \in Accruals,
         redeem_reserve_collateral(r, t, signer, collateral, accrual)
  PROVE  /\ TokensTypeOK' /\ reserve' \in [Reserves -> Reserve]
         /\ tokens[t].owner = signer
         /\ tokens[t].amount - tokens'[t].amount = collateral
         /\ \A u \in TokenAccounts : /\ tokens'[u].owner = tokens[u].owner
                                     /\ u # t => tokens'[u] = tokens[u]
         /\ Accrued(reserve[r], accrual) \in Reserve
         /\ Exact(Accrued(reserve[r], accrual)) >= 0
         /\ reserve[r].available - reserve'[r].available
              = Paid(Accrued(reserve[r], accrual), collateral)
<1> DEFINE v == Accrued(reserve[r], accrual)
           paid == Paid(v, collateral)
           next == [v EXCEPT !.available = @ - paid, !.mint_supply = @ - collateral]
<1>0. reserve[r] \in Reserve
  BY DEF IInv
<1>1. v \in Reserve /\ Exact(v) >= 0
  BY DEF redeem_reserve_collateral, MayAccrue, Sound
<1>2. /\ paid <= v.available /\ collateral <= v.mint_supply
      /\ tokens[t].owner = signer /\ collateral <= tokens[t].amount
      /\ tokens' = [tokens EXCEPT ![t].amount = @ - collateral]
      /\ reserve' = [reserve EXCEPT ![r] = next]
  BY DEF redeem_reserve_collateral, Burn
<1>3. paid \in Nat /\ v.available = reserve[r].available
  BY <1>0, <1>1, RatesAreNatural, AccrualsGain
<1> HIDE DEF v, paid
<1>4. tokens[t].amount \in U64 /\ tokens[t].amount \in Nat
  BY TokenAmounts DEF IInv
<1>5. tokens[t].amount - collateral \in U64
  BY <1>2, <1>4, AccountsConstants DEF U64
<1>6. /\ v.available \in Nat /\ v.available <= MaxU64
      /\ v.mint_supply \in Nat /\ v.mint_supply <= MaxU64
  BY <1>1, AccountsConstants DEF Reserve, U64
<1>7. next \in Reserve /\ next.available = v.available - paid
  <2>1. v.available - paid \in U64 /\ v.mint_supply - collateral \in U64
    BY <1>2, <1>3, <1>6, AccountsConstants DEF U64
  <2> QED BY <1>1, <2>1 DEF Reserve
<1> HIDE DEF next
<1>8. tokens' = [tokens EXCEPT ![t].amount = tokens[t].amount - collateral]
  BY <1>2
<1>9. reserve' \in [Reserves -> Reserve] /\ reserve'[r] = next
  BY <1>2, <1>7, ReserveSet
<1>10. reserve[r].available - reserve'[r].available = paid
  BY <1>3, <1>6, <1>7, <1>9
<1>11. /\ TokensTypeOK' /\ tokens'[t].amount = tokens[t].amount - collateral
       /\ \A u \in TokenAccounts : /\ tokens'[u].owner = tokens[u].owner
                                   /\ u # t => tokens'[u] = tokens[u]
  BY <1>5, <1>8, AmountSet DEF IInv
<1>12. tokens[t].amount - tokens'[t].amount = collateral
  BY <1>4, <1>11
<1> QED BY <1>1, <1>2, <1>9, <1>10, <1>11, <1>12 DEF v, paid

LEMMA BecomesKeeps ==
  ASSUME IInv, NEW r \in Reserves, NEW v, Becomes(r, v)
  PROVE  TokensTypeOK' /\ reserve' \in [Reserves -> Reserve]
BY ReserveSet DEF Becomes, Sound, IInv, TokensTypeOK

LEMMA KaminoKeepsTypes ==
  ASSUME IInv, Kamino
  PROVE  TokensTypeOK' /\ reserve' \in [Reserves -> Reserve]
<1>1. CASE UseTokens /\ UNCHANGED reserve
  BY <1>1, UsersKeepTypes DEF IInv
<1>2. ASSUME NEW r \in Used, NEW t \in TokenAccounts, NEW amount \in Amounts,
             UseKamino(r, t, amount)
      PROVE  TokensTypeOK' /\ reserve' \in [Reserves -> Reserve]
  <2>1. r \in Reserves /\ amount \in Nat
    BY KaminoConstants, SplTokensConstants
  <2> QED BY <1>2, <2>1, DepositReserveMoves, RedeemReserveMoves DEF UseKamino
<1>3. ASSUME NEW r \in Used, NEW v, Becomes(r, v)
      PROVE  TokensTypeOK' /\ reserve' \in [Reserves -> Reserve]
  BY <1>3, KaminoConstants, BecomesKeeps
<1>4. \/ UseTokens /\ UNCHANGED reserve
      \/ \E r \in Used, t \in TokenAccounts, amount \in Amounts : UseKamino(r, t, amount)
      \/ \E r \in Used : \E v : Becomes(r, v)
  BY Zenon DEF Kamino, Refresh, Borrow, Repay, WriteOff
<1> QED BY <1>1, <1>2, <1>3, <1>4

-----------------------------------------------------------------------------
(* The instructions.                                                       *)

(* What a list of accounts that passes the checks of a query is. *)
LEMMA CallIsTheOwners ==
  ASSUME IInv, NEW p \in DOMAIN position, NEW call \in Calls, validate_value_accounts(p, call)
  PROVE  /\ call.signer \in Users /\ call.signer = position[p].owner
         /\ p.owner = call.signer
         /\ call.reserve \in Reserves /\ call.reserve = position[p].place.reserve
         /\ call.collateral \in TokenAccounts /\ call.collateral = position[p].place.collateral
         /\ tokens[call.collateral].owner = call.signer
         /\ ReserveFacts[call.reserve].program = config[p.config].protocol_program_id
         /\ ReserveFacts[call.reserve].mint = config[p.config].supported_mint
         /\ TokenFacts[call.collateral].mint = ReserveFacts[call.reserve].collateral_mint
BY KaminoConstants
DEF IInv, AccountsInv, OwnersMatch, validate_value_accounts, validate_owner_and_mint,
    validate_protocol_program, validate_reserve_common, ValidCollateral

LEMMA DepositMoves ==
  ASSUME IInv, NEW p \in DOMAIN position, NEW call \in Calls, NEW amount \in Amounts,
         NEW accrual \in Accruals, deposit(p, call, amount, accrual)
  PROVE  /\ amount \in Nat \ {0}
         /\ validate_value_accounts(p, call)
         /\ deposit_reserve_liquidity(call.reserve, call.collateral, amount, accrual)
         /\ Computes(reserve'[call.reserve])
         /\ RecordDeposit(p, call.signer, amount, tokens'[call.collateral].amount,
              collateral_to_liquidity(tokens'[call.collateral].amount, reserve'[call.reserve]))
BY SplTokensConstants DEF deposit, validate_movement_accounts, updated_reserve_fields

LEMMA WithdrawMoves ==
  ASSUME IInv, NEW p \in DOMAIN position, NEW call \in Calls, NEW amount \in Amounts,
         NEW accrual \in Accruals, withdraw(p, call, amount, accrual)
  PROVE  LET collateral == liquidity_to_collateral_ceil(amount, reserve[call.reserve]) IN
         /\ amount \in Nat \ {0} /\ collateral \in Nat
         /\ validate_value_accounts(p, call)
         /\ Computes(reserve[call.reserve])
         /\ redeem_reserve_collateral(call.reserve, call.collateral, call.signer,
                                      collateral, accrual)
         /\ Computes(reserve'[call.reserve])
         /\ RecordWithdraw(p, call.signer, amount, tokens'[call.collateral].amount,
              collateral_to_liquidity(tokens'[call.collateral].amount, reserve'[call.reserve]))
<1>1. amount \in Nat \ {0}
  BY SplTokensConstants DEF withdraw
<1>2. \A n : Fits(n) => n \in Nat
  BY AccountsConstants DEF Fits, U64
<1> QED BY <1>1, <1>2 DEF withdraw, validate_movement_accounts, updated_reserve_fields

LEMMA CurrentValueTells ==
  ASSUME IInv, NEW p \in DOMAIN position, NEW call \in Calls, current_value(p, call)
  PROVE  /\ validate_value_accounts(p, call)
         /\ Computes(reserve[call.reserve])
         /\ Report(p, call.signer, tokens[call.collateral].amount,
              collateral_to_liquidity(tokens[call.collateral].amount, reserve[call.reserve]))
         /\ UNCHANGED <<tokens, reserve>>
BY DEF current_value

LEMMA StepsAreAccountSteps ==
  ASSUME IInv, Next
  PROVE  AccountStep(Places)
<1>1. CASE Kamino /\ Elsewhere
  BY <1>1 DEF AccountStep
<1>2. ASSUME NEW mint \in Mints, NEW program \in Programs, NEW version \in Versions,
             initialize_config(mint, program, version)
      PROVE  AccountStep(Places)
  BY <1>2 DEF initialize_config, AccountStep
<1>3. ASSUME NEW owner \in Users, NEW configuration \in DOMAIN config,
             NEW place \in Places, initialize_position(owner, configuration, place)
      PROVE  AccountStep(Places)
  BY <1>3 DEF initialize_position, AccountStep
<1>4. ASSUME NEW p \in DOMAIN position, NEW call \in Calls, NEW amount \in Amounts,
             NEW accrual \in Accruals,
             deposit(p, call, amount, accrual) \/ withdraw(p, call, amount, accrual)
      PROVE  AccountStep(Places)
  <2>1. CASE deposit(p, call, amount, accrual)
    <3>1. /\ amount \in Nat \ {0} /\ validate_value_accounts(p, call)
          /\ \E shares, value : RecordDeposit(p, call.signer, amount, shares, value)
      BY <2>1, DepositMoves
    <3> QED BY <3>1, CallIsTheOwners, RecordedIsMoved DEF AccountStep
  <2>2. CASE withdraw(p, call, amount, accrual)
    <3>1. /\ amount \in Nat \ {0} /\ validate_value_accounts(p, call)
          /\ \E shares, value : RecordWithdraw(p, call.signer, amount, shares, value)
      BY <2>2, WithdrawMoves
    <3> QED BY <3>1, CallIsTheOwners, RecordedIsMoved DEF AccountStep
  <2> QED BY <1>4, <2>1, <2>2
<1>5. ASSUME NEW p \in DOMAIN position, NEW call \in Calls, current_value(p, call)
      PROVE  AccountStep(Places)
  <2>1. Told(p)
    BY <1>5, CurrentValueTells, CallIsTheOwners, ReportedIsTold
  <2> QED BY <2>1 DEF AccountStep
<1> QED BY <1>1, <1>2, <1>3, <1>4, <1>5 DEF Next, Adapter

-----------------------------------------------------------------------------
(* The invariant.                                                          *)

(* Whether a position's accounts fit its configuration. *)
SoundPlace(p) ==
  LET facts == ReserveFacts[position[p].place.reserve]
      c == config[p.config] IN
  /\ facts.program = c.protocol_program_id /\ facts.mint = c.supported_mint
  /\ TokenFacts[position[p].place.collateral].mint = facts.collateral_mint

LEMMA InitIInv == Init => IInv
<1> SUFFICES ASSUME Init PROVE IInv
  OBVIOUS
<1>1. AccountsInv(Places) /\ FundedPositionsAreSound
  BY AccountsInit DEF Init, NoAccounts, FundedPositionsAreSound
<1>2. TokensTypeOK
  BY SplTokensConstants DEF Init, TokensTypeOK
<1>3. EmptyReserve \in Reserve
  BY KaminoConstants, AccountsConstants DEF EmptyReserve, Reserve, U64
<1>4. reserve \in [Reserves -> Reserve]
  BY <1>3 DEF Init
<1> QED BY <1>1, <1>2, <1>4 DEF IInv

LEMMA FundedStaySound ==
  ASSUME IInv, Next
  PROVE  FundedPositionsAreSound'
<1>1. AccountsInv(Places)' /\ AccountsPersist
  BY StepsAreAccountSteps, AccountStepKeeps DEF IInv
<1> SUFFICES ASSUME NEW p \in DOMAIN position', Funded(p)'
             PROVE  SoundPlace(p)'
  BY DEF FundedPositionsAreSound, SoundPlace
<1>2. ASSUME p \in DOMAIN position, SoundPlace(p)
      PROVE  SoundPlace(p)'
  <2>1. p.config \in DOMAIN config
    BY <1>2 DEF IInv, AccountsInv, AccountsTypeOK
  <2> QED BY <1>1, <1>2, <2>1 DEF AccountsPersist, SoundPlace
<1>3. ASSUME p \in DOMAIN position, position'[p] = position[p]
      PROVE  SoundPlace(p)'
  <2>1. SoundPlace(p)
    BY <1>3 DEF IInv, FundedPositionsAreSound, SoundPlace, Funded
  <2> QED BY <1>2, <1>3, <2>1
<1>4. CASE position' = position
  BY <1>3, <1>4
<1>5. ASSUME NEW owner \in Users, NEW configuration \in DOMAIN config, NEW place \in Places,
             CreatePosition(owner, configuration, place)
      PROVE  SoundPlace(p)'
  <2> DEFINE address == PositionAddress(configuration, owner)
  <2>1. p # address
    BY <1>5 DEF CreatePosition, Funded
  <2>2. p \in DOMAIN position /\ position'[p] = position[p]
    BY <1>5, <2>1 DEF CreatePosition
  <2> QED BY <1>3, <2>2
<1>6. ASSUME NEW q \in DOMAIN position, NEW call \in Calls, NEW amount \in Amounts,
             NEW accrual \in Accruals,
             deposit(q, call, amount, accrual) \/ withdraw(q, call, amount, accrual)
      PROVE  SoundPlace(p)'
  <2>1. SoundPlace(q)
    BY <1>6, DepositMoves, WithdrawMoves, CallIsTheOwners DEF SoundPlace
  <2>2. /\ DOMAIN position' = DOMAIN position
        /\ \A o \in DOMAIN position : o # q => position'[o] = position[o]
    BY <1>6, DepositMoves, WithdrawMoves, RecordWrites
    DEF RecordDeposit, RecordWithdraw, IInv
  <2> QED BY <1>2, <1>3, <2>1, <2>2
<1> QED BY <1>4, <1>5, <1>6
        DEF Next, Adapter, Elsewhere, initialize_config, CreateConfig, initialize_position,
            current_value, Report

LEMMA NextKeepsIInv ==
  ASSUME IInv, Next
  PROVE  IInv'
<1>1. AccountsInv(Places)' /\ FundedPositionsAreSound'
  BY StepsAreAccountSteps, AccountStepKeeps, FundedStaySound DEF IInv
<1> SUFFICES TokensTypeOK' /\ reserve' \in [Reserves -> Reserve]
  BY <1>1 DEF IInv
<1>2. CASE Kamino
  BY <1>2, KaminoKeepsTypes
<1>3. ASSUME NEW p \in DOMAIN position, NEW call \in Calls, NEW amount \in Amounts,
             NEW accrual \in Accruals, deposit(p, call, amount, accrual)
      PROVE  TokensTypeOK' /\ reserve' \in [Reserves -> Reserve]
  BY <1>3, DepositMoves, CallIsTheOwners, DepositReserveMoves
<1>4. ASSUME NEW p \in DOMAIN position, NEW call \in Calls, NEW amount \in Amounts,
             NEW accrual \in Accruals, withdraw(p, call, amount, accrual)
      PROVE  TokensTypeOK' /\ reserve' \in [Reserves -> Reserve]
  <2> DEFINE collateral == liquidity_to_collateral_ceil(amount, reserve[call.reserve])
  <2>1. /\ collateral \in Nat /\ validate_value_accounts(p, call)
        /\ redeem_reserve_collateral(call.reserve, call.collateral, call.signer,
                                     collateral, accrual)
    BY <1>4, WithdrawMoves
  <2> HIDE DEF collateral
  <2>2. call.reserve \in Reserves /\ call.collateral \in TokenAccounts
    BY <2>1, CallIsTheOwners
  <2> QED BY <2>1, <2>2, RedeemReserveMoves
<1>5. ASSUME UNCHANGED <<tokens, reserve>>
      PROVE  TokensTypeOK' /\ reserve' \in [Reserves -> Reserve]
  BY <1>5 DEF IInv, TokensTypeOK
<1> QED BY <1>2, <1>3, <1>4, <1>5
        DEF Next, Adapter, initialize_config, initialize_position, current_value

-----------------------------------------------------------------------------
(* The properties.                                                         *)

(* A value, between what the exact worth and the roundings allow.          *)
ValueNearExact(value, shares, v) ==
  LET scaled == One * v.mint_supply IN
  /\ value * scaled <= shares * (Exact(v) + 3 * (One - 1))
  /\ shares * (Exact(v) - (One - 1)) < (value + 1) * scaled

LEMMA ValueWithinRounding ==
  ASSUME NEW v \in Reserve, Computes(v), ~ OneToOne(v), NEW shares \in Nat
  PROVE  ValueNearExact(collateral_to_liquidity(shares, v), shares, v)
<1> DEFINE total == total_supply(v)
           supply == v.mint_supply
           exact == Exact(v)
           value == collateral_to_liquidity(shares, v)
<1>1. /\ total \in Nat /\ exact \in Int
      /\ total * One <= exact + 3 * (One - 1) /\ exact - (One - 1) <= total * One
  BY TotalNearExact DEF Computes
<1>2. supply \in Nat \ {0} /\ One \in Nat \ {0}
  BY ReserveNumbers, KaminoConstants DEF OneToOne
<1>3. value = (shares * total) \div supply
  BY DEF collateral_to_liquidity
<1> HIDE DEF total, exact, supply, value
<1>4. value \in Nat /\ value * supply <= shares * total /\ shares * total < (value + 1) * supply
  <2> DEFINE worth == shares * total
  <2>1. worth \in Nat
    BY <1>1
  <2> HIDE DEF worth
  <2>2. value = worth \div supply
    BY <1>3 DEF worth
  <2>3. value \in Nat /\ value * supply <= worth /\ worth < (value + 1) * supply
    BY <1>2, <2>1, <2>2, Floored
  <2> QED BY <2>3 DEF worth
<1>5. /\ (value * supply) * One <= (shares * total) * One
      /\ (shares * total) * One < ((value + 1) * supply) * One
  <2>1. value * supply \in Int /\ shares * total \in Int /\ (value + 1) * supply \in Int
    BY <1>1, <1>2, <1>4
  <2> QED BY <1>2, <1>4, <2>1, ProductsOrdered, StrictProductsOrdered
<1>6. /\ (total * One) * shares <= (exact + 3 * (One - 1)) * shares
      /\ (exact - (One - 1)) * shares <= (total * One) * shares
  <2>1. total * One \in Int /\ exact + 3 * (One - 1) \in Int /\ exact - (One - 1) \in Int
    BY <1>1, <1>2
  <2> QED BY <1>1, <2>1, ProductsOrdered
<1>7. /\ (value * supply) * One = value * (One * supply)
      /\ ((value + 1) * supply) * One = (value + 1) * (One * supply)
      /\ (shares * total) * One = (total * One) * shares
      /\ (exact + 3 * (One - 1)) * shares = shares * (exact + 3 * (One - 1))
      /\ (exact - (One - 1)) * shares = shares * (exact - (One - 1))
  BY <1>1, <1>2, <1>4
<1> DEFINE a == value * (One * supply)
           b == (value + 1) * (One * supply)
           w == (total * One) * shares
           h == shares * (exact + 3 * (One - 1))
           l == shares * (exact - (One - 1))
<1>8. a \in Int /\ b \in Int /\ w \in Int /\ h \in Int /\ l \in Int
  BY <1>1, <1>2, <1>4
<1>9. a <= w /\ w < b /\ w <= h /\ l <= w
  BY <1>5, <1>6, <1>7
<1> HIDE DEF a, b, w, h, l
<1>10. a <= h /\ l < b
  BY <1>8, <1>9
<1> QED BY <1>10 DEF a, b, h, l, total, supply, exact, value, ValueNearExact

(* Any announcement that is made from the accounts as they are then. *)
LEMMA AnnouncementIsRight ==
  ASSUME TokensTypeOK', NEW r \in Reserves, NEW t \in TokenAccounts,
         reserve'[r] \in Reserve, Computes(reserve'[r]),
         position'[event'.position].place.reserve = r,
         position'[event'.position].place.collateral = t,
         event'.shares = tokens'[t].amount,
         event'.value = collateral_to_liquidity(tokens'[t].amount, reserve'[r])
  PROVE  ReportsWithinRounding'
<1> DEFINE held == tokens'[t].amount
           v == reserve'[r]
<1>1. held \in Nat
  BY AccountsConstants DEF TokensTypeOK, U64
<1>2. OneToOne(v) => event'.value = held
  BY DEF collateral_to_liquidity
<1>3. ~ OneToOne(v) => ValueNearExact(event'.value, held, v)
  BY <1>1, ValueWithinRounding
<1>4. OneToOne(v) \/ ~ OneToOne(v)
  OBVIOUS
<1> HIDE DEF v
<1>5. v = reserve'[r]
  BY DEF v
<1> QED BY <1>2, <1>3, <1>4, <1>5
        DEF ReportsWithinRounding, ValueNearExact, OneToOne, Exact, total_supply

LEMMA NextReports ==
  ASSUME IInv, Next
  PROVE  ReportsWithinRounding'
<1>1. TokensTypeOK' /\ \A r \in Reserves : reserve'[r] \in Reserve
  BY NextKeepsIInv DEF IInv
<1>2. ASSUME event' = NoEvent
      PROVE  ReportsWithinRounding'
  BY <1>2 DEF NoEvent, ReportsWithinRounding
<1>3. ASSUME NEW p \in DOMAIN position, NEW call \in Calls, NEW amount \in Amounts,
             NEW accrual \in Accruals, deposit(p, call, amount, accrual)
      PROVE  ReportsWithinRounding'
  <2>1. /\ call.reserve \in Reserves /\ call.reserve = position[p].place.reserve
        /\ call.collateral \in TokenAccounts /\ call.collateral = position[p].place.collateral
    BY <1>3, DepositMoves, CallIsTheOwners
  <2>2. /\ position'[p].place = position[p].place /\ event'.position = p
        /\ event'.shares = tokens'[call.collateral].amount
        /\ event'.value = collateral_to_liquidity(tokens'[call.collateral].amount,
                                                  reserve'[call.reserve])
        /\ Computes(reserve'[call.reserve])
    BY <1>3, DepositMoves, RecordWrites DEF RecordDeposit, IInv
  <2> QED BY <1>1, <2>1, <2>2, AnnouncementIsRight
<1>4. ASSUME NEW p \in DOMAIN position, NEW call \in Calls, NEW amount \in Amounts,
             NEW accrual \in Accruals, withdraw(p, call, amount, accrual)
      PROVE  ReportsWithinRounding'
  <2>1. /\ call.reserve \in Reserves /\ call.reserve = position[p].place.reserve
        /\ call.collateral \in TokenAccounts /\ call.collateral = position[p].place.collateral
    BY <1>4, WithdrawMoves, CallIsTheOwners
  <2>2. /\ position'[p].place = position[p].place /\ event'.position = p
        /\ event'.shares = tokens'[call.collateral].amount
        /\ event'.value = collateral_to_liquidity(tokens'[call.collateral].amount,
                                                  reserve'[call.reserve])
        /\ Computes(reserve'[call.reserve])
    BY <1>4, WithdrawMoves, RecordWrites DEF RecordWithdraw, IInv
  <2> QED BY <1>1, <2>1, <2>2, AnnouncementIsRight
<1>5. ASSUME NEW p \in DOMAIN position, NEW call \in Calls, current_value(p, call)
      PROVE  ReportsWithinRounding'
  <2>1. /\ call.reserve \in Reserves /\ call.reserve = position[p].place.reserve
        /\ call.collateral \in TokenAccounts /\ call.collateral = position[p].place.collateral
    BY <1>5, CurrentValueTells, CallIsTheOwners
  <2>2. /\ position' = position /\ event'.position = p
        /\ event'.shares = tokens[call.collateral].amount
        /\ event'.value = collateral_to_liquidity(tokens[call.collateral].amount,
                                                  reserve[call.reserve])
        /\ tokens' = tokens /\ reserve' = reserve /\ Computes(reserve[call.reserve])
    BY <1>5, CurrentValueTells DEF Report
  <2> QED BY <1>1, <2>1, <2>2, AnnouncementIsRight
<1> QED BY <1>2, <1>3, <1>4, <1>5
        DEF Next, Adapter, Elsewhere, Silent, initialize_config, CreateConfig,
            initialize_position, CreatePosition

(* The collateral for an amount is the least that covers it at the rate.   *)
LEMMA LeastThatCovers ==
  ASSUME NEW v \in Reserve, Computes(v), ~ OneToOne(v), NEW amount \in Nat,
         NEW collateral \in Nat, collateral = liquidity_to_collateral_ceil(amount, v)
  PROVE  /\ amount * v.mint_supply <= collateral * total_supply(v)
         /\ (collateral - 1) * total_supply(v) < amount * v.mint_supply
<1> DEFINE total == total_supply(v)
           due == amount * v.mint_supply
<1>1. total \in Nat \ {0} /\ due \in Nat
  BY ReserveNumbers, TotalNearExact DEF OneToOne, Computes
<1>2. collateral = (due + total - 1) \div total
  BY DEF liquidity_to_collateral_ceil
<1> HIDE DEF total, due
<1>3. due <= collateral * total /\ collateral * total < due + total
  BY <1>1, <1>2, RoundedUp
<1>4. (collateral - 1) * total = collateral * total - total /\ collateral * total \in Int
  BY <1>1
<1>5. (collateral - 1) * total < due
  BY <1>1, <1>3, <1>4
<1> QED BY <1>3, <1>5 DEF total, due

(* What is worth an amount at the floored rate pays it at any exact rate   *)
(* that is not below.                                                      *)
LEMMA CoverPays ==
  ASSUME NEW v \in Reserve, NEW w \in Reserve, w.mint_supply = v.mint_supply,
         Computes(v), ~ OneToOne(v), total_supply(v) * One <= Exact(w),
         NEW amount \in Nat, NEW collateral \in Nat,
         amount * v.mint_supply <= collateral * total_supply(v)
  PROVE  Paid(w, collateral) >= amount
<1> DEFINE total == total_supply(v)
           supply == v.mint_supply
           exact == Exact(w)
<1>1. total \in Nat \ {0} /\ supply \in Nat \ {0} /\ exact \in Int /\ One \in Nat \ {0}
  BY ReserveNumbers, TotalNearExact, KaminoConstants DEF OneToOne, Computes
<1>2. amount * supply <= collateral * total /\ total * One <= exact
  OBVIOUS
<1>3. Paid(w, collateral) = IF exact = 0 THEN collateral
                            ELSE (collateral * exact) \div (supply * One)
  BY <1>1 DEF Paid
<1> HIDE DEF total, supply, exact
<1>4. exact \in Nat \ {0}
  <2>1. total * One > 0 /\ total * One \in Int
    BY <1>1
  <2> QED BY <1>1, <1>2, <2>1
<1> DEFINE worth == collateral * exact
           scaled == supply * One
           paid == worth \div scaled
<1>5. worth \in Nat /\ scaled \in Nat \ {0}
  BY <1>1, <1>4
<1>6. amount * scaled <= worth
  <2>1. (amount * supply) * One <= (collateral * total) * One
    BY <1>1, <1>2, ProductsOrdered
  <2>2. (total * One) * collateral <= exact * collateral
    BY <1>1, <1>2, ProductsOrdered
  <2>3. /\ (amount * supply) * One = amount * (supply * One)
        /\ (collateral * total) * One = (total * One) * collateral
        /\ exact * collateral = collateral * exact
    BY <1>1
  <2>4. amount * scaled \in Int /\ (total * One) * collateral \in Int
    BY <1>1
  <2> QED BY <1>5, <2>1, <2>2, <2>3, <2>4
<1> HIDE DEF worth, scaled
<1>7. paid \in Nat /\ worth < (paid + 1) * scaled
  BY <1>5, Floored
<1> HIDE DEF paid
<1>8. ASSUME paid < amount PROVE FALSE
  <2>1. (paid + 1) * scaled <= amount * scaled
    BY <1>5, <1>7, <1>8, ProductsOrdered
  <2>2. (paid + 1) * scaled \in Int /\ amount * scaled \in Int
    BY <1>5, <1>7
  <2> QED BY <1>5, <1>6, <1>7, <2>1, <2>2
<1>9. Paid(w, collateral) = paid
  BY <1>3, <1>4 DEF paid, worth, scaled
<1> QED BY <1>7, <1>8, <1>9

(* What a withdrawal burns and is paid. *)
WithdrawalPays ==
  event'.kind = "withdraw" =>
    LET p == event'.position
        fields == reserve[position[p].place.reserve] IN
    ~ OneToOne(fields) =>
      /\ (Burnt(p) - 1) * total_supply(fields) < event'.amount * fields.mint_supply
      /\ WholeFees(fields) => PaidOut(p) >= event'.amount

LEMMA WithdrawPays ==
  ASSUME IInv, NEW p \in DOMAIN position, NEW call \in Calls, NEW amount \in Amounts,
         NEW accrual \in Accruals, withdraw(p, call, amount, accrual)
  PROVE  WithdrawalPays
<1> DEFINE v == reserve[call.reserve]
           w == Accrued(v, accrual)
           collateral == liquidity_to_collateral_ceil(amount, v)
<1>1. /\ call.reserve \in Reserves /\ call.reserve = position[p].place.reserve
      /\ call.collateral \in TokenAccounts /\ call.collateral = position[p].place.collateral
      /\ amount \in Nat /\ collateral \in Nat /\ Computes(v)
      /\ redeem_reserve_collateral(call.reserve, call.collateral, call.signer,
                                   collateral, accrual)
  BY WithdrawMoves, CallIsTheOwners
<1>2. event'.position = p /\ event'.amount = amount
  BY WithdrawMoves, RecordWrites DEF RecordWithdraw, IInv
<1>3. v \in Reserve
  BY <1>1 DEF IInv
<1>4. /\ Burnt(p) = collateral /\ PaidOut(p) = Paid(w, collateral)
      /\ w \in Reserve
  <2> HIDE DEF collateral
  <2>1. /\ tokens[call.collateral].amount - tokens'[call.collateral].amount = collateral
        /\ v.available - reserve'[call.reserve].available = Paid(w, collateral)
        /\ w \in Reserve
    <3>1. redeem_reserve_collateral(call.reserve, call.collateral, call.signer,
                                    collateral, accrual)
      BY <1>1
    <3>2. \A c \in Nat : redeem_reserve_collateral(call.reserve, call.collateral,
                                                  call.signer, c, accrual) =>
            /\ tokens[call.collateral].amount - tokens'[call.collateral].amount = c
            /\ reserve[call.reserve].available - reserve'[call.reserve].available
                 = Paid(Accrued(reserve[call.reserve], accrual), c)
            /\ Accrued(reserve[call.reserve], accrual) \in Reserve
      BY <1>1, RedeemReserveMoves
    <3> QED BY <1>1, <3>1, <3>2
  <2>2. Burnt(p) = collateral
    BY <1>1, <2>1 DEF Burnt
  <2>3. PaidOut(p) = Paid(w, collateral)
    <3> DEFINE paid == Paid(w, collateral)
    <3>1. v.available - reserve'[call.reserve].available = paid
      BY <2>1
    <3> HIDE DEF paid
    <3>2. PaidOut(p) = paid
      BY <1>1, <3>1 DEF PaidOut
    <3> QED BY <3>2 DEF paid
  <2> QED BY <2>1, <2>2, <2>3
<1>5. w.mint_supply = v.mint_supply /\ Exact(v) <= Exact(w)
  BY <1>3, AccrualsGain
<1> SUFFICES ASSUME ~ OneToOne(v)
             PROVE  /\ (collateral - 1) * total_supply(v) < amount * v.mint_supply
                    /\ WholeFees(v) => Paid(w, collateral) >= amount
  BY <1>1, <1>2, <1>4 DEF WithdrawalPays
<1>6. /\ amount * v.mint_supply <= collateral * total_supply(v)
      /\ (collateral - 1) * total_supply(v) < amount * v.mint_supply
  BY <1>1, <1>3, LeastThatCovers
<1> HIDE DEF v, w, collateral
<1>7. ASSUME WholeFees(v) PROVE Paid(w, collateral) >= amount
  <2>1. total_supply(v) * One <= Exact(v)
    BY <1>3, <1>7, TotalNearExact
  <2>2. total_supply(v) * One <= Exact(w)
    <3> DEFINE total == total_supply(v) * One
    <3>1. total \in Int /\ Exact(v) \in Int /\ Exact(w) \in Int
      BY <1>3, <1>4, TotalNearExact, KaminoConstants
    <3>2. total <= Exact(v)
      BY <2>1
    <3> HIDE DEF total
    <3>3. total <= Exact(w)
      BY <1>5, <3>1, <3>2
    <3> QED BY <3>3 DEF total
  <2> QED BY <1>1, <1>3, <1>4, <1>5, <1>6, <2>2, CoverPays
<1> QED BY <1>6, <1>7

LEMMA NextPays ==
  ASSUME IInv, Next
  PROVE  WithdrawalPays
<1>1. ASSUME event'.kind # "withdraw"
      PROVE  WithdrawalPays
  BY <1>1 DEF WithdrawalPays
<1>2. ASSUME NEW p \in DOMAIN position, NEW call \in Calls, NEW amount \in Amounts,
             NEW accrual \in Accruals, deposit(p, call, amount, accrual)
      PROVE  WithdrawalPays
  BY <1>1, <1>2, DepositMoves, RecordWrites DEF RecordDeposit, IInv
<1>3. ASSUME NEW p \in DOMAIN position, NEW call \in Calls, current_value(p, call)
      PROVE  WithdrawalPays
  BY <1>1, <1>3 DEF current_value, Report
<1>4. ASSUME event' = NoEvent
      PROVE  WithdrawalPays
  BY <1>1, <1>4 DEF NoEvent
<1> QED BY <1>2, <1>3, <1>4, WithdrawPays
        DEF Next, Adapter, Elsewhere, Silent, initialize_config, CreateConfig,
            initialize_position, CreatePosition

(* What a step may do to a token account. *)
MovesOnlyOwners(t) ==
  event'.kind # "none" /\ tokens'[t] # tokens[t] =>
    /\ t = position[event'.position].place.collateral
    /\ tokens[t].owner = event'.position.owner /\ tokens'[t].owner = tokens[t].owner
    /\ tokens'[t].amount < tokens[t].amount => event'.kind = "withdraw"

LEMMA NextMovesOnlyOwners ==
  ASSUME IInv, Next, NEW t \in TokenAccounts
  PROVE  MovesOnlyOwners(t)
<1> SUFFICES ASSUME tokens'[t] # tokens[t]
             PROVE  MovesOnlyOwners(t)
  BY DEF MovesOnlyOwners
<1>1. ASSUME event' = NoEvent
      PROVE  MovesOnlyOwners(t)
  BY <1>1 DEF MovesOnlyOwners, NoEvent
<1>2. tokens[t].amount \in Nat /\ tokens'[t].amount \in Nat
  BY TokenAmounts, NextKeepsIInv, AccountsConstants DEF IInv, TokensTypeOK, U64
<1>3. ASSUME NEW p \in DOMAIN position, NEW call \in Calls, NEW amount \in Amounts,
             NEW accrual \in Accruals, deposit(p, call, amount, accrual)
      PROVE  MovesOnlyOwners(t)
  <2>1. /\ call.collateral \in TokenAccounts /\ call.collateral = position[p].place.collateral
        /\ tokens[call.collateral].owner = p.owner /\ call.reserve \in Reserves
        /\ amount \in Nat
        /\ deposit_reserve_liquidity(call.reserve, call.collateral, amount, accrual)
    BY <1>3, DepositMoves, CallIsTheOwners
  <2>2. /\ tokens'[call.collateral].amount >= tokens[call.collateral].amount
        /\ tokens'[t].owner = tokens[t].owner
        /\ t # call.collateral => tokens'[t] = tokens[t]
    BY <2>1, DepositReserveMoves
  <2>3. event'.kind = "deposit" /\ event'.position = p
    BY <1>3, DepositMoves, RecordWrites DEF RecordDeposit, IInv
  <2> QED BY <1>2, <2>1, <2>2, <2>3 DEF MovesOnlyOwners
<1>4. ASSUME NEW p \in DOMAIN position, NEW call \in Calls, NEW amount \in Amounts,
             NEW accrual \in Accruals, withdraw(p, call, amount, accrual)
      PROVE  MovesOnlyOwners(t)
  <2>1. /\ call.collateral \in TokenAccounts /\ call.collateral = position[p].place.collateral
        /\ tokens[call.collateral].owner = p.owner /\ call.reserve \in Reserves
    BY <1>4, WithdrawMoves, CallIsTheOwners
  <2>2. /\ tokens'[t].owner = tokens[t].owner
        /\ t # call.collateral => tokens'[t] = tokens[t]
    <3> DEFINE collateral == liquidity_to_collateral_ceil(amount, reserve[call.reserve])
    <3>1. /\ collateral \in Nat
          /\ redeem_reserve_collateral(call.reserve, call.collateral, call.signer,
                                       collateral, accrual)
      BY <1>4, WithdrawMoves
    <3> HIDE DEF collateral
    <3> QED BY <2>1, <3>1, RedeemReserveMoves
  <2>3. event'.kind = "withdraw" /\ event'.position = p
    BY <1>4, WithdrawMoves, RecordWrites DEF RecordWithdraw, IInv
  <2> QED BY <2>1, <2>2, <2>3 DEF MovesOnlyOwners
<1> QED BY <1>1, <1>3, <1>4
        DEF Next, Adapter, Elsewhere, Silent, initialize_config, initialize_position,
            current_value, CreateConfig, CreatePosition

-----------------------------------------------------------------------------
(* The theorems.                                                           *)

LEMMA FundedStutter ==
  ASSUME FundedPositionsAreSound, UNCHANGED <<config, position>>
  PROVE  FundedPositionsAreSound'
<1>1. \A p \in DOMAIN position : Funded(p)' = Funded(p)
  BY DEF Funded
<1> QED BY <1>1 DEF FundedPositionsAreSound

LEMMA StutterKeeps ==
  ASSUME IInv, UNCHANGED vars
  PROVE  IInv'
<1>1. /\ UNCHANGED <<config, position, event, tokens, reserve>>
      /\ AccountsInv(Places) /\ TokensTypeOK /\ FundedPositionsAreSound
      /\ reserve \in [Reserves -> Reserve]
  BY DEF IInv, vars
<1>2. AccountsInv(Places)'
  BY <1>1, AccountsStutter
<1>3. TokensTypeOK' /\ reserve' \in [Reserves -> Reserve]
  BY <1>1 DEF TokensTypeOK
<1>4. FundedPositionsAreSound'
  BY <1>1, FundedStutter
<1> QED BY <1>2, <1>3, <1>4 DEF IInv

LEMMA Inductive == Spec => [](IInv /\ ReportsWithinRounding)
<1>1. Init => IInv /\ ReportsWithinRounding
  BY InitIInv DEF Init, NoAccounts, NoEvent, ReportsWithinRounding
<1>2. IInv /\ ReportsWithinRounding /\ [Next]_vars => (IInv /\ ReportsWithinRounding)'
  <2> SUFFICES ASSUME IInv, ReportsWithinRounding, [Next]_vars
               PROVE  IInv' /\ ReportsWithinRounding'
    OBVIOUS
  <2>1. CASE Next
    BY <2>1, NextKeepsIInv, NextReports
  <2>2. CASE UNCHANGED vars
    <3>1. IInv'
      BY <2>2, StutterKeeps
    <3>2. ReportsWithinRounding'
      BY <2>2 DEF vars, ReportsWithinRounding
    <3> QED BY <3>1, <3>2
  <2> QED BY <2>1, <2>2
<1> QED BY <1>1, <1>2, PTL DEF Spec

(* The accounts, the tokens and the reserves keep their types: no amount   *)
(* or fraction of Kamino's leaves the range of its field.                  *)
THEOREM TypeCorrect == Spec => []TypeOK
<1>1. IInv => TypeOK
  BY DEF IInv, AccountsInv, TypeOK
<1> QED BY <1>1, Inductive, PTL

(* An announcement is what the collateral is worth at the reserve's exact  *)
(* rate, to within three roundings up and one down (lib.rs:823-856).       *)
THEOREM ReportsCorrect == Spec => []ReportsWithinRounding
BY Inductive, PTL

(* A position that ever booked or found anything is bound to a reserve and *)
(* a collateral account of its configuration (lib.rs:77-98, 666-691).      *)
THEOREM FundedCorrect == Spec => []FundedPositionsAreSound
<1>1. IInv => FundedPositionsAreSound
  BY DEF IInv
<1> QED BY <1>1, Inductive, PTL

(* A withdrawal redeems the least collateral that covers its amount, and   *)
(* is paid the amount when no fee has a fraction (lib.rs:858-874).         *)
THEOREM PaymentsCorrect == Spec => WithdrawalsPay
<1>1. IInv /\ [Next]_vars => [WithdrawalPays]_vars
  BY NextPays
<1>2. Spec => [][WithdrawalPays]_vars
  BY <1>1, Inductive, PTL DEF Spec
<1> QED BY <1>2 DEF WithdrawalPays, WithdrawalsPay

(* An instruction moves collateral in the account of the signing owner's   *)
(* position only, and down only in a withdrawal (lib.rs:537-546, 592-634). *)
THEOREM OnlyTheOwnersCollateral == Spec => MovesOnlyTheOwnersCollateral
<1>1. IInv /\ [Next]_vars => [\A t \in TokenAccounts : MovesOnlyOwners(t)]_vars
  BY NextMovesOnlyOwners
<1>2. (\A t \in TokenAccounts : MovesOnlyOwners(t)) =>
        (event'.kind # "none" =>
           \A t \in TokenAccounts : tokens'[t] # tokens[t] =>
             /\ t = position[event'.position].place.collateral
             /\ tokens[t].owner = event'.position.owner /\ tokens'[t].owner = tokens[t].owner
             /\ tokens'[t].amount < tokens[t].amount => event'.kind = "withdraw")
  BY DEF MovesOnlyOwners
<1>3. Spec => [][event'.kind # "none" =>
           \A t \in TokenAccounts : tokens'[t] # tokens[t] =>
             /\ t = position[event'.position].place.collateral
             /\ tokens[t].owner = event'.position.owner /\ tokens'[t].owner = tokens[t].owner
             /\ tokens'[t].amount < tokens[t].amount => event'.kind = "withdraw"]_vars
  BY <1>1, <1>2, Inductive, PTL DEF Spec
<1> QED BY <1>3 DEF MovesOnlyTheOwnersCollateral

(* The adapter implements the promise of every adapter: booked amounts     *)
(* move by their owner's announced instructions alone.                     *)
THEOREM KaminoImplementsYieldAdapter == Spec => ImplementsYieldAdapter
<1>1. Init => Abstract!Init
  BY AccountsInitMaps DEF Init
<1>2. IInv /\ [Next]_vars => [Abstract!Next]_<<Booked, event>>
  <2>1. ASSUME IInv, Next PROVE Abstract!Next
    BY <2>1, StepsAreAccountSteps, AccountStepMaps DEF IInv
  <2>2. UNCHANGED vars => UNCHANGED <<Booked, event>>
    BY DEF vars, Booked
  <2> QED BY <2>1, <2>2
<1>3. Spec => Abstract!Init /\ [][Abstract!Next]_<<Booked, event>>
  BY <1>1, <1>2, Inductive, PTL DEF Spec
<1> QED BY <1>3 DEF ImplementsYieldAdapter, Abstract!Spec
=============================================================================
