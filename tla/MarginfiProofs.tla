--------------------------- MODULE MarginfiProofs ---------------------------
(***************************************************************************)
(* Theorems about the MarginFi adapter: its fixed-point product is exact   *)
(* or one unit short, its positions tell what MarginFi holds, what they    *)
(* book, and for whom, whatever MarginFi does by itself.                   *)
(***************************************************************************)
EXTENDS MarginfiUsdc, TLAPS

-----------------------------------------------------------------------------
(* Arithmetic.                                                             *)

(* Multiplying by a natural number keeps the order. *)
LEMMA ProductsOrdered ==
  ASSUME NEW x \in Int, NEW y \in Int, NEW d \in Nat, x <= y
  PROVE  x * d <= y * d
OBVIOUS

(* Quotient and remainder. *)
LEMMA Division ==
  ASSUME NEW a \in Nat, NEW d \in Nat \ {0}
  PROVE  /\ a \div d \in Nat /\ a % d \in 0 .. (d - 1)
         /\ a = (a \div d) * d + (a % d)
OBVIOUS

(* A number between two successive multiples has the lower as quotient. *)
LEMMA QuotientIs ==
  ASSUME NEW a \in Nat, NEW d \in Nat \ {0}, NEW q \in Int, q * d <= a, a < (q + 1) * d
  PROVE  a \div d = q
<1> DEFINE k == a \div d
<1>1. k \in Nat /\ k * d <= a /\ a < k * d + d
  BY Division
<1> HIDE DEF k
<1>2. ASSUME k >= q + 1 PROVE FALSE
  <2>1. (q + 1) * d <= k * d
    BY <1>1, <1>2, ProductsOrdered
  <2> QED BY <2>1, <1>1
<1>3. ASSUME q >= k + 1 PROVE FALSE
  <2>1. (k + 1) * d <= q * d
    BY <1>1, <1>3, ProductsOrdered
  <2>2. (k + 1) * d = k * d + d
    BY <1>1
  <2> QED BY <2>1, <2>2, <1>1
<1>4. k = q BY <1>1, <1>2, <1>3
<1> QED BY <1>4 DEF k

(* The product of two sums, by parts. *)
LEMMA ProductOfSums ==
  ASSUME NEW a \in Nat, NEW b \in Nat, NEW c \in Nat, NEW d \in Nat, NEW n \in Nat
  PROVE  (a * n + b) * (c * n + d) = (a * c) * (n * n) + (a * d + c * b) * n + b * d
<1>1. (a * n + b) * (c * n + d) = (a * n) * (c * n) + (a * n) * d + b * (c * n) + b * d
  OBVIOUS
<1>2. (a * n) * (c * n) = (a * c) * (n * n)
  OBVIOUS
<1>3. (a * n) * d + b * (c * n) = (a * d + c * b) * n
  OBVIOUS
<1> QED BY <1>1, <1>2, <1>3

(* The fixed-point product of the adapter is the true product, floored, or *)
(* one less: the carry of the two fractions is lost (lib.rs:827-849).      *)
THEOREM ProductWithinOne ==
  ASSUME NEW left \in Nat, NEW right \in Nat
  PROVE  /\ fixed_mul_floor_to_u64(left, right) \in Nat
         /\ fixed_mul_floor_to_u64(left, right)
              \in {Product(left, right) - 1, Product(left, right)}
<1> DEFINE lw == left \div One
           lf == left % One
           rw == right \div One
           rf == right % One
           cross == lw * rf + rw * lf
           frac == lf * rf
           value == lw * rw + cross \div One
           rest == (cross % One) * One + frac
           square == One * One
<1>0. One \in Nat \ {0} BY FixedPointConstants
<1>1. lw \in Nat /\ lf \in Nat /\ lf <= One - 1 /\ left = lw * One + lf
  <2>1. /\ left \div One \in Nat /\ left % One \in 0 .. (One - 1)
        /\ left = (left \div One) * One + (left % One)
    BY <1>0, Division
  <2> QED BY <2>1, <1>0
<1>2. rw \in Nat /\ rf \in Nat /\ rf <= One - 1 /\ right = rw * One + rf
  <2>1. /\ right \div One \in Nat /\ right % One \in 0 .. (One - 1)
        /\ right = (right \div One) * One + (right % One)
    BY <1>0, Division
  <2> QED BY <2>1, <1>0
<1> HIDE DEF lw, lf, rw, rf
<1>3. cross \in Nat /\ frac \in Nat /\ square \in Nat \ {0}
  BY <1>0, <1>1, <1>2
<1>4. frac <= (One - 1) * (One - 1)
  <2>1. lf * rf <= (One - 1) * rf
    BY <1>0, <1>1, <1>2, ProductsOrdered
  <2>2. rf * (One - 1) <= (One - 1) * (One - 1)
    BY <1>0, <1>2, ProductsOrdered
  <2>3. (One - 1) * rf = rf * (One - 1)
    BY <1>0, <1>2
  <2> QED BY <2>1, <2>2, <2>3, <1>0, <1>1, <1>2
<1>5. cross \div One \in Nat /\ cross % One \in 0 .. (One - 1)
      /\ cross = (cross \div One) * One + (cross % One)
  BY <1>0, <1>3, Division
<1>6. left * right = value * square + rest
  <2>1. left * right = (lw * rw) * square + cross * One + frac
    BY <1>0, <1>1, <1>2, ProductOfSums
  <2> DEFINE c == cross \div One
             m == cross % One
  <2> HIDE DEF c, m, cross, frac
  <2>2. c \in Nat /\ m \in Nat /\ cross = c * One + m
    BY <1>5 DEF c, m
  <2>3. cross * One = c * square + m * One
    BY <2>2, <1>0
  <2>4. ((lw * rw) + c) * square = (lw * rw) * square + c * square
    BY <2>2, <1>0, <1>1, <1>2
  <2>5. left * right = ((lw * rw) + c) * square + (m * One + frac)
    <3>1. (lw * rw) * square \in Int /\ c * square \in Int /\ m * One \in Int
      BY <2>2, <1>0, <1>1, <1>2
    <3> QED BY <2>1, <2>3, <2>4, <3>1, <1>3
  <2> QED BY <2>5 DEF c, m
<1>7. rest \in Nat /\ rest < 2 * square
  <2>1. (cross % One) * One <= (One - 1) * One
    <3> DEFINE most == One - 1
               over == cross % One
    <3>1. over \in Nat /\ most \in Nat /\ over <= most /\ One \in Nat
      BY <1>0, <1>5
    <3> HIDE DEF over, most
    <3>2. over * One <= most * One
      BY <3>1, ProductsOrdered
    <3> QED BY <3>2 DEF over, most
  <2>2. (One - 1) * One + (One - 1) * (One - 1) < 2 * square
    BY <1>0
  <2> DEFINE m == cross % One
  <2>3. m * One \in Nat /\ m * One <= (One - 1) * One
    BY <2>1, <1>0, <1>5
  <2> HIDE DEF m, frac, square, cross
  <2>4. (One - 1) * One \in Nat /\ (One - 1) * (One - 1) \in Nat
    BY <1>0
  <2>5. m * One + frac \in Nat /\ m * One + frac < 2 * square
    BY <2>2, <2>3, <2>4, <1>3, <1>4
  <2> QED BY <2>5 DEF m
<1>8. value \in Nat
  BY <1>1, <1>2, <1>5
<1>9. (frac \div One) \div One = 0
  <2>1. frac \div One \in Nat /\ frac = (frac \div One) * One + (frac % One)
        /\ frac % One \in Nat
    <3> HIDE DEF frac
    <3> QED BY <1>0, <1>3, Division
  <2>2. frac < square
    BY <1>0, <1>3, <1>4
  <2>3. frac \div One < One
    <3> DEFINE k == frac \div One
    <3>1. k \in Nat /\ k * One <= frac
      BY <2>1, <1>0
    <3> HIDE DEF k, frac
    <3>2. ASSUME One <= k PROVE FALSE
      <4>1. One * One <= k * One
        BY <3>1, <3>2, <1>0, ProductsOrdered
      <4> QED BY <4>1, <3>1, <2>2, <1>0, <1>3
    <3> QED BY <3>1, <3>2, <1>0 DEF k
  <2> QED BY <2>1, <2>3, <1>0, QuotientIs
<1>10. fixed_mul_floor_to_u64(left, right) = value
  <2>1. fixed_mul_floor_to_u64(left, right) = value + (frac \div One) \div One
    BY DEF fixed_mul_floor_to_u64, lw, lf, rw, rf
  <2> QED BY <2>1, <1>8, <1>9
<1> HIDE DEF value, rest, square
<1>11. left * right \in Nat
  OBVIOUS
<1>12. CASE rest < square
  <2>1. (left * right) \div square = value
    <3>1. value * square <= left * right /\ left * right < (value + 1) * square
      BY <1>3, <1>6, <1>7, <1>8, <1>12
    <3> QED BY <3>1, <1>3, <1>8, <1>11, QuotientIs
  <2> QED BY <2>1, <1>8, <1>10 DEF Product, square
<1>13. CASE rest >= square
  <2>1. (left * right) \div square = value + 1
    <3>1. (value + 1) * square <= left * right
      BY <1>3, <1>6, <1>7, <1>8, <1>13
    <3>2. left * right < ((value + 1) + 1) * square
      BY <1>3, <1>6, <1>7, <1>8
    <3>3. value + 1 \in Int
      BY <1>8
    <3> QED BY <3>1, <3>2, <3>3, <1>3, <1>11, QuotientIs
  <2> QED BY <2>1, <1>8, <1>10 DEF Product, square
<1> QED BY <1>12, <1>13, <1>7, <1>3

-----------------------------------------------------------------------------
(* The inductive invariant.                                                *)

(* MarginFi never keeps two active balances of one bank in an account. *)
OnePerBank(balances) == \A b \in Banks : \A s, t \in ActiveIn(balances, b) : s = t

OneBalancePerBank == \A a \in Accounts : OnePerBank(account[a].balances)

OwnersMatch == \A p \in DOMAIN position : position[p].owner = p.owner

IInv ==
  /\ TypeOK /\ OneBalancePerBank /\ OwnersMatch
  /\ BookedFromTheLow /\ FundedPositionsAreSound /\ ReportsWhatIsHeld

-----------------------------------------------------------------------------
(* MarginFi's balances.                                                    *)

(* The first active balance of a bank is its only one. *)
LEMMA ReadIsHeld ==
  ASSUME NEW balances \in [Slots -> Balance], NEW b \in Banks, OnePerBank(balances)
  PROVE  /\ read_asset_shares_for_bank(balances, b) = HeldIn(balances, b)
         /\ HeldIn(balances, b) \in Nat /\ HeldIn(balances, b) \in 0 .. MaxShares
<1>1. CASE ActiveIn(balances, b) = {}
  BY <1>1, MarginfiConstants DEF read_asset_shares_for_bank, HeldIn, ActiveIn
<1>2. CASE ActiveIn(balances, b) # {}
  <2>1. PICK s \in ActiveIn(balances, b) : TRUE
    BY <1>2
  <2>2. ActiveIn(balances, b) = {s}
    BY <2>1 DEF OnePerBank
  <2>3. s \in Nat /\ s \in Slots
    BY <2>1, MarginfiConstants DEF ActiveIn
  <2>4. First({s}) = s
    BY <2>3 DEF First
  <2>5. (CHOOSE r \in {s} : TRUE) = s
    OBVIOUS
  <2>6. read_asset_shares_for_bank(balances, b) = balances[s].shares
    BY <2>2, <2>4 DEF read_asset_shares_for_bank, ActiveIn
  <2>7. HeldIn(balances, b) = balances[s].shares
    BY <2>2, <2>5 DEF HeldIn
  <2>8. balances[s].shares \in Nat /\ balances[s].shares \in 0 .. MaxShares
    BY <2>3, MarginfiConstants DEF Balance
  <2> QED BY <2>6, <2>7, <2>8
<1> QED BY <1>1, <1>2

(* Setting the shares of a bank keeps the balances well formed and touches *)
(* no balance of another bank.                                             *)
LEMMA WithSharesKeeps ==
  ASSUME NEW balances \in [Slots -> Balance], NEW b \in Banks,
         NEW shares \in 0 .. MaxShares, OnePerBank(balances), HasSlot(balances, b)
  PROVE  /\ WithShares(balances, b, shares) \in [Slots -> Balance]
         /\ OnePerBank(WithShares(balances, b, shares))
         /\ \A s \in Slots : WithShares(balances, b, shares)[s] # balances[s] =>
              WithShares(balances, b, shares)[s].bank = b
<1> DEFINE slot == SlotFor(balances, b)
           next == WithShares(balances, b, shares)
<1>1. /\ slot \in Slots
      /\ ActiveIn(balances, b) # {} => slot \in ActiveIn(balances, b)
      /\ ActiveIn(balances, b) = {} => slot \in Free(balances)
  <2>1. CASE ActiveIn(balances, b) # {}
    BY <2>1 DEF SlotFor, ActiveIn
  <2>2. CASE ActiveIn(balances, b) = {}
    BY <2>2 DEF SlotFor, Free, HasSlot
  <2> QED BY <2>1, <2>2
<1> HIDE DEF slot
<1>2. next = [balances EXCEPT ![slot] =
                IF shares = 0 THEN [balances[slot] EXCEPT !.active = FALSE]
                ELSE [active |-> TRUE, bank |-> b, shares |-> shares]]
  BY DEF WithShares, slot
<1>3. balances[slot] \in Balance
  BY <1>1
<1>4. next \in [Slots -> Balance]
  <2>1. [balances[slot] EXCEPT !.active = FALSE] \in Balance
    BY <1>3 DEF Balance
  <2>2. [active |-> TRUE, bank |-> b, shares |-> shares] \in Balance
    BY DEF Balance
  <2> HIDE DEF next
  <2> QED BY <1>1, <1>2, <2>1, <2>2
<1>5. \A s \in Slots : s # slot => next[s] = balances[s]
  BY <1>2
<1>6. CASE shares = 0
  <2>1. next[slot] = [balances[slot] EXCEPT !.active = FALSE]
    BY <1>1, <1>2, <1>6
  <2>2. ~ next[slot].active /\ next[slot].bank = balances[slot].bank
    BY <2>1, <1>3 DEF Balance
  <2>3. OnePerBank(next)
    BY <2>2, <1>5 DEF OnePerBank, ActiveIn
  <2>4. next[slot] # balances[slot] => next[slot].bank = b
    <3>1. CASE ActiveIn(balances, b) # {}
      BY <3>1, <1>1, <2>2 DEF ActiveIn
    <3>2. CASE ActiveIn(balances, b) = {}
      <4>1. balances[slot].active = FALSE
        BY <3>2, <1>1, <1>3 DEF Free, Balance
      <4> QED BY <4>1, <2>1, <1>3 DEF Balance
    <3> QED BY <3>1, <3>2
  <2> QED BY <1>4, <1>5, <2>3, <2>4
<1>7. CASE shares # 0
  <2>1. next[slot] = [active |-> TRUE, bank |-> b, shares |-> shares]
    BY <1>1, <1>2, <1>7
  <2>2. OnePerBank(next)
    <3> SUFFICES ASSUME NEW c \in Banks, NEW s \in ActiveIn(next, c),
                        NEW t \in ActiveIn(next, c)
                 PROVE  s = t
      BY DEF OnePerBank
    <3>1. CASE s # slot /\ t # slot
      BY <3>1, <1>5 DEF OnePerBank, ActiveIn
    <3>2. ASSUME NEW r \in ActiveIn(next, b) PROVE r = slot
      <4>1. CASE r # slot
        <5>1. r \in ActiveIn(balances, b)
          BY <4>1, <1>5 DEF ActiveIn
        <5> QED BY <5>1, <1>1 DEF OnePerBank
      <4> QED BY <4>1
    <3>3. CASE s = slot \/ t = slot
      <4>1. c = b
        BY <3>3, <2>1 DEF ActiveIn
      <4> QED BY <4>1, <3>2
    <3> QED BY <3>1, <3>3
  <2> QED BY <1>4, <1>5, <2>1, <2>2
<1> QED BY <1>6, <1>7

-----------------------------------------------------------------------------
(* The adapter's readings and movements.                                   *)

Unit == 0 .. MaxU64

(* What is read from well-formed balances is what they hold, to one unit.  *)
LEMMA ReadingIsRight ==
  ASSUME NEW balances \in [Slots -> Balance], NEW b \in Banks, OnePerBank(balances),
         NEW share_value \in ShareValues, Readable(balances, b, share_value)
  PROVE  /\ SharesIn(balances, b) = HeldIn(balances, b) \div One
         /\ SharesIn(balances, b) \in Unit
         /\ ValueIn(balances, b, share_value)
              \in {Product(HeldIn(balances, b), share_value) - 1,
                  Product(HeldIn(balances, b), share_value)}
         /\ ValueIn(balances, b, share_value) \in Unit
<1> DEFINE held == HeldIn(balances, b)
<1>1. read_asset_shares_for_bank(balances, b) = held /\ held \in Nat
  BY ReadIsHeld
<1>2. share_value \in Nat /\ One \in Nat \ {0} /\ MaxU64 \in Nat
  BY MarginfiConstants, FixedPointConstants
<1> HIDE DEF held
<1>3. held \div One \in Nat
  BY <1>1, <1>2, Division
<1>4. SharesIn(balances, b) = held \div One /\ SharesIn(balances, b) \in Unit
  BY <1>1, <1>2, <1>3 DEF SharesIn, fixed_floor_to_u64, Readable, Fits, Unit
<1>5. /\ fixed_mul_floor_to_u64(held, share_value) \in Nat
      /\ fixed_mul_floor_to_u64(held, share_value)
           \in {Product(held, share_value) - 1, Product(held, share_value)}
  BY <1>1, <1>2, ProductWithinOne
<1>6. ValueIn(balances, b, share_value) = fixed_mul_floor_to_u64(held, share_value)
  BY <1>1 DEF ValueIn
<1>7. ValueIn(balances, b, share_value) \in Unit
  BY <1>5, <1>6, <1>2 DEF Readable, Fits, Unit
<1> QED BY <1>4, <1>5, <1>6, <1>7 DEF held

(* What validation establishes about the accounts of a call. *)
LEMMA ValidatedFacts ==
  ASSUME TypeOK, OwnersMatch, NEW p \in DOMAIN position, NEW call \in Calls, Validated(p, call)
  PROVE  /\ call.account \in Accounts /\ call.bank \in Banks /\ call.signer \in Users
         /\ position[p].marginfi_account = call.account
         /\ position[p].marginfi_bank = call.bank
         /\ call.signer = p.owner /\ position[p].owner = p.owner
         /\ account[call.account].authority = p.owner
         /\ AccountFacts[call.account].program = config[p.config].protocol_program_id
         /\ BankFacts[call.bank].program = config[p.config].protocol_program_id
         /\ BankFacts[call.bank].mint = config[p.config].supported_mint
         /\ BankFacts[call.bank].decimals = 6
         /\ AccountFacts[call.account].group = BankFacts[call.bank].group
  BY MarginfiConstants
  DEF Validated, validate_owner_and_mint, validate_protocol_program, validate_protocol_state,
      OwnersMatch

(* A deposit and a withdrawal, reduced to what both do: they set the       *)
(* shares of one balance and the value of one share, and record it.        *)
Movement(p, call, kind, amount, deposited) ==
  /\ p \in DOMAIN position /\ call \in Calls /\ Validated(p, call)
  /\ kind \in {"deposit", "withdraw"} /\ amount \in Amounts /\ deposited \in Unit
  /\ \E shares \in 0 .. MaxShares, accrued \in ShareValues :
       /\ HasSlot(account[call.account].balances, call.bank)
       /\ account' = [account EXCEPT ![call.account].balances =
                        WithShares(@, call.bank, shares)]
       /\ bank' = [bank EXCEPT ![call.bank].share_value = accrued]
  /\ Record(p, call, kind, amount, deposited)

(* What a movement leaves behind. *)
Moved(p, call, kind, amount, deposited) ==
  /\ bank' \in [Banks -> [state: 0 .. 2, oracle_setup: 0 .. 1,
                 oracle: {DefaultPubkey} \cup Oracles, share_value: ShareValues]]
  /\ account' \in [Accounts -> [authority: Users, balances: [Slots -> Balance]]]
  /\ OneBalancePerBank'
  /\ position' = [position EXCEPT ![p].deposited_amount = deposited,
                    ![p].shares = event'.shares, ![p].last_value = event'.value]
  /\ event' = [kind |-> kind, position |-> p, signer |-> call.signer,
               amount |-> amount, shares |-> event'.shares, value |-> event'.value]
  /\ event'.shares \in Unit /\ event'.value \in Unit
  /\ event'.shares = Held(call.account, call.bank)' \div One
  /\ event'.value \in {Product(Held(call.account, call.bank)',
                              bank'[call.bank].share_value) - 1,
                      Product(Held(call.account, call.bank)',
                              bank'[call.bank].share_value)}
  /\ config' = config
  /\ \A a \in Accounts, s \in Slots :
       account'[a].balances[s] # account[a].balances[s] =>
         a = call.account /\ account'[a].balances[s].bank = call.bank

LEMMA MovementEffect ==
  ASSUME IInv, NEW p, NEW call, NEW kind, NEW amount, NEW deposited,
         Movement(p, call, kind, amount, deposited)
  PROVE  Moved(p, call, kind, amount, deposited)
<1> DEFINE a == call.account
           b == call.bank
<1>1. PICK shares \in 0 .. MaxShares, accrued \in ShareValues :
        /\ HasSlot(account[a].balances, b)
        /\ account' = [account EXCEPT ![a].balances = WithShares(@, b, shares)]
        /\ bank' = [bank EXCEPT ![b].share_value = accrued]
  BY DEF Movement
<1>2. /\ p \in DOMAIN position /\ call \in Calls /\ Validated(p, call)
      /\ Record(p, call, kind, amount, deposited)
  BY DEF Movement
<1>3. a \in Accounts /\ b \in Banks
  BY <1>2, ValidatedFacts DEF IInv
<1>4. /\ account \in [Accounts -> [authority: Users, balances: [Slots -> Balance]]]
      /\ bank \in [Banks -> [state: 0 .. 2, oracle_setup: 0 .. 1,
                     oracle: {DefaultPubkey} \cup Oracles, share_value: ShareValues]]
      /\ OneBalancePerBank
  BY DEF IInv, TypeOK
<1>5. account[a].balances \in [Slots -> Balance] /\ OnePerBank(account[a].balances)
  BY <1>3, <1>4 DEF OneBalancePerBank
<1> DEFINE next == WithShares(account[a].balances, b, shares)
<1>6. /\ next \in [Slots -> Balance] /\ OnePerBank(next)
      /\ \A s \in Slots : next[s] # account[a].balances[s] => next[s].bank = b
  BY <1>1, <1>3, <1>5, WithSharesKeeps
<1> HIDE DEF next, a, b
<1>7. account' = [account EXCEPT ![a].balances = next]
  BY <1>1 DEF next
<1>8. account' \in [Accounts -> [authority: Users, balances: [Slots -> Balance]]]
  BY <1>3, <1>4, <1>6, <1>7
<1>9. account'[a].balances = next
      /\ \A x \in Accounts : x # a => account'[x] = account[x]
  <2> DEFINE changed == [account[a] EXCEPT !.balances = next]
  <2>1. account' = [account EXCEPT ![a] = changed] /\ a \in DOMAIN account
        /\ DOMAIN account = Accounts
    BY <1>3, <1>4, <1>7
  <2>2. changed.balances = next
    BY <1>3, <1>4
  <2> HIDE DEF changed
  <2> QED BY <2>1, <2>2
<1>10. OneBalancePerBank'
  BY <1>4, <1>6, <1>9 DEF OneBalancePerBank
<1>11. /\ bank' \in [Banks -> [state: 0 .. 2, oracle_setup: 0 .. 1,
                      oracle: {DefaultPubkey} \cup Oracles, share_value: ShareValues]]
       /\ bank'[b].share_value = accrued
  BY <1>1, <1>3, <1>4
<1>12. /\ Readable(next, b, accrued)
       /\ position' = [position EXCEPT ![p].deposited_amount = deposited,
              ![p].shares = SharesIn(next, b), ![p].last_value = ValueIn(next, b, accrued)]
       /\ event' = [kind |-> kind, position |-> p, signer |-> call.signer, amount |-> amount,
                    shares |-> SharesIn(next, b), value |-> ValueIn(next, b, accrued)]
       /\ config' = config
  BY <1>2, <1>9, <1>11 DEF Record, ShareValueAfterCall, a, b
<1>13. event'.shares = SharesIn(next, b) /\ event'.value = ValueIn(next, b, accrued)
  BY <1>12
<1>14. /\ SharesIn(next, b) = HeldIn(next, b) \div One /\ SharesIn(next, b) \in Unit
       /\ ValueIn(next, b, accrued)
            \in {Product(HeldIn(next, b), accrued) - 1, Product(HeldIn(next, b), accrued)}
       /\ ValueIn(next, b, accrued) \in Unit
  BY <1>3, <1>6, <1>12, ReadingIsRight
<1>15. Held(a, b)' = HeldIn(next, b)
  BY <1>9 DEF Held, HeldIn, ActiveIn
<1>16. \A x \in Accounts, s \in Slots :
         account'[x].balances[s] # account[x].balances[s] =>
           x = a /\ account'[x].balances[s].bank = b
  BY <1>6, <1>9
<1> QED BY <1>8, <1>10, <1>11, <1>12, <1>13, <1>14, <1>15, <1>16 DEF a, b, Moved

LEMMA AmountsConvert ==
  ASSUME NEW amount \in Nat, NEW share_value \in Nat, share_value > 0
  PROVE  Bought(amount, share_value) \in Nat /\ Sold(amount, share_value) \in Nat
<1>1. amount * One * One \in Nat /\ amount * One * One + share_value - 1 \in Nat
  <2>1. amount * One * One \in Nat
    BY FixedPointConstants
  <2> QED BY <2>1
<1> QED BY <1>1, Division DEF Bought, Sold

LEMMA DepositMoves ==
  ASSUME IInv, NEW p \in DOMAIN position, NEW call \in Calls, NEW amount \in Amounts,
         NEW accrued \in ShareValues, deposit(p, call, amount, accrued)
  PROVE  /\ Movement(p, call, "deposit", amount, position[p].deposited_amount + amount)
         /\ amount \in Nat /\ amount > 0
         /\ net' = [net EXCEPT ![p] = @ + amount] /\ low' = low
<1> DEFINE shares == Held(call.account, call.bank) + Bought(amount, accrued)
<1>1. amount \in Nat /\ accrued \in Nat /\ MaxU64 \in Nat
  BY MarginfiConstants, FixedPointConstants
<1>2. Validated(p, call) /\ accrued > 0
  BY DEF deposit, lending_account_deposit
<1>3. call.account \in Accounts /\ call.bank \in Banks
  BY MarginfiConstants
<1>4. Held(call.account, call.bank) \in Nat
  <2>1. /\ account[call.account].balances \in [Slots -> Balance]
        /\ OnePerBank(account[call.account].balances)
    BY <1>3 DEF IInv, TypeOK, OneBalancePerBank
  <2> QED BY <2>1, <1>3, ReadIsHeld DEF Held
<1>5. shares \in 0 .. MaxShares
  <2>1. Bought(amount, accrued) \in Nat
    BY <1>1, <1>2, AmountsConvert
  <2>2. shares <= MaxShares
    BY DEF deposit, lending_account_deposit
  <2> QED BY <2>1, <2>2, <1>4, MarginfiConstants
<1> HIDE DEF shares
<1>6. /\ HasSlot(account[call.account].balances, call.bank)
      /\ account' = [account EXCEPT ![call.account].balances =
                       WithShares(@, call.bank, shares)]
      /\ bank' = [bank EXCEPT ![call.bank].share_value = accrued]
  BY DEF deposit, lending_account_deposit, shares
<1>7. position[p].deposited_amount + amount \in Unit
  <2>1. position[p].deposited_amount \in Unit
    BY DEF IInv, TypeOK, Unit
  <2>2. position[p].deposited_amount + amount <= MaxU64
    BY DEF deposit
  <2> QED BY <2>1, <2>2, <1>1 DEF Unit
<1>8. Record(p, call, "deposit", amount, position[p].deposited_amount + amount)
  BY DEF deposit
<1>9. Movement(p, call, "deposit", amount, position[p].deposited_amount + amount)
  BY <1>2, <1>5, <1>6, <1>7, <1>8 DEF Movement
<1> QED BY <1>1, <1>9 DEF deposit

LEMMA WithdrawMoves ==
  ASSUME IInv, NEW p \in DOMAIN position, NEW call \in Calls, NEW amount \in Amounts,
         NEW accrued \in ShareValues, withdraw(p, call, amount, accrued)
  PROVE  /\ Movement(p, call, "withdraw", amount,
                      Saturated(position[p].deposited_amount, amount))
         /\ amount \in Nat /\ amount > 0
         /\ net' = [net EXCEPT ![p] = @ - amount]
         /\ low' = [low EXCEPT ![p] = IF net'[p] < @ THEN net'[p] ELSE @]
<1> DEFINE shares == Held(call.account, call.bank) - Sold(amount, accrued)
           deposited == Saturated(position[p].deposited_amount, amount)
<1>1. amount \in Nat /\ accrued \in Nat /\ MaxU64 \in Nat
  BY MarginfiConstants, FixedPointConstants
<1>2. Validated(p, call) /\ accrued > 0
  BY DEF withdraw, lending_account_withdraw
<1>3. call.account \in Accounts /\ call.bank \in Banks
  BY MarginfiConstants
<1>4. Held(call.account, call.bank) \in 0 .. MaxShares
  <2>1. /\ account[call.account].balances \in [Slots -> Balance]
        /\ OnePerBank(account[call.account].balances)
    BY <1>3 DEF IInv, TypeOK, OneBalancePerBank
  <2> QED BY <2>1, <1>3, ReadIsHeld DEF Held
<1>5. shares \in 0 .. MaxShares
  <2>1. Sold(amount, accrued) \in Nat
    BY <1>1, <1>2, AmountsConvert
  <2>2. shares >= 0
    BY DEF withdraw, lending_account_withdraw
  <2> QED BY <2>1, <2>2, <1>4, MarginfiConstants
<1> HIDE DEF shares
<1>6. /\ ActiveIn(account[call.account].balances, call.bank) # {}
      /\ account' = [account EXCEPT ![call.account].balances =
                       WithShares(@, call.bank, shares)]
      /\ bank' = [bank EXCEPT ![call.bank].share_value = accrued]
  BY DEF withdraw, lending_account_withdraw, shares
<1>7. deposited \in Unit
  <2>1. position[p].deposited_amount \in Unit
    BY DEF IInv, TypeOK, Unit
  <2> QED BY <2>1, <1>1 DEF Unit, Saturated
<1>8. Record(p, call, "withdraw", amount, deposited)
  BY DEF withdraw
<1> HIDE DEF deposited
<1>9. HasSlot(account[call.account].balances, call.bank)
  BY <1>6 DEF HasSlot
<1>10. Movement(p, call, "withdraw", amount, deposited)
  BY <1>2, <1>5, <1>6, <1>7, <1>8, <1>9 DEF Movement
<1> QED BY <1>1, <1>10 DEF withdraw, deposited

-----------------------------------------------------------------------------
(* The invariant is inductive.                                             *)

LEMMA InitOK == Init => IInv
<1> SUFFICES ASSUME Init PROVE IInv
  OBVIOUS
<1> USE DEF Init
<1>1. DOMAIN config = {} /\ DOMAIN position = {} /\ DOMAIN net = {} /\ DOMAIN low = {}
  OBVIOUS
<1>2. event \in Event
  BY DEF Event
<1>3. EmptyBalance \in Balance
  BY MarginfiConstants DEF EmptyBalance, Balance
<1>4. \A a \in Accounts : /\ account[a] \in [authority: Users, balances: [Slots -> {EmptyBalance}]]
                         /\ account[a].balances \in [Slots -> Balance]
                         /\ \A s \in Slots : account[a].balances[s] = EmptyBalance
  BY <1>3
<1>5. account \in [Accounts -> [authority: Users, balances: [Slots -> Balance]]]
  BY <1>4
<1>6. OneBalancePerBank
  BY <1>4 DEF OneBalancePerBank, OnePerBank, ActiveIn, EmptyBalance
<1>7. bank \in [Banks -> [state: 0 .. 2, oracle_setup: 0 .. 1,
                         oracle: {DefaultPubkey} \cup Oracles, share_value: ShareValues]]
  BY MarginfiConstants
<1>8. TypeOK
  BY <1>1, <1>2, <1>5, <1>7 DEF TypeOK
<1>9. OwnersMatch /\ BookedFromTheLow /\ FundedPositionsAreSound
  BY <1>1 DEF OwnersMatch, BookedFromTheLow, FundedPositionsAreSound
<1>10. ReportsWhatIsHeld
  BY DEF ReportsWhatIsHeld, NoEvent
<1> QED BY <1>6, <1>8, <1>9, <1>10 DEF IInv

(* What MarginFi does by itself: it is silent and leaves well-formed       *)
(* balances behind.                                                        *)
LEMMA SilentKeeps ==
  ASSUME IInv, event' = NoEvent, UNCHANGED <<config, position, net, low>>,
         account' \in [Accounts -> [authority: Users, balances: [Slots -> Balance]]],
         bank' \in [Banks -> [state: 0 .. 2, oracle_setup: 0 .. 1,
                     oracle: {DefaultPubkey} \cup Oracles, share_value: ShareValues]],
         OneBalancePerBank'
  PROVE  IInv'
<1>1. TypeOK'
  <2>1. event' \in Event'
    BY DEF Event
  <2> QED BY <2>1 DEF IInv, TypeOK
<1>2. OwnersMatch' /\ BookedFromTheLow' /\ FundedPositionsAreSound'
  BY DEF IInv, OwnersMatch, BookedFromTheLow, FundedPositionsAreSound
<1>3. ReportsWhatIsHeld'
  BY DEF ReportsWhatIsHeld, NoEvent
<1> QED BY <1>1, <1>2, <1>3 DEF IInv

LEMMA UseMarginfiKeeps ==
  ASSUME IInv, NEW a \in Accounts, NEW b \in Banks, NEW shares \in DirectShares,
         UseMarginfi(a, b, shares)
  PROVE  IInv'
<1> DEFINE next == WithShares(account[a].balances, b, shares)
<1>1. account \in [Accounts -> [authority: Users, balances: [Slots -> Balance]]]
      /\ OneBalancePerBank
  BY DEF IInv, TypeOK
<1>2. account[a].balances \in [Slots -> Balance] /\ OnePerBank(account[a].balances)
  BY <1>1 DEF OneBalancePerBank
<1>3. shares \in 0 .. MaxShares /\ HasSlot(account[a].balances, b)
  BY MarginfiConstants DEF UseMarginfi
<1>4. next \in [Slots -> Balance] /\ OnePerBank(next)
  BY <1>2, <1>3, WithSharesKeeps
<1> HIDE DEF next
<1>5. account' = [account EXCEPT ![a].balances = next]
  BY DEF UseMarginfi, next
<1>6. account' \in [Accounts -> [authority: Users, balances: [Slots -> Balance]]]
  BY <1>1, <1>4, <1>5
<1>7. account'[a].balances = next
      /\ \A x \in Accounts : x # a => account'[x] = account[x]
  BY <1>1, <1>5
<1>8. OneBalancePerBank'
  BY <1>1, <1>4, <1>7 DEF OneBalancePerBank
<1>9. /\ event' = NoEvent /\ UNCHANGED <<config, position, net, low>>
      /\ UNCHANGED bank
  BY DEF UseMarginfi, Silent, adapterVars, history
<1> QED BY <1>6, <1>8, <1>9, SilentKeeps DEF IInv, TypeOK

LEMMA TransferAuthorityKeeps ==
  ASSUME IInv, NEW a \in Accounts, NEW user \in Users, TransferAuthority(a, user)
  PROVE  IInv'
<1>1. /\ account \in [Accounts -> [authority: Users, balances: [Slots -> Balance]]]
      /\ account' = [account EXCEPT ![a].authority = user]
  BY DEF IInv, TypeOK, TransferAuthority
<1>2. /\ account' \in [Accounts -> [authority: Users, balances: [Slots -> Balance]]]
      /\ \A x \in Accounts : account'[x].balances = account[x].balances
  BY <1>1
<1>3. OneBalancePerBank'
  BY <1>2 DEF IInv, OneBalancePerBank
<1>4. /\ event' = NoEvent /\ UNCHANGED <<config, position, net, low>>
      /\ UNCHANGED bank
  BY DEF TransferAuthority, Silent, adapterVars, history
<1> QED BY <1>2, <1>3, <1>4, SilentKeeps DEF IInv, TypeOK

Configured(record, setting) ==
  [record EXCEPT !.state = setting.state, !.oracle_setup = setting.oracle_setup,
                 !.oracle = setting.oracle]

LEMMA SettingsChange ==
  ASSUME NEW b \in Banks, NEW setting \in BankSettings, Reconfigure(b, setting)
  PROVE  bank' = [bank EXCEPT ![b] = Configured(bank[b], setting)]
<1>1. bank' = [bank EXCEPT ![b].state = setting.state,
                           ![b].oracle_setup = setting.oracle_setup,
                           ![b].oracle = setting.oracle]
  BY DEF Reconfigure
<1> QED BY <1>1 DEF Configured

LEMMA BankChangesKeep ==
  ASSUME IInv, NEW b \in Banks,
         \/ \E share_value \in ShareValues : Revalue(b, share_value)
         \/ \E setting \in BankSettings : Reconfigure(b, setting)
  PROVE  IInv'
<1> DEFINE BankType == [state: 0 .. 2, oracle_setup: 0 .. 1,
                        oracle: {DefaultPubkey} \cup Oracles, share_value: ShareValues]
<1>1. bank \in [Banks -> BankType]
  BY DEF IInv, TypeOK
<1>2. bank' \in [Banks -> BankType]
  <2>1. CASE \E share_value \in ShareValues : Revalue(b, share_value)
    BY <1>1, <2>1 DEF Revalue
  <2>2. ASSUME NEW setting \in BankSettings, Reconfigure(b, setting)
        PROVE  bank' \in [Banks -> BankType]
    <3>1. /\ setting.state \in 0 .. 2 /\ setting.oracle_setup \in 0 .. 1
          /\ setting.oracle \in {DefaultPubkey} \cup Oracles
      BY MarginfiConstants
    <3> DEFINE next == Configured(bank[b], setting)
    <3>2. next \in BankType
      <4>1. bank[b] \in BankType
        BY <1>1
      <4> QED BY <3>1, <4>1 DEF Configured
    <3>3. bank' = [bank EXCEPT ![b] = next]
      BY <2>2, SettingsChange
    <3> HIDE DEF next, BankType
    <3> QED BY <1>1, <3>2, <3>3
  <2> QED BY <2>1, <2>2
<1>3. /\ event' = NoEvent /\ UNCHANGED <<config, position, net, low>>
      /\ UNCHANGED account
  BY DEF Revalue, Reconfigure, Silent, adapterVars, history
<1>4. OneBalancePerBank'
  BY <1>3 DEF IInv, OneBalancePerBank
<1> QED BY <1>2, <1>3, <1>4, SilentKeeps DEF IInv, TypeOK

LEMMA ConfigKeeps ==
  ASSUME IInv, NEW mint \in Mints, NEW program \in Programs, NEW version \in Versions,
         initialize_config(mint, program, version)
  PROVE  IInv'
<1> DEFINE address == ConfigAddress(mint, version)
           entry == [supported_mint |-> mint, version |-> version,
                     protocol_program_id |-> program]
<1>1. /\ config' = [a \in DOMAIN config \cup {address} |->
                      IF a = address THEN entry ELSE config[a]]
      /\ address \notin DOMAIN config
      /\ event' = NoEvent
      /\ UNCHANGED <<position, bank, account, net, low>>
  BY DEF initialize_config, Silent, marginfiVars, history
<1>2. entry \in [supported_mint: Mints, version: Versions, protocol_program_id: Programs]
  OBVIOUS
<1> HIDE DEF address, entry
<1>3. \A a \in DOMAIN config : a \in DOMAIN config' /\ config'[a] = config[a]
  BY <1>1
<1>4. TypeOK'
  <2>1. config' \in [DOMAIN config' ->
          [supported_mint: Mints, version: Versions, protocol_program_id: Programs]]
    BY <1>1, <1>2 DEF IInv, TypeOK
  <2>2. event' \in Event'
    BY <1>1 DEF Event
  <2>3. DOMAIN position' \subseteq [config: DOMAIN config', owner: Users]
    BY <1>1, <1>3 DEF IInv, TypeOK
  <2>4. DOMAIN config' \subseteq ConfigAddresses
    <3>1. address \in ConfigAddresses
      BY DEF address, ConfigAddress, ConfigAddresses
    <3> QED BY <1>1, <3>1 DEF IInv, TypeOK
  <2> QED BY <1>1, <2>1, <2>2, <2>3, <2>4 DEF IInv, TypeOK
<1>5. OwnersMatch' /\ BookedFromTheLow' /\ OneBalancePerBank'
  BY <1>1 DEF IInv, OwnersMatch, BookedFromTheLow, OneBalancePerBank
<1>6. FundedPositionsAreSound'
  <2>1. \A a \in DOMAIN position : a.config \in DOMAIN config
    BY DEF IInv, TypeOK
  <2> QED BY <1>1, <1>3, <2>1 DEF IInv, FundedPositionsAreSound
<1>7. ReportsWhatIsHeld'
  BY <1>1 DEF ReportsWhatIsHeld, NoEvent
<1> QED BY <1>4, <1>5, <1>6, <1>7 DEF IInv

LEMMA OpenKeeps ==
  ASSUME IInv, NEW owner \in Users, NEW configuration \in DOMAIN config,
         NEW a \in Accounts, NEW b \in Banks,
         initialize_position(owner, configuration, a, b)
  PROVE  IInv'
<1> DEFINE address == PositionAddress(configuration, owner)
           entry == [owner |-> owner, marginfi_account |-> a, marginfi_bank |-> b,
                     deposited_amount |-> 0, shares |-> 0, last_value |-> 0]
<1>1. /\ position' = [p \in DOMAIN position \cup {address} |->
                        IF p = address THEN entry ELSE position[p]]
      /\ net' = [p \in DOMAIN position' |-> IF p = address THEN 0 ELSE net[p]]
      /\ low' = [p \in DOMAIN position' |-> IF p = address THEN 0 ELSE low[p]]
      /\ event' = NoEvent
      /\ UNCHANGED <<config, bank, account>>
  BY DEF initialize_position, Silent, marginfiVars
<1>2. address.owner = owner /\ address \in [config: DOMAIN config, owner: Users]
  BY DEF PositionAddress
<1>3. 0 \in 0 .. MaxU64
  BY FixedPointConstants
<1>4. entry \in [owner: Users, marginfi_account: Accounts, marginfi_bank: Banks,
                deposited_amount: 0 .. MaxU64, shares: 0 .. MaxU64, last_value: 0 .. MaxU64]
  BY <1>3
<1>5. entry.owner = owner /\ entry.deposited_amount = 0 /\ entry.shares = 0
      /\ entry.last_value = 0
  OBVIOUS
<1> HIDE DEF address, entry
<1>6. /\ DOMAIN position' = DOMAIN position \cup {address}
      /\ position'[address] = entry
      /\ net'[address] = 0 /\ low'[address] = 0
      /\ \A p \in DOMAIN position' : p # address =>
           /\ p \in DOMAIN position /\ position'[p] = position[p]
           /\ net'[p] = net[p] /\ low'[p] = low[p]
  BY <1>1
<1>7. TypeOK'
  <2>1. position' \in [DOMAIN position' ->
          [owner: Users, marginfi_account: Accounts, marginfi_bank: Banks,
           deposited_amount: 0 .. MaxU64, shares: 0 .. MaxU64, last_value: 0 .. MaxU64]]
    BY <1>1, <1>4, <1>6 DEF IInv, TypeOK
  <2>2. net' \in [DOMAIN position' -> Int] /\ low' \in [DOMAIN position' -> Int]
    BY <1>1, <1>6 DEF IInv, TypeOK
  <2>3. event' \in Event'
    BY <1>1 DEF Event
  <2>4. DOMAIN position' \subseteq [config: DOMAIN config, owner: Users]
    BY <1>2, <1>6 DEF IInv, TypeOK
  <2> QED BY <1>1, <2>1, <2>2, <2>3, <2>4 DEF IInv, TypeOK
<1>8. OwnersMatch'
  BY <1>2, <1>5, <1>6 DEF IInv, OwnersMatch
<1>9. BookedFromTheLow'
  BY <1>5, <1>6 DEF IInv, BookedFromTheLow
<1>10. OneBalancePerBank'
  BY <1>1 DEF IInv, OneBalancePerBank
<1>11. FundedPositionsAreSound'
  BY <1>1, <1>5, <1>6 DEF IInv, FundedPositionsAreSound
<1>12. ReportsWhatIsHeld'
  BY <1>1 DEF ReportsWhatIsHeld, NoEvent
<1> QED BY <1>7, <1>8, <1>9, <1>10, <1>11, <1>12 DEF IInv

(* A movement keeps the invariant whenever what it books agrees with the   *)
(* history of the position.                                                *)
LEMMA MovementKeeps ==
  ASSUME IInv, NEW p, NEW call, NEW kind, NEW amount, NEW deposited,
         Movement(p, call, kind, amount, deposited),
         net' \in [DOMAIN position -> Int], low' \in [DOMAIN position -> Int],
         \A q \in DOMAIN position : q # p => net'[q] = net[q] /\ low'[q] = low[q],
         deposited = net'[p] - low'[p], low'[p] <= 0
  PROVE  IInv'
<1> DEFINE after == [position[p] EXCEPT !.deposited_amount = deposited,
                       !.shares = event'.shares, !.last_value = event'.value]
<1>0. Moved(p, call, kind, amount, deposited)
  BY MovementEffect
<1>1. /\ p \in DOMAIN position /\ call \in Calls /\ Validated(p, call)
      /\ kind \in {"deposit", "withdraw"} /\ amount \in Nat /\ deposited \in Unit
  BY MarginfiConstants DEF Movement
<1>2. position \in [DOMAIN position ->
        [owner: Users, marginfi_account: Accounts, marginfi_bank: Banks,
         deposited_amount: 0 .. MaxU64, shares: 0 .. MaxU64, last_value: 0 .. MaxU64]]
  BY DEF IInv, TypeOK
<1>3. position' = [position EXCEPT ![p] = after]
      /\ event'.shares \in Unit /\ event'.value \in Unit /\ config' = config
  <2>1. position' = [position EXCEPT ![p].deposited_amount = deposited,
                           ![p].shares = event'.shares, ![p].last_value = event'.value]
        /\ event'.shares \in Unit /\ event'.value \in Unit /\ config' = config
    BY <1>0 DEF Moved
  <2> QED BY <1>1, <1>2, <2>1
<1>4. after \in [owner: Users, marginfi_account: Accounts, marginfi_bank: Banks,
         deposited_amount: 0 .. MaxU64, shares: 0 .. MaxU64, last_value: 0 .. MaxU64]
  <2>1. /\ deposited \in 0 .. MaxU64 /\ event'.shares \in 0 .. MaxU64
        /\ event'.value \in 0 .. MaxU64
    BY <1>1, <1>3 DEF Unit
  <2>2. position[p] \in
          [owner: Users, marginfi_account: Accounts, marginfi_bank: Banks,
           deposited_amount: 0 .. MaxU64, shares: 0 .. MaxU64, last_value: 0 .. MaxU64]
    BY <1>1, <1>2
  <2> QED BY <2>1, <2>2
<1>5. /\ after.deposited_amount = deposited /\ after.owner = position[p].owner
      /\ after.shares = event'.shares /\ after.last_value = event'.value
      /\ after.marginfi_account = position[p].marginfi_account
      /\ after.marginfi_bank = position[p].marginfi_bank
  BY <1>1, <1>2
<1> HIDE DEF after
<1>6. /\ DOMAIN position' = DOMAIN position /\ position'[p] = after
      /\ \A q \in DOMAIN position : q # p => position'[q] = position[q]
  BY <1>1, <1>2, <1>3
<1>7. /\ call.account \in Accounts /\ call.bank \in Banks /\ call.signer \in Users
      /\ position[p].marginfi_account = call.account
      /\ position[p].marginfi_bank = call.bank
      /\ AccountFacts[call.account].program = config[p.config].protocol_program_id
      /\ BankFacts[call.bank].program = config[p.config].protocol_program_id
      /\ BankFacts[call.bank].mint = config[p.config].supported_mint
      /\ BankFacts[call.bank].decimals = 6
      /\ AccountFacts[call.account].group = BankFacts[call.bank].group
  BY <1>1, ValidatedFacts DEF IInv
<1>8. TypeOK'
  <2>1. position' \in [DOMAIN position' ->
        [owner: Users, marginfi_account: Accounts, marginfi_bank: Banks,
         deposited_amount: 0 .. MaxU64, shares: 0 .. MaxU64, last_value: 0 .. MaxU64]]
    BY <1>1, <1>2, <1>3, <1>4
  <2>2. event' \in Event'
    <3>1. event' = [kind |-> kind, position |-> p, signer |-> call.signer,
                   amount |-> amount, shares |-> event'.shares, value |-> event'.value]
      BY <1>0 DEF Moved
    <3> QED BY <3>1, <1>1, <1>3, <1>6, <1>7 DEF Event, Unit
  <2>3. /\ bank' \in [Banks -> [state: 0 .. 2, oracle_setup: 0 .. 1,
                        oracle: {DefaultPubkey} \cup Oracles, share_value: ShareValues]]
        /\ account' \in [Accounts -> [authority: Users, balances: [Slots -> Balance]]]
    BY <1>0 DEF Moved
  <2>4. /\ config' \in [DOMAIN config' ->
             [supported_mint: Mints, version: Versions, protocol_program_id: Programs]]
        /\ DOMAIN position' \subseteq [config: DOMAIN config', owner: Users]
        /\ DOMAIN config' \subseteq ConfigAddresses
    BY <1>3, <1>6 DEF IInv, TypeOK
  <2>5. net' \in [DOMAIN position' -> Int] /\ low' \in [DOMAIN position' -> Int]
    BY <1>6
  <2> QED BY <2>1, <2>2, <2>3, <2>4, <2>5 DEF TypeOK
<1>9. OneBalancePerBank'
  BY <1>0 DEF Moved
<1>10. OwnersMatch'
  BY <1>5, <1>6 DEF IInv, OwnersMatch
<1>11. BookedFromTheLow'
  BY <1>5, <1>6 DEF IInv, BookedFromTheLow
<1>12. FundedPositionsAreSound'
  BY <1>3, <1>5, <1>6, <1>7 DEF IInv, FundedPositionsAreSound
<1>13. ReportsWhatIsHeld'
  <2>1. /\ event'.position = p
        /\ event'.shares = Held(call.account, call.bank)' \div One
        /\ event'.value \in {Product(Held(call.account, call.bank)',
                                     bank'[call.bank].share_value) - 1,
                             Product(Held(call.account, call.bank)',
                                     bank'[call.bank].share_value)}
    <3>1. event' = [kind |-> kind, position |-> p, signer |-> call.signer,
                   amount |-> amount, shares |-> event'.shares, value |-> event'.value]
      BY <1>0 DEF Moved
    <3>2. event'.position = p
      BY <3>1
    <3> QED BY <3>2, <1>0 DEF Moved
  <2> QED BY <2>1, <1>5, <1>6, <1>7 DEF ReportsWhatIsHeld
<1> QED BY <1>8, <1>9, <1>10, <1>11, <1>12, <1>13 DEF IInv

LEMMA DepositKeeps ==
  ASSUME IInv, NEW p \in DOMAIN position, NEW call \in Calls, NEW amount \in Amounts,
         NEW accrued \in ShareValues, deposit(p, call, amount, accrued)
  PROVE  IInv'
<1>1. /\ net \in [DOMAIN position -> Int] /\ low \in [DOMAIN position -> Int]
      /\ position[p].deposited_amount = net[p] - low[p] /\ low[p] <= 0
  BY DEF IInv, TypeOK, BookedFromTheLow
<1>2. /\ Movement(p, call, "deposit", amount, position[p].deposited_amount + amount)
      /\ amount \in Nat /\ net' = [net EXCEPT ![p] = @ + amount] /\ low' = low
  BY DepositMoves
<1>3. net' \in [DOMAIN position -> Int] /\ net'[p] = net[p] + amount
  BY <1>1, <1>2
<1>4. position[p].deposited_amount + amount = net'[p] - low'[p]
  BY <1>1, <1>2, <1>3
<1> QED BY <1>1, <1>2, <1>3, <1>4, MovementKeeps

LEMMA WithdrawKeeps ==
  ASSUME IInv, NEW p \in DOMAIN position, NEW call \in Calls, NEW amount \in Amounts,
         NEW accrued \in ShareValues, withdraw(p, call, amount, accrued)
  PROVE  IInv'
<1> DEFINE deposited == Saturated(position[p].deposited_amount, amount)
<1>1. /\ net \in [DOMAIN position -> Int] /\ low \in [DOMAIN position -> Int]
      /\ position[p].deposited_amount = net[p] - low[p] /\ low[p] <= 0
  BY DEF IInv, TypeOK, BookedFromTheLow
<1>2. /\ Movement(p, call, "withdraw", amount, deposited)
      /\ amount \in Nat /\ amount > 0 /\ net' = [net EXCEPT ![p] = @ - amount]
      /\ low' = [low EXCEPT ![p] = IF net'[p] < @ THEN net'[p] ELSE @]
  BY WithdrawMoves
<1>3. net' \in [DOMAIN position -> Int] /\ net'[p] = net[p] - amount
  BY <1>1, <1>2
<1>4. /\ low' \in [DOMAIN position -> Int]
      /\ low'[p] = IF net'[p] < low[p] THEN net'[p] ELSE low[p]
      /\ \A q \in DOMAIN position : q # p => net'[q] = net[q] /\ low'[q] = low[q]
  BY <1>1, <1>2, <1>3
<1>5. deposited = net'[p] - low'[p] /\ low'[p] <= 0
  BY <1>1, <1>2, <1>3, <1>4 DEF Saturated
<1> QED BY <1>2, <1>3, <1>4, <1>5, MovementKeeps

LEMMA QueryKeeps ==
  ASSUME IInv, NEW p \in DOMAIN position, NEW call \in Calls, current_value(p, call)
  PROVE  IInv'
<1> DEFINE balances == account[call.account].balances
           share_value == bank[call.bank].share_value
<1>1. /\ Validated(p, call) /\ Readable(balances, call.bank, share_value)
      /\ event' = [kind |-> "value", position |-> p, signer |-> call.signer, amount |-> 0,
                   shares |-> SharesIn(balances, call.bank),
                   value |-> ValueIn(balances, call.bank, share_value)]
      /\ UNCHANGED <<config, position, bank, account, net, low>>
  BY DEF current_value, adapterVars, marginfiVars, history
<1>2. /\ call.account \in Accounts /\ call.bank \in Banks /\ call.signer \in Users
      /\ position[p].marginfi_account = call.account
      /\ position[p].marginfi_bank = call.bank
  BY <1>1, ValidatedFacts DEF IInv
<1>3. /\ balances \in [Slots -> Balance] /\ OnePerBank(balances)
      /\ share_value \in ShareValues
  BY <1>2 DEF IInv, TypeOK, OneBalancePerBank
<1>4. /\ SharesIn(balances, call.bank) = HeldIn(balances, call.bank) \div One
      /\ SharesIn(balances, call.bank) \in Unit
      /\ ValueIn(balances, call.bank, share_value)
           \in {Product(HeldIn(balances, call.bank), share_value) - 1,
               Product(HeldIn(balances, call.bank), share_value)}
      /\ ValueIn(balances, call.bank, share_value) \in Unit
  BY <1>1, <1>2, <1>3, ReadingIsRight
<1>5. TypeOK'
  <2>1. event' \in Event'
    BY <1>1, <1>2, <1>4 DEF Event, Unit
  <2> QED BY <1>1, <2>1 DEF IInv, TypeOK
<1>6. OneBalancePerBank' /\ OwnersMatch' /\ BookedFromTheLow' /\ FundedPositionsAreSound'
  BY <1>1 DEF IInv, OneBalancePerBank, OwnersMatch, BookedFromTheLow, FundedPositionsAreSound
<1>7. ReportsWhatIsHeld'
  <2>1. /\ event'.kind = "value" /\ event'.position = p
        /\ event'.shares = SharesIn(balances, call.bank)
        /\ event'.value = ValueIn(balances, call.bank, share_value)
    BY <1>1
  <2>2. Held(call.account, call.bank)' = HeldIn(balances, call.bank)
    BY <1>1 DEF Held, HeldIn, ActiveIn
  <2> QED BY <1>1, <1>2, <1>4, <2>1, <2>2 DEF ReportsWhatIsHeld
<1> QED BY <1>5, <1>6, <1>7 DEF IInv

LEMMA NextKeeps == IInv /\ [Next]_vars => IInv'
<1> SUFFICES ASSUME IInv, [Next]_vars PROVE IInv'
  OBVIOUS
<1>1. CASE Marginfi
  BY <1>1, UseMarginfiKeeps, TransferAuthorityKeeps, BankChangesKeep DEF Marginfi
<1>2. CASE Adapter
  BY <1>2, ConfigKeeps, OpenKeeps, DepositKeeps, WithdrawKeeps, QueryKeeps DEF Adapter
<1>3. CASE UNCHANGED vars
  <2>1. UNCHANGED <<config, position, bank, account, event, net, low>>
    BY <1>3 DEF vars
  <2> QED
    BY <2>1 DEF IInv, TypeOK, Event, OneBalancePerBank, OwnersMatch, BookedFromTheLow,
                FundedPositionsAreSound, ReportsWhatIsHeld, Held
<1> QED BY <1>1, <1>2, <1>3 DEF Next

LEMMA Inductive == Spec => []IInv
BY InitOK, NextKeeps, PTL DEF Spec

-----------------------------------------------------------------------------
(* The theorems.                                                           *)

(* Every account and every event keeps its type: in particular no amount,  *)
(* no share count and no value that is stored or reported exceeds a u64.   *)
THEOREM TypeCorrect == Spec => []TypeOK
BY Inductive, PTL DEF IInv

(* What the adapter reports is what MarginFi holds, to one unit and never  *)
(* more, for any layout of balances, share values and unit of fixed point. *)
THEOREM ReportsCorrect == Spec => []ReportsWhatIsHeld
BY Inductive, PTL DEF IInv

(* Only positions of the configured protocol, group and mint are ever      *)
(* funded.                                                                 *)
THEOREM FundedCorrect == Spec => []FundedPositionsAreSound
BY Inductive, PTL DEF IInv

(* The booked amount is the net amount above the lowest it has been.       *)
THEOREM BookingCorrect == Spec => []BookedFromTheLow
BY Inductive, PTL DEF IInv

-----------------------------------------------------------------------------
(* Steps: whose balance moves, and how they map to the abstract adapter.   *)

(* Every step that is not a call of the adapter is silent. *)
LEMMA OthersAreSilent ==
  ASSUME \/ Marginfi
         \/ \E mint \in Mints, program \in Programs, version \in Versions :
              initialize_config(mint, program, version)
  PROVE  event' = NoEvent /\ position' = position
BY DEF Marginfi, UseMarginfi, TransferAuthority, Revalue, Reconfigure, initialize_config,
       Silent, adapterVars

(* Both movements, as one. *)
Moves(p, call, kind, amount, deposited) ==
  /\ p \in DOMAIN position /\ amount \in Nat /\ amount > 0
  /\ Validated(p, call) /\ call \in Calls
  /\ Moved(p, call, kind, amount, deposited)

LEMMA DepositIsMoved ==
  ASSUME IInv, NEW p \in DOMAIN position, NEW call \in Calls, NEW amount \in Amounts,
         NEW accrued \in ShareValues, deposit(p, call, amount, accrued)
  PROVE  /\ Moves(p, call, "deposit", amount, position[p].deposited_amount + amount)
         /\ position[p].deposited_amount + amount <= MaxU64
<1>1. /\ Movement(p, call, "deposit", amount, position[p].deposited_amount + amount)
      /\ amount \in Nat /\ amount > 0
  BY DepositMoves
<1> QED BY <1>1, MovementEffect DEF Moves, deposit

LEMMA WithdrawIsMoved ==
  ASSUME IInv, NEW p \in DOMAIN position, NEW call \in Calls, NEW amount \in Amounts,
         NEW accrued \in ShareValues, withdraw(p, call, amount, accrued)
  PROVE  Moves(p, call, "withdraw", amount,
               Saturated(position[p].deposited_amount, amount))
<1>1. /\ Movement(p, call, "withdraw", amount,
                  Saturated(position[p].deposited_amount, amount))
      /\ amount \in Nat /\ amount > 0
  BY WithdrawMoves
<1> QED BY <1>1, MovementEffect DEF Moves, withdraw

(* What a movement's event and position say. *)
LEMMA MovesFacts ==
  ASSUME IInv, NEW p, NEW call, NEW kind, NEW amount, NEW deposited,
         Moves(p, call, kind, amount, deposited)
  PROVE  /\ event'.kind = kind /\ event'.position = p /\ event'.signer = p.owner
         /\ event'.amount = amount
         /\ Booked' = [Booked EXCEPT ![p] = deposited]
         /\ position'[p].marginfi_account = call.account
         /\ position'[p].marginfi_bank = call.bank
         /\ position'[p].owner = p.owner
         /\ account[call.account].authority = p.owner
<1>1. /\ p \in DOMAIN position /\ Validated(p, call) /\ call \in Calls
      /\ Moved(p, call, kind, amount, deposited)
  BY DEF Moves
<1>2. /\ position[p].marginfi_account = call.account
      /\ position[p].marginfi_bank = call.bank
      /\ call.signer = p.owner /\ position[p].owner = p.owner
      /\ account[call.account].authority = p.owner
  BY <1>1, ValidatedFacts DEF IInv
<1>3. event' = [kind |-> kind, position |-> p, signer |-> call.signer,
               amount |-> amount, shares |-> event'.shares, value |-> event'.value]
  BY <1>1 DEF Moved
<1>4. event'.kind = kind /\ event'.position = p /\ event'.signer = call.signer
      /\ event'.amount = amount
  BY <1>3
<1>5. position \in [DOMAIN position ->
        [owner: Users, marginfi_account: Accounts, marginfi_bank: Banks,
         deposited_amount: 0 .. MaxU64, shares: 0 .. MaxU64, last_value: 0 .. MaxU64]]
  BY DEF IInv, TypeOK
<1>6. position' = [position EXCEPT ![p].deposited_amount = deposited,
                     ![p].shares = event'.shares, ![p].last_value = event'.value]
  BY <1>1 DEF Moved
<1>7. /\ DOMAIN position' = DOMAIN position
      /\ \A q \in DOMAIN position : q # p => position'[q] = position[q]
      /\ position'[p].deposited_amount = deposited
      /\ position'[p].owner = position[p].owner
      /\ position'[p].marginfi_account = position[p].marginfi_account
      /\ position'[p].marginfi_bank = position[p].marginfi_bank
  BY <1>1, <1>5, <1>6
<1>8. Booked' = [Booked EXCEPT ![p] = deposited]
  BY <1>1, <1>7 DEF Booked
<1> QED BY <1>2, <1>4, <1>7, <1>8

LEMMA MovesMoveOnlyTheOwners ==
  ASSUME IInv, NEW p, NEW call, NEW kind, NEW amount, NEW deposited,
         Moves(p, call, kind, amount, deposited),
         NEW a \in Accounts, NEW b \in Banks, NEW s \in Slots,
         account'[a].balances[s] # account[a].balances[s],
         account'[a].balances[s].bank = b
  PROVE  LET q == position'[event'.position] IN
         /\ a = q.marginfi_account /\ b = q.marginfi_bank
         /\ account[a].authority = q.owner /\ event'.signer = q.owner
<1>1. a = call.account /\ b = call.bank
  BY DEF Moves, Moved
<1> QED BY <1>1, MovesFacts

LEMMA StepsMoveOnlyTheOwners ==
  ASSUME IInv, Next, event'.kind # "none",
         NEW a \in Accounts, NEW b \in Banks, NEW s \in Slots,
         account'[a].balances[s] # account[a].balances[s],
         account'[a].balances[s].bank = b
  PROVE  LET q == position'[event'.position] IN
         /\ a = q.marginfi_account /\ b = q.marginfi_bank
         /\ account[a].authority = q.owner /\ event'.signer = q.owner
<1> DEFINE Goal == LET q == position'[event'.position] IN
                   /\ a = q.marginfi_account /\ b = q.marginfi_bank
                   /\ account[a].authority = q.owner /\ event'.signer = q.owner
<1> HIDE DEF Goal
<1>1. ~ Marginfi
  BY OthersAreSilent DEF NoEvent
<1>2. ASSUME NEW mint \in Mints, NEW program \in Programs, NEW version \in Versions,
             initialize_config(mint, program, version)
      PROVE  FALSE
  BY <1>2, OthersAreSilent DEF NoEvent
<1>3. ASSUME NEW owner \in Users, NEW configuration \in DOMAIN config,
             NEW x \in Accounts, NEW y \in Banks,
             initialize_position(owner, configuration, x, y)
      PROVE  FALSE
  BY <1>3 DEF initialize_position, Silent, NoEvent
<1>4. ASSUME NEW p \in DOMAIN position, NEW call \in Calls, current_value(p, call)
      PROVE  FALSE
  BY <1>4 DEF current_value, marginfiVars
<1>5. ASSUME NEW p \in DOMAIN position, NEW call \in Calls, NEW amount \in Amounts,
             NEW accrued \in ShareValues, deposit(p, call, amount, accrued)
      PROVE  Goal
  <2>1. Moves(p, call, "deposit", amount, position[p].deposited_amount + amount)
    BY <1>5, DepositIsMoved
  <2> QED BY <2>1, MovesMoveOnlyTheOwners DEF Goal
<1>6. ASSUME NEW p \in DOMAIN position, NEW call \in Calls, NEW amount \in Amounts,
             NEW accrued \in ShareValues, withdraw(p, call, amount, accrued)
      PROVE  Goal
  <2>1. Moves(p, call, "withdraw", amount, Saturated(position[p].deposited_amount, amount))
    BY <1>6, WithdrawIsMoved
  <2> QED BY <2>1, MovesMoveOnlyTheOwners DEF Goal
<1>7. Goal
  BY <1>1, <1>2, <1>3, <1>4, <1>5, <1>6 DEF Next, Adapter
<1> QED BY <1>7 DEF Goal

(* An instruction of the adapter moves one balance only, the owner's.      *)
THEOREM OnlyTheOwnersBalance == Spec => MovesOnlyTheOwnersBalance
<1> DEFINE Step ==
      event'.kind # "none" =>
        LET p == position'[event'.position] IN
        \A a \in Accounts, b \in Banks :
          (\E s \in Slots : /\ account'[a].balances[s] # account[a].balances[s]
                            /\ account'[a].balances[s].bank = b)
          => /\ a = p.marginfi_account /\ b = p.marginfi_bank
             /\ account[a].authority = p.owner /\ event'.signer = p.owner
<1>1. IInv /\ Next => Step
  BY StepsMoveOnlyTheOwners
<1>2. IInv /\ [Next]_vars => [Step]_vars
  BY <1>1
<1>3. Spec => [][Step]_vars
  BY <1>2, Inductive, PTL DEF Spec
<1> QED BY <1>3 DEF MovesOnlyTheOwnersBalance

-----------------------------------------------------------------------------
(* The refinement.                                                         *)

LEMMA PositionsKnown == IInv => DOMAIN position \subseteq Positions /\ DOMAIN Booked = DOMAIN position
  BY DEF IInv, TypeOK, Positions, Booked

LEMMA InitMaps == Init => Abstract!Init
<1> SUFFICES ASSUME Init PROVE Abstract!Init
  OBVIOUS
<1>1. DOMAIN position = {} /\ event.kind = "none"
  BY DEF Init, NoEvent
<1>2. Booked = [p \in {} |-> 0]
  BY <1>1 DEF Booked
<1> QED BY <1>1, <1>2 DEF Abstract!Init

LEMMA DepositMaps ==
  ASSUME IInv, NEW p \in DOMAIN position, NEW call \in Calls, NEW amount \in Amounts,
         NEW accrued \in ShareValues, deposit(p, call, amount, accrued)
  PROVE  Abstract!Deposit(p)
<1>1. /\ Moves(p, call, "deposit", amount, position[p].deposited_amount + amount)
      /\ position[p].deposited_amount + amount <= MaxU64
  BY DepositIsMoved
<1>2. /\ event'.kind = "deposit" /\ event'.position = p /\ event'.signer = p.owner
      /\ event'.amount = amount
      /\ Booked' = [Booked EXCEPT ![p] = position[p].deposited_amount + amount]
  BY <1>1, MovesFacts
<1>3. amount > 0
  BY <1>1 DEF Moves
<1>4. DOMAIN Booked = DOMAIN position /\ Booked[p] = position[p].deposited_amount
  BY DEF Booked
<1> QED BY <1>1, <1>2, <1>3, <1>4 DEF Abstract!Deposit, Abstract!ByOwner

LEMMA WithdrawMaps ==
  ASSUME IInv, NEW p \in DOMAIN position, NEW call \in Calls, NEW amount \in Amounts,
         NEW accrued \in ShareValues, withdraw(p, call, amount, accrued)
  PROVE  Abstract!Withdraw(p)
<1>1. Moves(p, call, "withdraw", amount, Saturated(position[p].deposited_amount, amount))
  BY WithdrawIsMoved
<1>2. /\ event'.kind = "withdraw" /\ event'.position = p /\ event'.signer = p.owner
      /\ event'.amount = amount
      /\ Booked' = [Booked EXCEPT ![p] = Saturated(position[p].deposited_amount, amount)]
  BY <1>1, MovesFacts
<1>3. amount > 0
  BY <1>1 DEF Moves
<1>4. DOMAIN Booked = DOMAIN position /\ Booked[p] = position[p].deposited_amount
  BY DEF Booked
<1> QED
  BY <1>2, <1>3, <1>4 DEF Abstract!Withdraw, Abstract!ByOwner, Abstract!Less, Saturated

LEMMA QueryMaps ==
  ASSUME IInv, NEW p \in DOMAIN position, NEW call \in Calls, current_value(p, call)
  PROVE  Abstract!Query(p)
<1>1. /\ Validated(p, call)
      /\ event' = [kind |-> "value", position |-> p, signer |-> call.signer, amount |-> 0,
                   shares |-> event'.shares, value |-> event'.value]
      /\ position' = position
  BY DEF current_value, adapterVars
<1>2. call.signer = p.owner
  BY <1>1, ValidatedFacts DEF IInv
<1>3. event'.kind = "value" /\ event'.position = p /\ event'.signer = call.signer
  BY <1>1
<1>4. DOMAIN Booked = DOMAIN position /\ Booked' = Booked
  BY <1>1 DEF Booked
<1> QED BY <1>2, <1>3, <1>4 DEF Abstract!Query, Abstract!ByOwner

LEMMA OpenMaps ==
  ASSUME IInv, NEW owner \in Users, NEW configuration \in DOMAIN config,
         NEW a \in Accounts, NEW b \in Banks,
         initialize_position(owner, configuration, a, b)
  PROVE  Abstract!Open(PositionAddress(configuration, owner))
<1> DEFINE address == PositionAddress(configuration, owner)
           entry == [owner |-> owner, marginfi_account |-> a, marginfi_bank |-> b,
                     deposited_amount |-> 0, shares |-> 0, last_value |-> 0]
<1>1. /\ address \notin DOMAIN position
      /\ position' = [p \in DOMAIN position \cup {address} |->
                        IF p = address THEN entry ELSE position[p]]
      /\ event' = NoEvent
  BY DEF initialize_position, Silent
<1>2. entry.deposited_amount = 0
  OBVIOUS
<1> HIDE DEF address, entry
<1>3. Booked' = [p \in DOMAIN position \cup {address} |->
                   IF p = address THEN 0 ELSE Booked[p]]
  BY <1>1, <1>2 DEF Booked
<1>4. DOMAIN Booked = DOMAIN position
  BY DEF Booked
<1>5. Abstract!Open(address)
  BY <1>1, <1>3, <1>4 DEF Abstract!Open, NoEvent
<1> QED BY <1>5 DEF address

LEMMA StepMaps == IInv /\ [Next]_vars => [Abstract!Next]_<<Booked, event>>
<1> SUFFICES ASSUME IInv, [Next]_vars PROVE [Abstract!Next]_<<Booked, event>>
  OBVIOUS
<1>1. ASSUME \/ Marginfi
             \/ \E mint \in Mints, program \in Programs, version \in Versions :
                  initialize_config(mint, program, version)
      PROVE  Abstract!Next
  <2>1. event' = NoEvent /\ position' = position
    BY <1>1, OthersAreSilent
  <2>2. Abstract!Elsewhere
    BY <2>1 DEF Abstract!Elsewhere, NoEvent, Booked
  <2> QED BY <2>2 DEF Abstract!Next
<1>2. ASSUME NEW owner \in Users, NEW configuration \in DOMAIN config,
             NEW a \in Accounts, NEW b \in Banks,
             initialize_position(owner, configuration, a, b)
      PROVE  Abstract!Next
  <2>1. Abstract!Open(PositionAddress(configuration, owner))
    BY <1>2, OpenMaps
  <2>2. PositionAddress(configuration, owner) \in Positions
    BY DEF IInv, TypeOK, PositionAddress, Positions
  <2> QED BY <2>1, <2>2 DEF Abstract!Next
<1>3. ASSUME NEW p \in DOMAIN position, NEW call \in Calls,
             \/ \E amount \in Amounts, accrued \in ShareValues :
                  deposit(p, call, amount, accrued) \/ withdraw(p, call, amount, accrued)
             \/ current_value(p, call)
      PROVE  Abstract!Next
  <2>1. Abstract!Deposit(p) \/ Abstract!Withdraw(p) \/ Abstract!Query(p)
    BY <1>3, DepositMaps, WithdrawMaps, QueryMaps
  <2>2. p \in Positions
    BY PositionsKnown
  <2> QED BY <2>1, <2>2 DEF Abstract!Next
<1>4. CASE UNCHANGED vars
  BY <1>4 DEF vars, Booked
<1>5. CASE Next
  BY <1>5, <1>1, <1>2, <1>3 DEF Next, Adapter
<1> QED BY <1>4, <1>5

(* The adapter implements the promise of every adapter.                    *)
THEOREM MarginfiImplementsYieldAdapter == Spec => ImplementsYieldAdapter
<1>1. Init => Abstract!Init
  BY InitMaps
<1>2. IInv /\ [Next]_vars => [Abstract!Next]_<<Booked, event>>
  BY StepMaps
<1>3. Spec => Abstract!Init /\ [][Abstract!Next]_<<Booked, event>>
  BY <1>1, <1>2, Inductive, PTL DEF Spec
<1> QED BY <1>3 DEF ImplementsYieldAdapter, Abstract!Spec
=============================================================================
