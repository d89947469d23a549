---------------------------- MODULE DriftProofs ------------------------------
(***************************************************************************)
(* Proofs about the Drift adapter, for any markets, users and amounts,     *)
(* whatever the vaults gain and lose.  That no share is ever paid out      *)
(* twice rests on the shares of a market being exactly those of its        *)
(* stakes: the sum over the stakes is stated as the size of a set, the     *)
(* units they own, each share of a stake being one unit of its own.        *)
(***************************************************************************)
EXTENDS DriftInsuranceFund, AccountsProofs, FiniteSetTheorems

Stake == [if_shares: U64, request_shares: U64, request_value: U64]
Market == [total_shares: U64, vault: U64]

StakesTypeOK(stakes) == stakes \in [DOMAIN stakes -> Stake]

(* What the stakes in a market own, unit by unit. *)
Units(stakes, index) ==
  {u \in (DOMAIN stakes) \X (1 .. MaxU64) :
     u[1].market = index /\ u[2] <= stakes[u[1]].if_shares}

Owned(stakes, index) == Cardinality(Units(stakes, index))

SharesAreOwned ==
  \A index \in Markets :
    IsFiniteSet(Units(stake, index)) /\ Owned(stake, index) = market[index].total_shares

RequestsAreHeld == \A s \in DOMAIN stake : stake[s].request_shares <= stake[s].if_shares

DriftInv ==
  /\ market \in [Markets -> Market]
  /\ DOMAIN stake \subseteq Stakes /\ StakesTypeOK(stake)
  /\ RequestsAreHeld /\ SharesAreOwned

AskedOK ==
  /\ DOMAIN asked \subseteq DOMAIN stake
  /\ asked \in [DOMAIN asked -> [position: DOMAIN position, amount: U64]]

IInv ==
  /\ AccountsInv(Places) /\ DriftInv
  /\ pending \in [DOMAIN position -> U64]
  /\ AskedOK /\ PendingIsRecorded

-----------------------------------------------------------------------------
(* Units.                                                                  *)

LEMMA StakeNumbers ==
  ASSUME NEW stakes, StakesTypeOK(stakes), NEW s \in DOMAIN stakes
  PROVE  /\ stakes[s].if_shares \in Nat /\ stakes[s].if_shares <= MaxU64
         /\ stakes[s].request_shares \in Nat /\ stakes[s].request_shares <= MaxU64
         /\ stakes[s].request_value \in Nat /\ stakes[s].request_value <= MaxU64
<1>1. stakes[s] \in Stake
  BY DEF StakesTypeOK
<1> QED BY <1>1, AccountsConstants DEF Stake, U64

LEMMA StripSize ==
  ASSUME NEW s, NEW low \in Nat, NEW high \in Nat, low <= high
  PROVE  LET strip == {s} \X ((low + 1) .. high) IN
         IsFiniteSet(strip) /\ Cardinality(strip) = high - low
<1> DEFINE range == (low + 1) .. high
<1>1. IsFiniteSet(range) /\ Cardinality(range) = high - low
  <2> DEFINE first == low + 1
  <2>1. first \in Int /\ high \in Int /\ first = low + 1
    OBVIOUS
  <2> HIDE DEF first
  <2>2. /\ IsFiniteSet(first .. high)
        /\ Cardinality(first .. high) = IF first > high THEN 0 ELSE high - first + 1
    BY <2>1, FS_Interval
  <2>3. (IF first > high THEN 0 ELSE high - first + 1) = high - low
    BY <2>1
  <2> QED BY <2>2, <2>3 DEF first
<1>2. IsFiniteSet({s}) /\ Cardinality({s}) = 1
  BY FS_Singleton
<1> HIDE DEF range
<1>3. IsFiniteSet({s} \X range) /\ Cardinality({s} \X range) = 1 * Cardinality(range)
  BY <1>1, <1>2, FS_Product
<1>4. 1 * Cardinality(range) = high - low
  BY <1>1
<1> QED BY <1>3, <1>4 DEF range

(* One stake has more shares than before: its market has as many more.     *)
LEMMA UnitsGrow ==
  ASSUME NEW old, NEW new, StakesTypeOK(old), StakesTypeOK(new), DOMAIN new = DOMAIN old,
         NEW s \in DOMAIN old,
         \A t \in DOMAIN old \ {s} : new[t].if_shares = old[t].if_shares,
         old[s].if_shares <= new[s].if_shares, IsFiniteSet(Units(old, s.market))
  PROVE  /\ IsFiniteSet(Units(new, s.market))
         /\ Owned(new, s.market) = Owned(old, s.market) + (new[s].if_shares - old[s].if_shares)
<1> DEFINE low == old[s].if_shares
           high == new[s].if_shares
           strip == {s} \X ((low + 1) .. high)
           before == Units(old, s.market)
           after == Units(new, s.market)
<1>1. low \in Nat /\ high \in Nat /\ low <= high /\ high <= MaxU64
  BY StakeNumbers
<1>2. after = before \cup strip
  <2>1. ASSUME NEW u \in after PROVE u \in before \cup strip
    <3>1. u \in (DOMAIN old) \X (1 .. MaxU64) /\ u[1].market = s.market
          /\ u[2] <= new[u[1]].if_shares
      BY <2>1 DEF Units
    <3>2. CASE u[1] # s
      BY <3>1, <3>2 DEF Units
    <3>3. CASE u[1] = s /\ u[2] <= low
      BY <3>1, <3>3 DEF Units
    <3>4. CASE u[1] = s /\ ~ (u[2] <= low)
      <4>1. u[2] \in (low + 1) .. high
        BY <1>1, <3>1, <3>4
      <4> QED BY <3>1, <3>4, <4>1
    <3> QED BY <3>2, <3>3, <3>4
  <2>2. ASSUME NEW u \in before PROVE u \in after
    <3>1. u \in (DOMAIN old) \X (1 .. MaxU64) /\ u[1].market = s.market
          /\ u[2] <= old[u[1]].if_shares
      BY <2>2 DEF Units
    <3>2. CASE u[1] # s
      BY <3>1, <3>2 DEF Units
    <3>3. CASE u[1] = s
      <4>1. u[2] \in Nat /\ u[2] <= high
        BY <1>1, <3>1, <3>3
      <4> QED BY <3>1, <3>3, <4>1 DEF Units
    <3> QED BY <3>2, <3>3
  <2>3. ASSUME NEW u \in strip PROVE u \in after
    <3>1. u[1] = s /\ u[2] \in (low + 1) .. high
      BY <2>3
    <3>2. u[2] \in 1 .. MaxU64 /\ u[2] <= high
      BY <1>1, <3>1, AccountsConstants
    <3>3. u \in (DOMAIN new) \X (1 .. MaxU64)
      BY <2>3, <3>2
    <3> QED BY <3>1, <3>2, <3>3 DEF Units
  <2> QED BY <2>1, <2>2, <2>3
<1>3. before \cap strip = {}
  <2>1. ASSUME NEW u, u \in before, u \in strip PROVE FALSE
    <3>1. u[1] = s /\ u[2] \in (low + 1) .. high /\ u[2] <= low
      BY <2>1 DEF Units
    <3> QED BY <1>1, <3>1
  <2> QED BY <2>1
<1>4. IsFiniteSet(strip) /\ Cardinality(strip) = high - low
  <2> HIDE DEF low, high
  <2> QED BY <1>1, StripSize
<1>5. Cardinality(before) \in Nat
  BY FS_CardinalityType
<1> HIDE DEF before, strip, after, low, high
<1>6. IsFiniteSet(before)
  BY DEF before
<1>7. /\ IsFiniteSet(after)
      /\ Cardinality(after) = Cardinality(before) + Cardinality(strip) - Cardinality({})
  BY <1>2, <1>3, <1>4, <1>6, FS_Union
<1>8. Cardinality({}) = 0
  BY FS_EmptySet
<1>9. Cardinality(after) = Cardinality(before) + (high - low)
  BY <1>1, <1>4, <1>5, <1>7, <1>8
<1> QED BY <1>7, <1>9 DEF Owned, before, after, low, high

(* ... or fewer. *)
LEMMA UnitsShrink ==
  ASSUME NEW old, NEW new, StakesTypeOK(old), StakesTypeOK(new), DOMAIN new = DOMAIN old,
         NEW s \in DOMAIN old,
         \A t \in DOMAIN old \ {s} : new[t].if_shares = old[t].if_shares,
         new[s].if_shares <= old[s].if_shares, IsFiniteSet(Units(old, s.market))
  PROVE  /\ IsFiniteSet(Units(new, s.market))
         /\ Owned(new, s.market) = Owned(old, s.market) - (old[s].if_shares - new[s].if_shares)
<1>1. Units(new, s.market) \subseteq Units(old, s.market)
  <2> SUFFICES ASSUME NEW u \in Units(new, s.market)
               PROVE  u \in Units(old, s.market)
    OBVIOUS
  <2>1. u \in (DOMAIN old) \X (1 .. MaxU64) /\ u[1].market = s.market
        /\ u[2] <= new[u[1]].if_shares
    BY DEF Units
  <2>2. CASE u[1] # s
    BY <2>1, <2>2 DEF Units
  <2>3. CASE u[1] = s
    <3>1. u[2] \in Nat /\ new[s].if_shares \in Nat /\ old[s].if_shares \in Nat
      BY <2>1, StakeNumbers
    <3>2. u[2] <= old[s].if_shares
      BY <2>1, <2>3, <3>1
    <3> QED BY <2>1, <2>3, <3>2 DEF Units
  <2> QED BY <2>2, <2>3
<1>2. IsFiniteSet(Units(new, s.market))
  BY <1>1, FS_Subset
<1>3. Owned(old, s.market) = Owned(new, s.market) + (old[s].if_shares - new[s].if_shares)
  BY <1>2, UnitsGrow
<1>4. Owned(new, s.market) \in Nat /\ old[s].if_shares \in Nat /\ new[s].if_shares \in Nat
  BY <1>2, FS_CardinalityType, StakeNumbers DEF Owned
<1> QED BY <1>2, <1>3, <1>4

(* The other markets have what they had. *)
LEMMA UnitsElsewhere ==
  ASSUME NEW old, NEW new, DOMAIN new = DOMAIN old, NEW index,
         \A t \in DOMAIN old : t.market = index => new[t].if_shares = old[t].if_shares
  PROVE  Units(new, index) = Units(old, index)
BY DEF Units

(* A new stake owns nothing yet. *)
LEMMA UnitsOpened ==
  ASSUME NEW old, NEW new, NEW s, DOMAIN new = DOMAIN old \cup {s}, NEW index,
         \A t \in DOMAIN old : new[t] = old[t], new[s].if_shares = 0, s \notin DOMAIN old
  PROVE  Units(new, index) = Units(old, index)
<1>1. ASSUME NEW u \in Units(new, index) PROVE u[1] # s
  BY <1>1 DEF Units
<1> QED BY <1>1 DEF Units

(* No stake has more shares than its market. *)
LEMMA StakeWithinMarket ==
  ASSUME NEW stakes, StakesTypeOK(stakes), NEW s \in DOMAIN stakes,
         IsFiniteSet(Units(stakes, s.market))
  PROVE  stakes[s].if_shares <= Owned(stakes, s.market)
<1> DEFINE strip == {s} \X ((0 + 1) .. stakes[s].if_shares)
           units == Units(stakes, s.market)
<1>1. stakes[s].if_shares \in Nat /\ stakes[s].if_shares <= MaxU64
  BY StakeNumbers
<1>2. strip \subseteq units
  <2> SUFFICES ASSUME NEW u \in strip PROVE u \in units
    OBVIOUS
  <2>1. u[1] = s /\ u[2] \in 1 .. stakes[s].if_shares
    OBVIOUS
  <2>2. u[2] \in 1 .. MaxU64 /\ u[2] <= stakes[s].if_shares
    BY <1>1, <2>1, AccountsConstants
  <2>3. u \in (DOMAIN stakes) \X (1 .. MaxU64)
    BY <2>2
  <2> QED BY <2>1, <2>2, <2>3 DEF Units
<1>3. Cardinality(strip) = stakes[s].if_shares
  <2> DEFINE high == stakes[s].if_shares
             none == 0
  <2>1. none \in Nat /\ high \in Nat /\ none <= high /\ high - none = high
    BY <1>1
  <2> HIDE DEF none, high
  <2>2. Cardinality({s} \X ((none + 1) .. high)) = high - none
    BY <2>1, StripSize
  <2> QED BY <2>1, <2>2 DEF none, high
<1>4. Cardinality(strip) <= Cardinality(units)
  <2> HIDE DEF strip
  <2> QED BY <1>2, FS_Subset
<1> HIDE DEF strip
<1> QED BY <1>1, <1>3, <1>4 DEF Owned

-----------------------------------------------------------------------------
(* Drift.                                                                  *)

LEMMA MarketNumbers ==
  ASSUME DriftInv, NEW index \in Markets
  PROVE  /\ market[index].total_shares \in Nat /\ market[index].total_shares <= MaxU64
         /\ market[index].vault \in Nat /\ market[index].vault <= MaxU64
BY AccountsConstants DEF DriftInv, Market, U64

LEMMA MarketOfStake ==
  ASSUME DriftInv, NEW s \in DOMAIN stake
  PROVE  /\ s \in Stakes /\ s.market \in Markets
         /\ stake[s].if_shares <= market[s.market].total_shares
         /\ stake[s].request_shares <= stake[s].if_shares
BY StakeWithinMarket DEF DriftInv, Stakes, SharesAreOwned, RequestsAreHeld

(* Drift's accounts stay sound when a stake and its market gain or lose    *)
(* the same shares.                                                        *)
LEMMA StakeSet ==
  ASSUME DriftInv, NEW s \in DOMAIN stake, NEW v \in Stake, NEW m \in Market,
         v.request_shares <= v.if_shares,
         m.total_shares = market[s.market].total_shares + (v.if_shares - stake[s].if_shares),
         stake' = [stake EXCEPT ![s] = v], market' = [market EXCEPT ![s.market] = m]
  PROVE  /\ DriftInv' /\ DOMAIN stake' = DOMAIN stake
         /\ stake'[s] = v /\ market'[s.market] = m
         /\ \A t \in DOMAIN stake \ {s} : stake'[t] = stake[t]
<1>1. s \in Stakes /\ s.market \in Markets
  BY MarketOfStake
<1>2. /\ DOMAIN stake' = DOMAIN stake /\ stake'[s] = v
      /\ \A t \in DOMAIN stake \ {s} : stake'[t] = stake[t]
      /\ market' \in [Markets -> Market] /\ market'[s.market] = m
      /\ \A index \in Markets \ {s.market} : market'[index] = market[index]
  BY <1>1 DEF DriftInv
<1>3. StakesTypeOK(stake')
  <2>1. stake' \in [DOMAIN stake -> Stake]
    BY DEF DriftInv, StakesTypeOK
  <2> QED BY <1>2, <2>1 DEF StakesTypeOK
<1>4. RequestsAreHeld'
  BY <1>2 DEF DriftInv, RequestsAreHeld
<1>5. SharesAreOwned'
  <2> SUFFICES ASSUME NEW index \in Markets
               PROVE  /\ IsFiniteSet(Units(stake', index))
                      /\ Owned(stake', index) = market'[index].total_shares
    BY DEF SharesAreOwned
  <2>1. IsFiniteSet(Units(stake, index)) /\ Owned(stake, index) = market[index].total_shares
    BY DEF DriftInv, SharesAreOwned
  <2>2. CASE index # s.market
    <3>1. \A t \in DOMAIN stake : t.market = index => stake'[t].if_shares = stake[t].if_shares
      BY <1>2, <2>2
    <3>2. DOMAIN stake' = DOMAIN stake
      BY <1>2
    <3>3. Units(stake', index) = Units(stake, index)
      BY <3>1, <3>2, UnitsElsewhere
    <3> QED BY <1>2, <2>1, <2>2, <3>3 DEF Owned
  <2>3. CASE index = s.market
    <3>1. StakesTypeOK(stake) /\ stake[s].if_shares \in Nat /\ v.if_shares \in Nat
      BY <1>2, <1>3, StakeNumbers DEF DriftInv
    <3>2. /\ DOMAIN stake' = DOMAIN stake /\ stake'[s].if_shares = v.if_shares
          /\ \A t \in DOMAIN stake \ {s} : stake'[t].if_shares = stake[t].if_shares
      BY <1>2
    <3>3. StakesTypeOK(stake) /\ StakesTypeOK(stake') /\ IsFiniteSet(Units(stake, s.market))
      BY <1>3, <2>1, <2>3, <3>1
    <3>4. /\ IsFiniteSet(Units(stake', s.market))
          /\ Owned(stake', s.market)
               = Owned(stake, s.market) + (stake'[s].if_shares - stake[s].if_shares)
      <4>1. CASE stake[s].if_shares <= stake'[s].if_shares
        BY ONLY <3>2, <3>3, <4>1, s \in DOMAIN stake, UnitsGrow
      <4>2. CASE stake'[s].if_shares <= stake[s].if_shares
        <5>1. /\ IsFiniteSet(Units(stake', s.market))
              /\ Owned(stake', s.market)
                   = Owned(stake, s.market) - (stake[s].if_shares - stake'[s].if_shares)
          BY ONLY <3>2, <3>3, <4>2, s \in DOMAIN stake, UnitsShrink
        <5>2. Owned(stake, s.market) \in Nat
          BY <3>3, FS_CardinalityType DEF Owned
        <5> QED BY <3>1, <3>2, <5>1, <5>2
      <4> QED BY <3>1, <3>2, <4>1, <4>2
    <3> QED BY <1>2, <2>1, <2>3, <3>2, <3>4
  <2> QED BY <2>2, <2>3
<1>6. DOMAIN stake' \subseteq Stakes
  BY <1>2 DEF DriftInv
<1> QED BY <1>2, <1>3, <1>4, <1>5, <1>6 DEF DriftInv

LEMMA SharesForIsNatural ==
  ASSUME NEW m \in Market, NEW amount \in Nat, m.vault = 0 => m.total_shares = 0
  PROVE  SharesFor(amount, m) \in Nat
<1>1. m.total_shares \in Nat /\ m.vault \in Nat
  BY AccountsConstants DEF Market, U64
<1>2. CASE m.total_shares = 0
  BY <1>2 DEF SharesFor
<1>3. CASE m.total_shares # 0
  <2> DEFINE due == amount * m.total_shares
             vault == m.vault
  <2>1. due \in Nat /\ vault \in Nat \ {0}
    BY <1>1, <1>3
  <2>2. SharesFor(amount, m) = due \div vault
    BY <1>3 DEF SharesFor
  <2> HIDE DEF due, vault
  <2> QED BY <2>1, <2>2, Floored
<1> QED BY <1>2, <1>3

(* What shares are worth: floored, nothing in an empty market, and no more *)
(* than the vault if they are no more than the market's.                   *)
LEMMA Worth ==
  ASSUME NEW shares \in Nat, NEW total \in Nat, NEW vault \in Nat
  PROVE  LET worth == shares_to_amount(shares, total, vault) IN
         /\ worth \in Nat /\ worth * total <= shares * vault
         /\ IF total = 0 THEN worth = 0 ELSE shares * vault < (worth + 1) * total
         /\ shares <= total => worth <= vault
<1> DEFINE worth == shares_to_amount(shares, total, vault)
           product == shares * vault
<1>1. product \in Nat
  OBVIOUS
<1>2. CASE total = 0
  <2>1. worth = 0
    BY <1>2 DEF shares_to_amount
  <2> HIDE DEF worth
  <2>2. worth \in Nat /\ worth * total <= product /\ worth <= vault
    BY <1>1, <1>2, <2>1
  <2> QED BY <1>2, <2>1, <2>2 DEF worth
<1>3. CASE total # 0
  <2>1. worth = product \div total
    BY <1>3 DEF shares_to_amount
  <2> HIDE DEF product, worth
  <2>2. worth \in Nat /\ worth * total <= product /\ product < (worth + 1) * total
    BY <1>1, <1>3, <2>1, Floored
  <2>3. ASSUME shares <= total, vault < worth PROVE FALSE
    <3>1. shares * vault <= total * vault
      BY <2>3, ProductsOrdered
    <3>2. (vault + 1) * total <= worth * total
      BY <2>2, <2>3, ProductsOrdered
    <3>3. (vault + 1) * total = total * vault + total /\ total * vault \in Nat
          /\ worth * total \in Nat
      BY <2>2
    <3> DEFINE top == total * vault
               bottom == worth * total
    <3>4. product <= top /\ bottom <= product /\ top + total <= bottom
          /\ top \in Nat /\ bottom \in Nat
      BY <2>2, <3>1, <3>2, <3>3 DEF product
    <3> HIDE DEF top, bottom
    <3> QED BY <1>1, <1>3, <3>4
  <2>4. shares <= total => worth <= vault
    BY <2>2, <2>3
  <2> QED BY <1>3, <2>2, <2>4 DEF worth, product
<1> QED BY <1>2, <1>3

(* What each of Drift's instructions does to a stake. *)
LEMMA AddMoves ==
  ASSUME DriftInv, NEW s, NEW amount \in Nat, add_insurance_fund_stake(s, amount)
  PROVE  /\ DriftInv' /\ s \in DOMAIN stake /\ Idle(s) /\ DOMAIN stake' = DOMAIN stake
         /\ stake'[s].request_shares = 0
         /\ \A t \in DOMAIN stake \ {s} : stake'[t] = stake[t]
<1> DEFINE m == market[s.market]
           n == SharesFor(amount, m)
           held == stake[s].if_shares
           v == [stake[s] EXCEPT !.if_shares = held + n]
           w == [total_shares |-> m.total_shares + n, vault |-> m.vault + amount]
<1>1. /\ s \in DOMAIN stake /\ Idle(s)
      /\ m.vault = 0 => m.total_shares = 0
      /\ m.vault + amount <= MaxU64 /\ m.total_shares + n <= MaxU64
      /\ stake' = [stake EXCEPT ![s].if_shares = @ + n]
      /\ market' = [market EXCEPT ![s.market] = w]
  BY DEF add_insurance_fund_stake
<1>2. stake[s] \in Stake /\ m \in Market /\ s.market \in Markets /\ held <= m.total_shares
  BY <1>1, MarketOfStake DEF DriftInv, StakesTypeOK
<1>3. n \in Nat
  BY <1>1, <1>2, SharesForIsNatural
<1>4. stake' = [stake EXCEPT ![s] = v]
  BY <1>1
<1>5. /\ held \in Nat /\ m.total_shares \in Nat /\ m.vault \in Nat
      /\ stake[s].request_shares = 0
  BY <1>1, <1>2, StakeNumbers, MarketNumbers DEF DriftInv, Idle
<1> HIDE DEF n
<1>6. held + n \in U64 /\ m.total_shares + n \in U64 /\ m.vault + amount \in U64
  BY <1>1, <1>2, <1>3, <1>5, AccountsConstants DEF U64
<1>7. /\ v \in Stake /\ w \in Market /\ v.if_shares = held + n
      /\ v.request_shares = 0 /\ w.total_shares = m.total_shares + n
  BY <1>2, <1>5, <1>6 DEF Stake, Market
<1> HIDE DEF v, w
<1>8. v.request_shares <= v.if_shares /\ w.total_shares = m.total_shares + (v.if_shares - held)
  BY <1>3, <1>5, <1>7
<1> QED BY <1>1, <1>4, <1>7, <1>8, StakeSet

LEMMA RequestMoves ==
  ASSUME DriftInv, NEW s, NEW amount \in Nat, request_remove_insurance_fund_stake(s, amount)
  PROVE  LET m == market[s.market]
             n == SharesFor(amount, m) IN
         /\ DriftInv' /\ market' = market
         /\ s \in DOMAIN stake /\ Idle(s) /\ DOMAIN stake' = DOMAIN stake
         /\ m.vault > 0 /\ n \in Nat \ {0} /\ n <= stake[s].if_shares
         /\ stake'[s].if_shares = stake[s].if_shares /\ stake'[s].request_shares = n
         /\ stake'[s].request_value
              = Least(shares_to_amount(n, m.total_shares, m.vault), m.vault - 1)
         /\ \A t \in DOMAIN stake \ {s} : stake'[t] = stake[t]
<1> DEFINE m == market[s.market]
           n == SharesFor(amount, m)
           value == Least(shares_to_amount(n, m.total_shares, m.vault), m.vault - 1)
           v == [stake[s] EXCEPT !.request_shares = n, !.request_value = value]
<1>1. /\ s \in DOMAIN stake /\ Idle(s) /\ m.vault > 0 /\ n > 0 /\ n <= stake[s].if_shares
      /\ stake' = [stake EXCEPT ![s].request_shares = n, ![s].request_value = value]
      /\ market' = market
  BY DEF request_remove_insurance_fund_stake
<1>2. /\ stake[s] \in Stake /\ m \in Market /\ s.market \in Markets
      /\ stake[s].if_shares <= m.total_shares
  BY <1>1, MarketOfStake DEF DriftInv, StakesTypeOK
<1>3. /\ stake[s].if_shares \in Nat /\ stake[s].if_shares <= MaxU64
      /\ m.total_shares \in Nat /\ m.vault \in Nat /\ m.vault <= MaxU64
  BY <1>1, <1>2, StakeNumbers, MarketNumbers DEF DriftInv
<1>4. n \in Nat \ {0}
  BY <1>1, <1>2, <1>3, SharesForIsNatural
<1>5. stake' = [stake EXCEPT ![s] = v]
  BY <1>1, <1>2
<1> HIDE DEF n
<1>6. value \in U64
  <2> DEFINE worth == shares_to_amount(n, m.total_shares, m.vault)
  <2>1. worth \in Nat
    <3> DEFINE total == m.total_shares
               vault == m.vault
    <3>1. /\ total \in Nat /\ vault \in Nat /\ n \in Nat
          /\ worth = shares_to_amount(n, total, vault)
      BY <1>3, <1>4
    <3> HIDE DEF worth, total, vault
    <3> QED BY <3>1, Worth
  <2> HIDE DEF worth
  <2>2. value = Least(worth, m.vault - 1)
    BY DEF worth
  <2> QED BY <1>1, <1>3, <2>1, <2>2, AccountsConstants DEF Least, U64
<1>7. n \in U64
  BY <1>1, <1>3, <1>4, AccountsConstants DEF U64
<1> HIDE DEF value
<1>8. /\ v \in Stake /\ v.if_shares = stake[s].if_shares
      /\ v.request_shares = n /\ v.request_value = value
  BY <1>2, <1>6, <1>7 DEF Stake
<1>9. market' = [market EXCEPT ![s.market] = m]
  BY <1>1, <1>2 DEF DriftInv
<1>10. m.total_shares = m.total_shares + (v.if_shares - stake[s].if_shares)
  BY <1>3, <1>8
<1> HIDE DEF v, m
<1>11. /\ DriftInv' /\ DOMAIN stake' = DOMAIN stake /\ stake'[s] = v
       /\ \A t \in DOMAIN stake \ {s} : stake'[t] = stake[t]
  <2>1. v.request_shares <= v.if_shares
    BY <1>1, <1>8
  <2>2. m.total_shares = market[s.market].total_shares + (v.if_shares - stake[s].if_shares)
    BY <1>10 DEF m
  <2>3. s \in DOMAIN stake /\ v \in Stake /\ m \in Market
    BY <1>1, <1>2, <1>8
  <2> QED BY <1>5, <1>9, <2>1, <2>2, <2>3, StakeSet
<1> QED BY <1>1, <1>4, <1>8, <1>11 DEF n, value, m

LEMMA SettleMoves ==
  ASSUME DriftInv, NEW s \in DOMAIN stake, NEW gone \in Nat, NEW vault \in U64,
         gone <= stake[s].if_shares,
         stake' = [stake EXCEPT ![s] =
           [if_shares |-> stake[s].if_shares - gone, request_shares |-> 0, request_value |-> 0]],
         market' = [market EXCEPT ![s.market] =
           [total_shares |-> market[s.market].total_shares - gone, vault |-> vault]]
  PROVE  /\ DriftInv' /\ DOMAIN stake' = DOMAIN stake
         /\ \A t \in DOMAIN stake \ {s} : stake'[t] = stake[t]
<1> DEFINE v == [if_shares |-> stake[s].if_shares - gone, request_shares |-> 0,
                 request_value |-> 0]
           w == [total_shares |-> market[s.market].total_shares - gone, vault |-> vault]
<1>1. /\ stake[s].if_shares \in Nat /\ stake[s].if_shares <= MaxU64
      /\ market[s.market].total_shares \in Nat /\ market[s.market].total_shares <= MaxU64
      /\ stake[s].if_shares <= market[s.market].total_shares
  BY StakeNumbers, MarketNumbers, MarketOfStake DEF DriftInv
<1>2. /\ stake[s].if_shares - gone \in U64 /\ market[s.market].total_shares - gone \in U64
      /\ 0 \in U64
  BY <1>1, AccountsConstants DEF U64
<1>3. v \in Stake /\ w \in Market
  BY <1>2 DEF Stake, Market
<1>4. v.request_shares <= v.if_shares
      /\ w.total_shares = market[s.market].total_shares + (v.if_shares - stake[s].if_shares)
  BY <1>1
<1> HIDE DEF v, w
<1>5. stake' = [stake EXCEPT ![s] = v] /\ market' = [market EXCEPT ![s.market] = w]
  BY DEF v, w
<1> QED BY <1>3, <1>4, <1>5, StakeSet

LEMMA RemoveMoves ==
  ASSUME DriftInv, NEW s \in DOMAIN stake, Remove(s)
  PROVE  /\ DriftInv' /\ DOMAIN stake' = DOMAIN stake
         /\ \A t \in DOMAIN stake \ {s} : stake'[t] = stake[t]
<1> DEFINE m == market[s.market]
           n == stake[s].request_shares
           worth == shares_to_amount(n, m.total_shares, m.vault)
           paid == Least(stake[s].request_value, worth)
<1>1. /\ stake' = [stake EXCEPT ![s] =
           [if_shares |-> stake[s].if_shares - n, request_shares |-> 0, request_value |-> 0]]
      /\ market' = [market EXCEPT ![s.market] =
           [total_shares |-> m.total_shares - n, vault |-> m.vault - paid]]
  BY DEF Remove
<1>2. /\ n \in Nat /\ stake[s].request_value \in Nat /\ stake[s].if_shares \in Nat
      /\ m.total_shares \in Nat /\ m.vault \in Nat /\ m.vault <= MaxU64
      /\ n <= stake[s].if_shares /\ stake[s].if_shares <= m.total_shares
  BY StakeNumbers, MarketNumbers, MarketOfStake DEF DriftInv
<1>3. worth \in Nat /\ worth <= m.vault
  <2> DEFINE total == m.total_shares
             vault == m.vault
             shares == n
  <2>1. /\ shares \in Nat /\ total \in Nat /\ vault \in Nat /\ shares <= total
        /\ worth = shares_to_amount(shares, total, vault)
    BY <1>2
  <2> HIDE DEF worth, total, vault, shares
  <2>2. worth \in Nat /\ worth <= vault
    BY <2>1, Worth
  <2> QED BY <2>2 DEF vault
<1> HIDE DEF worth
<1>4. m.vault - paid \in U64
  BY <1>2, <1>3, AccountsConstants DEF Least, U64
<1> HIDE DEF n, paid
<1>5. n <= stake[s].if_shares /\ n \in Nat
  BY <1>2
<1> QED BY <1>1, <1>4, <1>5, SettleMoves

LEMMA CancelMoves ==
  ASSUME DriftInv, NEW s \in DOMAIN stake, NEW lost \in U64, Cancel(s, lost)
  PROVE  /\ DriftInv' /\ DOMAIN stake' = DOMAIN stake
         /\ \A t \in DOMAIN stake \ {s} : stake'[t] = stake[t]
<1> DEFINE m == market[s.market]
<1>1. s.market \in Markets /\ m \in Market /\ m.vault \in U64
  BY MarketOfStake DEF DriftInv, Market
<1>2. /\ lost \in Nat /\ lost <= stake[s].if_shares
  <2>1. /\ stake[s].request_shares \in Nat /\ stake[s].if_shares \in Nat
        /\ stake[s].request_shares <= stake[s].if_shares
    BY StakeNumbers, MarketOfStake DEF DriftInv
  <2> QED BY <2>1, AccountsConstants DEF Cancel, U64
<1>3. stake' = [stake EXCEPT ![s] =
        [if_shares |-> stake[s].if_shares - lost, request_shares |-> 0, request_value |-> 0]]
  BY DEF Cancel
<1>4. market' = [market EXCEPT ![s.market] =
        [total_shares |-> m.total_shares - lost, vault |-> m.vault]]
  <2> DEFINE w == [m EXCEPT !.total_shares = m.total_shares - lost]
  <2>1. market' = [market EXCEPT ![s.market] = w]
    BY DEF Cancel
  <2>2. w = [total_shares |-> m.total_shares - lost, vault |-> m.vault]
    BY <1>1 DEF Market
  <2> QED BY <2>1, <2>2
<1> QED BY <1>1, <1>2, <1>3, <1>4, SettleMoves

LEMMA OpenMoves ==
  ASSUME DriftInv, NEW s \in Stakes, OpenStake(s)
  PROVE  /\ DriftInv' /\ DOMAIN stake \subseteq DOMAIN stake'
         /\ \A t \in DOMAIN stake : stake'[t] = stake[t]
<1> DEFINE v == [if_shares |-> 0, request_shares |-> 0, request_value |-> 0]
<1>1. /\ s \notin DOMAIN stake /\ market' = market
      /\ stake' = [t \in DOMAIN stake \cup {s} |-> IF t = s THEN v ELSE stake[t]]
  BY DEF OpenStake
<1>2. v \in Stake /\ v.if_shares = 0 /\ v.request_shares = 0
  BY AccountsConstants DEF Stake, U64
<1> HIDE DEF v
<1>3. /\ DOMAIN stake' = DOMAIN stake \cup {s} /\ stake'[s] = v
      /\ \A t \in DOMAIN stake : stake'[t] = stake[t]
  BY <1>1
<1>4. StakesTypeOK(stake')
  BY <1>1, <1>2, <1>3 DEF StakesTypeOK, DriftInv
<1>5. RequestsAreHeld'
  BY <1>2, <1>3 DEF RequestsAreHeld, DriftInv
<1>6. SharesAreOwned'
  <2>1. ASSUME NEW index \in Markets PROVE Units(stake', index) = Units(stake, index)
    BY <1>1, <1>2, <1>3, UnitsOpened
  <2> QED BY <1>1, <2>1 DEF SharesAreOwned, DriftInv, Owned
<1> QED BY <1>1, <1>3, <1>4, <1>5, <1>6 DEF DriftInv

LEMMA GainOrLoseKeeps ==
  ASSUME DriftInv, NEW index \in Markets, NEW amount \in U64, GainOrLose(index, amount)
  PROVE  DriftInv' /\ stake' = stake
<1> DEFINE w == [market[index] EXCEPT !.vault = amount]
<1>1. market' = [market EXCEPT ![index] = w] /\ stake' = stake
  BY DEF GainOrLose
<1>2. w \in Market /\ w.total_shares = market[index].total_shares
  BY DEF DriftInv, Market
<1> HIDE DEF w
<1>3. /\ market' \in [Markets -> Market]
      /\ \A i \in Markets : market'[i].total_shares = market[i].total_shares
  BY <1>1, <1>2 DEF DriftInv
<1> QED BY <1>1, <1>3 DEF DriftInv, RequestsAreHeld, SharesAreOwned

-----------------------------------------------------------------------------
(* The instructions.                                                       *)

(* What a list of accounts that passes the checks of a query is. *)
LEMMA CallIsTheOwners ==
  ASSUME IInv, NEW p \in DOMAIN position, NEW call \in Calls, validate_value_accounts(p, call)
  PROVE  /\ call.signer \in Users /\ call.signer = position[p].owner
         /\ call.stake \in DOMAIN stake /\ call.stake = StakeOf(p)
BY DriftConstants DEF validate_value_accounts, validate_owner_and_mint,
   validate_common_drift_accounts, StakeOf

LEMMA DepositMoves ==
  ASSUME IInv, NEW p \in DOMAIN position, NEW call \in Calls, NEW amount \in Amounts,
         deposit(p, call, amount)
  PROVE  /\ amount \in Nat \ {0}
         /\ validate_value_accounts(p, call)
         /\ add_insurance_fund_stake(call.stake, amount)
         /\ RecordDeposit(p, call.signer, amount, stake'[call.stake].if_shares,
                          ValueAfter(call.stake))
         /\ pending' = [pending EXCEPT ![p] = 0]
         /\ asked' = asked
BY DriftConstants, AccountsConstants
DEF deposit, validate_deposit_accounts, validate_withdraw_accounts, U64

LEMMA WithdrawMoves ==
  ASSUME IInv, NEW p \in DOMAIN position, NEW call \in Calls, NEW amount \in Amounts,
         withdraw(p, call, amount)
  PROVE  /\ amount \in Nat \ {0} /\ amount \in U64
         /\ validate_value_accounts(p, call)
         /\ request_remove_insurance_fund_stake(call.stake, amount)
         /\ RecordWithdraw(p, call.signer, amount, stake'[call.stake].if_shares,
                           ValueAfter(call.stake))
         /\ pending' = [pending EXCEPT ![p] = amount]
         /\ asked' = [s \in DOMAIN asked \cup {call.stake} |->
              IF s = call.stake THEN [position |-> p, amount |-> amount] ELSE asked[s]]
BY DriftConstants, AccountsConstants
DEF withdraw, validate_withdraw_accounts, PendingAfter, U64

LEMMA CurrentValueTells ==
  ASSUME IInv, NEW p \in DOMAIN position, NEW call \in Calls, current_value(p, call)
  PROVE  /\ validate_value_accounts(p, call)
         /\ Report(p, call.signer, stake[call.stake].if_shares, ValueNow(call.stake))
         /\ UNCHANGED <<pending, market, stake, asked>>
BY DEF current_value, external

LEMMA OpeningIsCreation ==
  ASSUME IInv, NEW p \in Openings, NEW place \in Places,
         initialize_position(p.owner, p.config, place)
  PROVE  /\ p.owner \in Users /\ p.config \in DOMAIN config
         /\ CreatePosition(p.owner, p.config, place)
         /\ pending' = [q \in DOMAIN position' |-> IF q \in DOMAIN pending THEN pending[q] ELSE 0]
         /\ UNCHANGED <<market, stake, asked>>
BY DriftConstants DEF initialize_position, Positions, external

LEMMA StepsAreAccountSteps ==
  ASSUME IInv, Next
  PROVE  AccountStep(Places)
<1>1. CASE Drift /\ Elsewhere
  BY <1>1 DEF AccountStep
<1>2. ASSUME NEW mint \in Mints, NEW program \in Programs, NEW version \in Versions,
             initialize_config(mint, program, version)
      PROVE  AccountStep(Places)
  BY <1>2 DEF initialize_config, AccountStep
<1>3. ASSUME NEW p \in Openings, NEW place \in Places,
             initialize_position(p.owner, p.config, place)
      PROVE  AccountStep(Places)
  BY <1>3, OpeningIsCreation DEF AccountStep
<1>4. ASSUME NEW p \in DOMAIN position, NEW call \in Calls, NEW amount \in Amounts,
             deposit(p, call, amount) \/ withdraw(p, call, amount)
      PROVE  AccountStep(Places)
  <2>1. CASE deposit(p, call, amount)
    <3>1. /\ amount \in Nat \ {0} /\ validate_value_accounts(p, call)
          /\ \E shares, value : RecordDeposit(p, call.signer, amount, shares, value)
      BY <2>1, DepositMoves
    <3> QED BY <3>1, CallIsTheOwners, RecordedIsMoved DEF AccountStep
  <2>2. CASE withdraw(p, call, amount)
    <3>1. /\ amount \in Nat \ {0} /\ validate_value_accounts(p, call)
          /\ \E shares, value : RecordWithdraw(p, call.signer, amount, shares, value)
      BY <2>2, WithdrawMoves
    <3> QED BY <3>1, CallIsTheOwners, RecordedIsMoved DEF AccountStep
  <2> QED BY <1>4, <2>1, <2>2
<1>5. ASSUME NEW p \in DOMAIN position, NEW call \in Calls, current_value(p, call)
      PROVE  AccountStep(Places)
  <2>1. Told(p)
    BY <1>5, CurrentValueTells, CallIsTheOwners, ReportedIsTold
  <2> QED BY <2>1 DEF AccountStep
<1> QED BY <1>1, <1>2, <1>3, <1>4, <1>5 DEF Next, Adapter

-----------------------------------------------------------------------------
(* The requests.                                                           *)

(* What a request is worth is no more than was asked for. *)
LEMMA RequestWithinAmount ==
  ASSUME NEW m \in Market, NEW amount \in Nat, m.vault > 0
  PROVE  shares_to_amount(SharesFor(amount, m), m.total_shares, m.vault) <= amount
<1> DEFINE total == m.total_shares
           vault == m.vault
           n == SharesFor(amount, m)
           worth == shares_to_amount(n, total, vault)
           due == amount * total
<1>1. total \in Nat /\ vault \in Nat \ {0} /\ due \in Nat
  BY AccountsConstants DEF Market, U64
<1>2. n = IF total = 0 THEN amount ELSE due \div vault
  BY DEF SharesFor
<1>3. n \in Nat
  BY <1>1, SharesForIsNatural
<1> SUFFICES worth <= amount
  BY DEF worth, n, total, vault
<1> HIDE DEF n, total, vault, worth
<1>4. worth \in Nat /\ worth * total <= n * vault /\ (total = 0 => worth = 0)
  BY <1>1, <1>3, Worth DEF worth
<1>5. CASE total = 0
  BY <1>4, <1>5
<1>6. CASE total # 0
  <2> HIDE DEF due
  <2>1. n * vault <= due
    BY <1>1, <1>2, <1>6, Floored
  <2>2. ASSUME amount < worth PROVE FALSE
    <3>1. (amount + 1) * total <= worth * total
      BY <1>1, <1>4, <2>2, ProductsOrdered
    <3>2. (amount + 1) * total = amount * total + total
      BY <1>1
    <3>3. worth * total \in Int /\ n * vault \in Int
      BY <1>1, <1>3, <1>4
    <3>4. due + total <= n * vault
      <4> DEFINE x == worth * total
                 y == n * vault
      <4>1. (amount + 1) * total = due + total /\ (amount + 1) * total <= x /\ x <= y
            /\ x \in Int /\ y \in Int
        BY <1>4, <3>1, <3>2, <3>3 DEF due
      <4> HIDE DEF x, y
      <4>2. due + total <= y
        BY <1>1, <4>1
      <4> QED BY <4>2 DEF y
    <3> DEFINE y == n * vault
    <3>5. y \in Int /\ y <= due /\ due + total <= y
      BY <2>1, <3>3, <3>4
    <3> HIDE DEF y
    <3> QED BY <1>1, <1>6, <3>5
  <2> QED BY <1>4, <2>2
<1> QED BY <1>5, <1>6

(* Requests that stay open keep what is recorded of them. *)
LEMMA RequestsStay ==
  ASSUME IInv, AccountsPersist, asked' \in [DOMAIN asked' -> Range(asked)],
         \A s \in DOMAIN asked' :
           /\ s \in DOMAIN asked /\ asked'[s] = asked[s]
           /\ s \in DOMAIN stake' /\ stake'[s] = stake[s]
           /\ pending'[asked[s].position] = pending[asked[s].position]
  PROVE  AskedOK' /\ PendingIsRecorded'
<1>1. \A s \in DOMAIN asked : /\ asked[s] \in [position: DOMAIN position, amount: U64]
                              /\ asked[s].position \in DOMAIN position
  BY DEF IInv, AskedOK
<1>2. \A s \in DOMAIN asked' : asked'[s] \in [position: DOMAIN position', amount: U64]
  BY <1>1 DEF AccountsPersist
<1>3. AskedOK'
  BY <1>2 DEF AskedOK
<1>4. PendingIsRecorded'
  <2> SUFFICES ASSUME NEW s \in DOMAIN asked'
               PROVE  /\ stake'[s].request_shares # 0
                      /\ position'[asked'[s].position].place.insurance_fund_stake = s
                      /\ pending'[asked'[s].position] = asked'[s].amount
                      /\ stake'[s].request_value <= asked'[s].amount
    BY DEF PendingIsRecorded, Idle, StakeOf
  <2>1. /\ stake[s].request_shares # 0
        /\ position[asked[s].position].place.insurance_fund_stake = s
        /\ pending[asked[s].position] = asked[s].amount
        /\ stake[s].request_value <= asked[s].amount
    BY DEF IInv, PendingIsRecorded, Idle, StakeOf
  <2> QED BY <1>1, <2>1 DEF AccountsPersist
<1> QED BY <1>3, <1>4

(* A step that keeps every open request and its stake. *)
LEMMA RequestsUntouched ==
  ASSUME IInv, AccountsPersist, asked' = asked,
         \A s \in DOMAIN asked :
           /\ s \in DOMAIN stake' /\ stake'[s] = stake[s]
           /\ pending'[asked[s].position] = pending[asked[s].position]
  PROVE  AskedOK' /\ PendingIsRecorded'
<1>1. asked' \in [DOMAIN asked' -> Range(asked)]
  BY DEF IInv, AskedOK, Range
<1> QED BY <1>1, RequestsStay

(* A stake with no request open has none recorded. *)
LEMMA IdleIsNotAsked ==
  ASSUME IInv, NEW s, Idle(s)
  PROVE  s \notin DOMAIN asked
BY DEF IInv, PendingIsRecorded

(* A request that was answered is forgotten, and the others stay. *)
LEMMA SettledStay ==
  ASSUME IInv, AccountsPersist, NEW s \in DOMAIN stake, Settled(s),
         DOMAIN stake' = DOMAIN stake, pending' = pending,
         \A t \in DOMAIN stake \ {s} : stake'[t] = stake[t]
  PROVE  AskedOK' /\ PendingIsRecorded'
<1>1. asked' = [t \in DOMAIN asked \ {s} |-> asked[t]]
  BY DEF Settled
<1>2. DOMAIN asked \subseteq DOMAIN stake
  BY DEF IInv, AskedOK
<1>3. asked' \in [DOMAIN asked' -> Range(asked)]
  BY <1>1 DEF Range
<1>4. \A t \in DOMAIN asked' :
        /\ t \in DOMAIN asked /\ asked'[t] = asked[t]
        /\ t \in DOMAIN stake' /\ stake'[t] = stake[t]
        /\ pending'[asked[t].position] = pending[asked[t].position]
  BY <1>1, <1>2
<1> QED BY <1>3, <1>4, RequestsStay

-----------------------------------------------------------------------------
(* The invariant.                                                          *)

LEMMA InitIInv == Init => IInv
<1> SUFFICES ASSUME Init PROVE IInv
  OBVIOUS
<1>1. AccountsInv(Places)
  BY AccountsInit DEF Init
<1>2. /\ pending \in [DOMAIN position -> U64] /\ AskedOK /\ PendingIsRecorded
      /\ DOMAIN stake = {}
  BY DEF Init, NoAccounts, AskedOK, PendingIsRecorded
<1>3. market \in [Markets -> Market]
  BY AccountsConstants DEF Init, Market, U64
<1>4. StakesTypeOK(stake) /\ RequestsAreHeld /\ DOMAIN stake \subseteq Stakes
  BY <1>2 DEF Init, StakesTypeOK, RequestsAreHeld
<1>5. SharesAreOwned
  <2>1. ASSUME NEW index \in Markets PROVE Units(stake, index) = {}
    BY <1>2 DEF Units
  <2>2. \A index \in Markets : market[index].total_shares = 0
    BY DEF Init
  <2> QED BY <2>1, <2>2, FS_EmptySet DEF SharesAreOwned, Owned
<1> QED BY <1>1, <1>2, <1>3, <1>4, <1>5 DEF IInv, DriftInv

(* What of the invariant the steps of Drift and the movements disturb.     *)
RestInv ==
  /\ DriftInv /\ pending \in [DOMAIN position -> U64]
  /\ AskedOK /\ PendingIsRecorded

LEMMA DriftKeeps ==
  ASSUME IInv, Drift, AccountsPersist, UNCHANGED pending, position' = position
  PROVE  RestInv'
<1>1. (pending \in [DOMAIN position -> U64])'
  BY DEF IInv
<1>2. DriftInv /\ DOMAIN asked \subseteq DOMAIN stake
  BY DEF IInv, AskedOK
<1>3. ASSUME NEW s \in Stakes, OpenStake(s)
      PROVE  RestInv'
  <2>1. /\ DriftInv' /\ DOMAIN stake \subseteq DOMAIN stake'
        /\ \A t \in DOMAIN stake : stake'[t] = stake[t]
    BY <1>2, <1>3, OpenMoves
  <2>2. asked' = asked
    BY <1>3 DEF OpenStake
  <2>3. AskedOK' /\ PendingIsRecorded'
    BY <1>2, <2>1, <2>2, RequestsUntouched
  <2> QED BY <1>1, <2>1, <2>3 DEF RestInv
<1>4. ASSUME NEW s \in DOMAIN stake, NEW amount \in Amounts, UNCHANGED asked,
             add_insurance_fund_stake(s, amount) \/ request_remove_insurance_fund_stake(s, amount)
      PROVE  RestInv'
  <2>1. amount \in Nat
    BY DriftConstants, AccountsConstants DEF U64
  <2>2. /\ DriftInv' /\ DOMAIN stake' = DOMAIN stake /\ Idle(s)
        /\ \A t \in DOMAIN stake \ {s} : stake'[t] = stake[t]
    BY <1>2, <1>4, <2>1, AddMoves, RequestMoves
  <2>3. s \notin DOMAIN asked
    BY <2>2, IdleIsNotAsked
  <2>4. AskedOK' /\ PendingIsRecorded'
    BY <1>2, <1>4, <2>2, <2>3, RequestsUntouched
  <2> QED BY <1>1, <2>2, <2>4 DEF RestInv
<1>5. ASSUME NEW s \in DOMAIN stake, NEW lost \in U64, Remove(s) \/ Cancel(s, lost)
      PROVE  RestInv'
  <2>1. /\ DriftInv' /\ DOMAIN stake' = DOMAIN stake
        /\ \A t \in DOMAIN stake \ {s} : stake'[t] = stake[t]
    BY <1>2, <1>5, RemoveMoves, CancelMoves
  <2>2. Settled(s)
    BY <1>5 DEF Remove, Cancel
  <2>3. AskedOK' /\ PendingIsRecorded'
    BY <2>1, <2>2, SettledStay
  <2> QED BY <1>1, <2>1, <2>3 DEF RestInv
<1>6. ASSUME NEW index \in Markets, NEW amount \in U64, GainOrLose(index, amount)
      PROVE  RestInv'
  <2>1. DriftInv' /\ stake' = stake /\ asked' = asked
    BY <1>2, <1>6, GainOrLoseKeeps DEF GainOrLose
  <2>2. AskedOK' /\ PendingIsRecorded'
    BY <1>2, <2>1, RequestsUntouched
  <2> QED BY <1>1, <2>1, <2>2 DEF RestInv
<1>7. 0 \in U64
  BY AccountsConstants DEF U64
<1> QED BY <1>3, <1>4, <1>5, <1>6, <1>7 DEF Drift

LEMMA DepositKeeps ==
  ASSUME IInv, AccountsPersist, NEW p \in DOMAIN position, NEW call \in Calls,
         NEW amount \in Amounts, deposit(p, call, amount)
  PROVE  RestInv'
<1>1. /\ amount \in Nat \ {0} /\ validate_value_accounts(p, call)
      /\ add_insurance_fund_stake(call.stake, amount)
      /\ RecordDeposit(p, call.signer, amount, stake'[call.stake].if_shares,
                       ValueAfter(call.stake))
      /\ pending' = [pending EXCEPT ![p] = 0] /\ asked' = asked
  BY DepositMoves
<1>2. /\ DriftInv' /\ Idle(call.stake) /\ DOMAIN stake' = DOMAIN stake
      /\ \A t \in DOMAIN stake \ {call.stake} : stake'[t] = stake[t]
  BY <1>1, AddMoves DEF IInv
<1>3. DOMAIN position' = DOMAIN position
  BY <1>1, RecordWrites DEF RecordDeposit, IInv
<1>4. /\ pending' \in [DOMAIN position' -> U64]
      /\ \A q \in DOMAIN position \ {p} : pending'[q] = pending[q]
  BY <1>1, <1>3, AccountsConstants DEF IInv, U64
<1>5. call.stake \notin DOMAIN asked
  BY <1>2, IdleIsNotAsked
<1>6. \A s \in DOMAIN asked : asked[s].position \in DOMAIN position /\ asked[s].position # p
  <2>1. StakeOf(p) = call.stake
    BY <1>1, CallIsTheOwners
  <2> QED BY <1>5, <2>1 DEF IInv, AskedOK, PendingIsRecorded
<1>7. AskedOK' /\ PendingIsRecorded'
  BY <1>1, <1>2, <1>4, <1>5, <1>6, RequestsUntouched DEF IInv, AskedOK
<1> QED BY <1>2, <1>4, <1>7 DEF RestInv

LEMMA WithdrawKeeps ==
  ASSUME IInv, AccountsPersist, NEW p \in DOMAIN position, NEW call \in Calls,
         NEW amount \in Amounts, withdraw(p, call, amount)
  PROVE  RestInv'
<1> DEFINE s == call.stake
           m == market[s.market]
           n == SharesFor(amount, m)
<1>1. /\ amount \in Nat /\ amount \in U64 /\ validate_value_accounts(p, call)
      /\ request_remove_insurance_fund_stake(s, amount)
      /\ RecordWithdraw(p, call.signer, amount, stake'[s].if_shares, ValueAfter(s))
      /\ pending' = [pending EXCEPT ![p] = amount]
      /\ asked' = [t \in DOMAIN asked \cup {s} |->
           IF t = s THEN [position |-> p, amount |-> amount] ELSE asked[t]]
  BY WithdrawMoves
<1>2. /\ DriftInv' /\ s \in DOMAIN stake /\ Idle(s) /\ DOMAIN stake' = DOMAIN stake
      /\ m.vault > 0 /\ n \in Nat \ {0} /\ stake'[s].request_shares = n
      /\ stake'[s].request_value
           = Least(shares_to_amount(n, m.total_shares, m.vault), m.vault - 1)
      /\ \A t \in DOMAIN stake \ {s} : stake'[t] = stake[t]
  BY <1>1, RequestMoves DEF IInv
<1>3. DOMAIN position' = DOMAIN position
  BY <1>1, RecordWrites DEF RecordWithdraw, IInv
<1>4. /\ pending' \in [DOMAIN position' -> U64] /\ pending'[p] = amount
      /\ \A q \in DOMAIN position \ {p} : pending'[q] = pending[q]
  BY <1>1, <1>3 DEF IInv
<1>5. s \notin DOMAIN asked
  BY <1>2, IdleIsNotAsked
<1>6. StakeOf(p) = s
  BY <1>1, CallIsTheOwners
<1>7. stake'[s].request_value <= amount
  <2>1. m \in Market /\ m.total_shares \in Nat /\ m.vault \in Nat
    BY <1>2, MarketOfStake, MarketNumbers DEF IInv, DriftInv
  <2> DEFINE worth == shares_to_amount(n, m.total_shares, m.vault)
  <2>2. worth <= amount
    BY <1>1, <1>2, <2>1, RequestWithinAmount
  <2>3. worth \in Nat
    BY <1>2, <2>1, Worth
  <2> HIDE DEF worth
  <2>4. stake'[s].request_value = Least(worth, m.vault - 1)
    BY <1>2 DEF worth
  <2> QED BY <1>1, <2>1, <2>2, <2>3, <2>4 DEF Least
<1>8. \A t \in DOMAIN asked :
        /\ t \in DOMAIN stake /\ t # s /\ ~ Idle(t)
        /\ asked[t] \in [position: DOMAIN position, amount: U64]
        /\ asked[t].position \in DOMAIN position /\ asked[t].position # p
        /\ StakeOf(asked[t].position) = t
        /\ pending[asked[t].position] = asked[t].amount
        /\ stake[t].request_value <= asked[t].amount
  BY <1>5, <1>6 DEF IInv, AskedOK, PendingIsRecorded
<1>9. /\ DOMAIN asked' = DOMAIN asked \cup {s}
      /\ asked'[s] = [position |-> p, amount |-> amount]
      /\ \A t \in DOMAIN asked : asked'[t] = asked[t]
  BY <1>1, <1>5
<1>10. AskedOK'
  <2>1. asked' \in [DOMAIN asked' -> [position: DOMAIN position', amount: U64]]
    BY <1>1, <1>3, <1>8
  <2> QED BY <1>2, <1>8, <1>9, <2>1 DEF AskedOK
<1>11. PendingIsRecorded'
  <2> SUFFICES ASSUME NEW t \in DOMAIN asked'
               PROVE  /\ stake'[t].request_shares # 0
                      /\ position'[asked'[t].position].place.insurance_fund_stake = t
                      /\ pending'[asked'[t].position] = asked'[t].amount
                      /\ stake'[t].request_value <= asked'[t].amount
    BY DEF PendingIsRecorded, Idle, StakeOf
  <2> HIDE DEF s, n
  <2>1. CASE t = s
    <3>1. position'[p].place.insurance_fund_stake = s
      BY <1>6 DEF AccountsPersist, StakeOf
    <3>2. asked'[t].position = p /\ asked'[t].amount = amount
      BY <1>9, <2>1
    <3>3. stake'[t].request_shares # 0 /\ stake'[t].request_value <= amount
      BY <1>2, <1>7, <2>1
    <3> QED BY <1>4, <2>1, <3>1, <3>2, <3>3
  <2>2. CASE t # s
    <3>1. t \in DOMAIN asked /\ asked'[t] = asked[t] /\ stake'[t] = stake[t]
      BY <1>2, <1>8, <1>9, <2>2
    <3> QED BY <1>4, <1>8, <3>1 DEF AccountsPersist, Idle, StakeOf
  <2> QED BY <2>1, <2>2
<1> QED BY <1>2, <1>4, <1>10, <1>11 DEF RestInv

LEMMA NextKeepsIInv ==
  ASSUME IInv, Next
  PROVE  IInv'
<1>1. AccountsInv(Places)' /\ AccountsPersist
  BY StepsAreAccountSteps, AccountStepKeeps DEF IInv
<1> SUFFICES RestInv'
  BY <1>1 DEF IInv, RestInv
<1>2. CASE Drift /\ Elsewhere /\ UNCHANGED pending
  BY <1>1, <1>2, DriftKeeps DEF Elsewhere
<1>3. ASSUME NEW p \in DOMAIN position, NEW call \in Calls, NEW amount \in Amounts,
             deposit(p, call, amount) \/ withdraw(p, call, amount)
      PROVE  RestInv'
  BY <1>1, <1>3, DepositKeeps, WithdrawKeeps
<1>4. ASSUME UNCHANGED <<market, stake, asked>>, pending' \in [DOMAIN position' -> U64],
             \A p \in DOMAIN position : pending'[p] = pending[p]
      PROVE  RestInv'
  <2>1. DriftInv'
    BY <1>4 DEF IInv, DriftInv, StakesTypeOK, RequestsAreHeld, SharesAreOwned
  <2>2. AskedOK' /\ PendingIsRecorded'
    BY <1>1, <1>4, RequestsUntouched DEF IInv, AskedOK
  <2> QED BY <1>4, <2>1, <2>2 DEF RestInv
<1>5. ASSUME NEW p \in Openings, NEW place \in Places,
             initialize_position(p.owner, p.config, place)
      PROVE  RestInv'
  <2>1. /\ pending' = [q \in DOMAIN position' |-> IF q \in DOMAIN pending THEN pending[q] ELSE 0]
        /\ UNCHANGED <<market, stake, asked>>
    BY <1>5, OpeningIsCreation
  <2>2. DOMAIN pending = DOMAIN position /\ 0 \in U64 /\ DOMAIN position \subseteq DOMAIN position'
        /\ \A q \in DOMAIN pending : pending[q] \in U64
    BY <1>1, AccountsConstants DEF IInv, AccountsPersist, U64
  <2>3. /\ pending' \in [DOMAIN position' -> U64]
        /\ \A q \in DOMAIN position : pending'[q] = pending[q]
    BY <2>1, <2>2
  <2> QED BY <1>4, <2>1, <2>3
<1>6. ASSUME UNCHANGED <<position, pending, market, stake, asked>>
      PROVE  RestInv'
  BY <1>4, <1>6 DEF IInv
<1>7. ASSUME NEW mint \in Mints, NEW program \in Programs, NEW version \in Versions,
             initialize_config(mint, program, version)
      PROVE  RestInv'
  BY <1>6, <1>7 DEF initialize_config, CreateConfig, external
<1>8. ASSUME NEW p \in DOMAIN position, NEW call \in Calls, current_value(p, call)
      PROVE  RestInv'
  BY <1>6, <1>8 DEF current_value, Report, external
<1> QED BY <1>2, <1>3, <1>5, <1>7, <1>8 DEF Next, Adapter

-----------------------------------------------------------------------------
(* The values reported.                                                    *)

(* A value is the stake's part of the vault, to within a unit for each of  *)
(* the two parts it is the sum of.                                         *)
IsThePart(value, v, m) ==
  LET exact == v.if_shares * m.vault
      kept == (v.if_shares - v.request_shares) * m.vault IN
  /\ value * m.total_shares <= exact
  /\ (value - v.request_value) * m.total_shares <= kept
  /\ \/ m.total_shares = 0 /\ value = 0
     \/ exact < (value + 1) * m.total_shares
     \/ /\ v.request_shares > 0
        /\ \/ exact < (value + 2) * m.total_shares
           \/ kept < (value - v.request_value + 1) * m.total_shares

LEMMA LeastIs ==
  ASSUME NEW b \in Nat, NEW cap \in Nat
  PROVE  LET c == Least(b, cap) IN
         c \in Nat /\ c <= b /\ c <= cap /\ (c = b \/ (c = cap /\ cap < b))
BY DEF Least

(* The same of numbers: a and b are the worths of the shares kept and of   *)
(* those asked back, which are capped.                                     *)
LEMMA SumOfParts ==
  ASSUME NEW a \in Nat, NEW b \in Nat, NEW cap \in Nat, NEW total \in Nat \ {0},
         NEW kept \in Nat, NEW requested \in Nat,
         a * total <= kept, kept < (a + 1) * total,
         b * total <= requested, requested < (b + 1) * total
  PROVE  LET value == a + Least(b, cap) IN
         /\ value * total <= kept + requested
         /\ (value - cap) * total <= kept
         /\ requested = 0 => kept + requested < (value + 1) * total
         /\ \/ kept + requested < (value + 2) * total
            \/ requested > 0 /\ kept < (value - cap + 1) * total
<1> DEFINE c == Least(b, cap)
           value == a + c
           at == a * total
           bt == b * total
           ct == c * total
<1>1. c \in Nat /\ c <= b /\ c <= cap /\ (c = b \/ (c = cap /\ cap < b))
  BY LeastIs
<1> HIDE DEF c
<1>2. at \in Nat /\ bt \in Nat /\ ct \in Nat
  BY <1>1
<1>3. ct <= bt
  BY <1>1, ProductsOrdered
<1>4. (a + 1) * total = at + total /\ (b + 1) * total = bt + total
  OBVIOUS
<1>5. /\ value * total = at + ct /\ (value + 1) * total = at + ct + total
      /\ (value + 2) * total = at + ct + total + total
  BY <1>1
<1>6. (value - cap) * total <= at
  <2>1. value - cap \in Int /\ value - cap <= a
    BY <1>1
  <2> HIDE DEF value
  <2> QED BY <2>1, ProductsOrdered
<1>7. at <= kept /\ bt <= requested /\ kept < at + total /\ requested < bt + total
  BY <1>4
<1>8. c # b => (value - cap + 1) * total = at + total
  <2> SUFFICES ASSUME c # b PROVE (value - cap + 1) * total = at + total
    OBVIOUS
  <2>1. value - cap + 1 = a + 1
    BY <1>1
  <2> QED BY <1>4, <2>1
<1>9. c = b => ct = bt
  OBVIOUS
<1>10. c # b => bt > 0
  <2> SUFFICES ASSUME c # b PROVE bt > 0
    OBVIOUS
  <2>1. 1 <= b
    BY <1>1
  <2>2. 1 * total <= bt
    BY <2>1, ProductsOrdered
  <2> QED BY <2>2
<1> DEFINE v0 == value * total
           v1 == (value + 1) * total
           v2 == (value + 2) * total
           l0 == (value - cap) * total
           l1 == (value - cap + 1) * total
<1>11. /\ v0 = at + ct /\ v1 = at + ct + total /\ v2 = at + ct + total + total
       /\ l0 <= at /\ l0 \in Int /\ (c # b => l1 = at + total)
  BY <1>1, <1>5, <1>6, <1>8
<1> SUFFICES /\ v0 <= kept + requested /\ l0 <= kept
             /\ requested = 0 => kept + requested < v1
             /\ kept + requested < v2 \/ (requested > 0 /\ kept < l1)
  BY DEF c
<1> HIDE DEF v0, v1, v2, l0, l1, at, bt, ct, value
<1>12. v0 <= kept + requested
  BY <1>2, <1>3, <1>7, <1>11
<1>13. l0 <= kept
  BY <1>2, <1>7, <1>11
<1>14. requested = 0 => kept + requested < v1
  BY <1>2, <1>7, <1>11
<1>15. kept + requested < v2 \/ (requested > 0 /\ kept < l1)
  BY <1>2, <1>7, <1>9, <1>10, <1>11
<1> QED BY <1>12, <1>13, <1>14, <1>15

LEMMA ValueIsThePart ==
  ASSUME NEW v \in Stake, NEW m \in Market,
         v.request_shares <= v.if_shares, v.if_shares <= m.total_shares
  PROVE  read_drift_if_value(v, m) \in Nat /\ IsThePart(read_drift_if_value(v, m), v, m)
<1> DEFINE total == m.total_shares
           vault == m.vault
           shares == v.if_shares
           asks == v.request_shares
           rest == shares - asks
           cap == v.request_value
           a == shares_to_amount(rest, total, vault)
           b == shares_to_amount(asks, total, vault)
           kept == rest * vault
           requested == asks * vault
           value == a + Least(b, cap)
<1>1. /\ total \in Nat /\ vault \in Nat /\ shares \in Nat /\ asks \in Nat /\ cap \in Nat
      /\ rest \in Nat /\ asks <= shares /\ shares <= total
  BY AccountsConstants DEF Stake, Market, U64
<1>2. read_drift_if_value(v, m) = value
  BY DEF read_drift_if_value
<1>3. shares * vault = kept + requested /\ kept \in Nat /\ requested \in Nat
  <2>1. shares = rest + asks
    BY <1>1
  <2> HIDE DEF rest, shares, asks, vault
  <2>2. (rest + asks) * vault = rest * vault + asks * vault
    BY <1>1
  <2> QED BY <1>1, <2>1, <2>2
<1>4. asks = 0 => requested = 0
  BY <1>1
<1> DEFINE Part(x) ==
      /\ x * total <= kept + requested
      /\ (x - cap) * total <= kept
      /\ \/ total = 0 /\ x = 0
         \/ kept + requested < (x + 1) * total
         \/ /\ asks > 0
            /\ \/ kept + requested < (x + 2) * total
               \/ kept < (x - cap + 1) * total
<1> SUFFICES value \in Nat /\ Part(value)
  BY <1>2, <1>3 DEF IsThePart
<1> HIDE DEF total, vault, shares, asks, rest, cap
<1>5. /\ a \in Nat /\ a * total <= kept
      /\ IF total = 0 THEN a = 0 ELSE kept < (a + 1) * total
  BY <1>1, Worth
<1>6. /\ b \in Nat /\ b * total <= requested
      /\ IF total = 0 THEN b = 0 ELSE requested < (b + 1) * total
  BY <1>1, Worth
<1> HIDE DEF a, b, kept, requested
<1>7. value \in Nat
  BY <1>1, <1>5, <1>6 DEF Least
<1>8. CASE total = 0
  <2>1. value = 0
    BY <1>1, <1>5, <1>6, <1>8 DEF Least
  <2> HIDE DEF value
  <2> QED BY <1>1, <1>3, <1>8, <2>1
<1>9. CASE total # 0
  <2>1. total \in Nat \ {0} /\ kept < (a + 1) * total /\ requested < (b + 1) * total
    BY <1>1, <1>5, <1>6, <1>9
  <2>2. /\ value * total <= kept + requested
        /\ (value - cap) * total <= kept
        /\ requested = 0 => kept + requested < (value + 1) * total
        /\ \/ kept + requested < (value + 2) * total
           \/ requested > 0 /\ kept < (value - cap + 1) * total
    BY <1>1, <1>3, <1>5, <1>6, <2>1, SumOfParts
  <2> HIDE DEF value
  <2> DEFINE one == kept + requested < (value + 1) * total
             two == kept + requested < (value + 2) * total
             less == kept < (value - cap + 1) * total
  <2>3. (requested = 0 => one) /\ (two \/ (requested > 0 /\ less))
    BY <2>2
  <2> HIDE DEF one, two, less
  <2>4. one \/ (asks > 0 /\ (two \/ less))
    BY <1>1, <1>3, <1>4, <2>3
  <2> QED BY <1>7, <2>2, <2>4 DEF one, two, less
<1> QED BY <1>8, <1>9

(* An announcement about a stake and its market as the step leaves them.   *)
LEMMA AnnouncementIsRight ==
  ASSUME DriftInv', NEW p, NEW s, s \in DOMAIN stake', event'.kind # "none",
         event'.position = p, position'[p].place.insurance_fund_stake = s,
         event'.shares = stake'[s].if_shares, event'.value = ValueAfter(s)
  PROVE  ReportsTheStake'
<1> DEFINE v == stake'[s]
           m == market'[s.market]
<1>1. /\ s \in Stakes /\ s.market \in Markets
      /\ v.if_shares <= m.total_shares /\ v.request_shares <= v.if_shares
  <2>1. /\ StakesTypeOK(stake') /\ s \in Stakes /\ s.market \in Markets
        /\ IsFiniteSet(Units(stake', s.market))
        /\ Owned(stake', s.market) = m.total_shares
        /\ v.request_shares <= v.if_shares
    BY DEF DriftInv, Stakes, SharesAreOwned, RequestsAreHeld
  <2> QED BY <2>1, StakeWithinMarket
<1>2. v \in Stake /\ m \in Market
  BY <1>1 DEF DriftInv, StakesTypeOK
<1>3. IsThePart(event'.value, v, m)
  BY <1>1, <1>2, ValueIsThePart DEF ValueAfter
<1>4. (StakeOf(event.position))' = s
  BY DEF StakeOf
<1> QED BY <1>3, <1>4 DEF ReportsTheStake, IsThePart, StakeOf

LEMMA NextReports ==
  ASSUME IInv, Next
  PROVE  ReportsTheStake'
<1>1. DriftInv' /\ AccountsPersist
  BY NextKeepsIInv, StepsAreAccountSteps, AccountStepKeeps DEF IInv
<1>2. ASSUME NEW p \in DOMAIN position, NEW call \in Calls, NEW amount \in Amounts,
             deposit(p, call, amount) \/ withdraw(p, call, amount)
      PROVE  ReportsTheStake'
  <2> DEFINE s == call.stake
  <2>1. validate_value_accounts(p, call) /\ DOMAIN stake' = DOMAIN stake
    BY <1>2, DepositMoves, WithdrawMoves, AddMoves, RequestMoves DEF IInv
  <2>2. s \in DOMAIN stake' /\ position'[p].place.insurance_fund_stake = s
    BY <1>1, <2>1, CallIsTheOwners DEF AccountsPersist, StakeOf
  <2>3. /\ event'.kind # "none" /\ event'.position = p
        /\ event'.shares = stake'[s].if_shares /\ event'.value = ValueAfter(s)
    <3>1. CASE deposit(p, call, amount)
      <4>1. RecordDeposit(p, call.signer, amount, stake'[s].if_shares, ValueAfter(s))
        BY <3>1, DepositMoves
      <4> QED BY <4>1 DEF RecordDeposit, Record
    <3>2. CASE withdraw(p, call, amount)
      <4>1. RecordWithdraw(p, call.signer, amount, stake'[s].if_shares, ValueAfter(s))
        BY <3>2, WithdrawMoves
      <4> QED BY <4>1 DEF RecordWithdraw, Record
    <3> QED BY <1>2, <3>1, <3>2
  <2> QED BY <1>1, <2>2, <2>3, AnnouncementIsRight
<1>3. ASSUME NEW p \in DOMAIN position, NEW call \in Calls, current_value(p, call)
      PROVE  ReportsTheStake'
  <2> DEFINE s == call.stake
  <2>1. /\ validate_value_accounts(p, call) /\ stake' = stake /\ market' = market
        /\ Report(p, call.signer, stake[s].if_shares, ValueNow(s))
    BY <1>3, CurrentValueTells
  <2>2. s \in DOMAIN stake' /\ position'[p].place.insurance_fund_stake = s
    BY <1>1, <2>1, CallIsTheOwners DEF AccountsPersist, StakeOf
  <2>3. /\ event'.kind # "none" /\ event'.position = p
        /\ event'.shares = stake'[s].if_shares /\ event'.value = ValueAfter(s)
    BY <2>1 DEF Report, ValueNow, ValueAfter
  <2> QED BY <1>1, <2>2, <2>3, AnnouncementIsRight
<1>4. ASSUME Silent
      PROVE  ReportsTheStake'
  BY <1>4 DEF Silent, NoEvent, ReportsTheStake
<1> QED BY <1>2, <1>3, <1>4
        DEF Next, Adapter, Elsewhere, initialize_config, CreateConfig, initialize_position,
            CreatePosition

-----------------------------------------------------------------------------
(* What asking for a withdrawal leaves of the value.                       *)

(* Of numbers: c is the worth of the shares before, a and b those of the   *)
(* shares kept and asked back, which are capped a unit below the vault.    *)
LEMMA SplitInTwo ==
  ASSUME NEW a \in Nat, NEW b \in Nat, NEW c \in Nat, NEW total \in Nat \ {0},
         NEW kept \in Nat, NEW requested \in Nat, NEW vault \in Nat \ {0},
         a * total <= kept, kept < (a + 1) * total,
         b * total <= requested, requested < (b + 1) * total,
         c * total <= kept + requested, kept + requested < (c + 1) * total,
         c <= vault
  PROVE  LET value == a + Least(b, vault - 1) IN
         value <= c /\ c <= value + 1
<1>1. a + b <= c
  <2> SUFFICES ASSUME c < a + b PROVE FALSE
    OBVIOUS
  <2>1. (c + 1) * total <= (a + b) * total
    BY ProductsOrdered
  <2>2. (a + b) * total = a * total + b * total
    OBVIOUS
  <2> DEFINE x == (c + 1) * total
             y == (a + b) * total
             at == a * total
             bt == b * total
  <2>3. x <= y /\ y = at + bt /\ at <= kept /\ bt <= requested /\ kept + requested < x
        /\ x \in Int /\ y \in Int /\ at \in Int /\ bt \in Int
    BY <2>1, <2>2
  <2> HIDE DEF x, y, at, bt
  <2> QED BY <2>3
<1>2. c <= a + b + 1
  <2> SUFFICES ASSUME a + b + 2 <= c PROVE FALSE
    OBVIOUS
  <2>1. (a + b + 2) * total <= c * total
    BY ProductsOrdered
  <2>2. (a + b + 2) * total = (a + 1) * total + (b + 1) * total
    OBVIOUS
  <2> DEFINE x == c * total
             y == (a + b + 2) * total
             at == (a + 1) * total
             bt == (b + 1) * total
  <2>3. y <= x /\ y = at + bt /\ kept < at /\ requested < bt /\ x <= kept + requested
        /\ x \in Int /\ y \in Int /\ at \in Int /\ bt \in Int
    BY <2>1, <2>2
  <2> HIDE DEF x, y, at, bt
  <2> QED BY <2>3
<1> DEFINE d == Least(b, vault - 1)
<1>3. d \in Nat /\ d <= b /\ (d = b \/ d = vault - 1)
  <2>1. vault - 1 \in Nat
    OBVIOUS
  <2> QED BY <2>1, LeastIs
<1> HIDE DEF d
<1>4. a + d <= c /\ c <= a + d + 1
  BY ONLY a \in Nat, b \in Nat, c \in Nat, vault \in Nat, c <= vault, <1>1, <1>2, <1>3
<1> QED BY <1>4 DEF d

(* A stake with no request open is worth as much just after one is made,   *)
(* but for one unit.                                                       *)
LEMMA RequestKeepsTheWorth ==
  ASSUME NEW v \in Stake, NEW w \in Stake, NEW m \in Market, m.vault > 0,
         v.request_shares = 0, v.if_shares <= m.total_shares,
         w.if_shares = v.if_shares,
         w.request_shares \in Nat \ {0}, w.request_shares <= v.if_shares,
         w.request_value
           = Least(shares_to_amount(w.request_shares, m.total_shares, m.vault), m.vault - 1)
  PROVE  /\ read_drift_if_value(w, m) <= read_drift_if_value(v, m)
         /\ read_drift_if_value(v, m) <= read_drift_if_value(w, m) + 1
<1> DEFINE total == m.total_shares
           vault == m.vault
           shares == v.if_shares
           asks == w.request_shares
           rest == shares - asks
           a == shares_to_amount(rest, total, vault)
           b == shares_to_amount(asks, total, vault)
           c == shares_to_amount(shares, total, vault)
           none == shares_to_amount(0, total, vault)
           cap == v.request_value
           low == Least(b, vault - 1)
           kept == rest * vault
           requested == asks * vault
<1>1. /\ total \in Nat /\ vault \in Nat \ {0} /\ shares \in Nat /\ asks \in Nat \ {0}
      /\ rest \in Nat /\ asks <= shares /\ shares <= total /\ cap \in Nat
  BY AccountsConstants DEF Stake, Market, U64
<1>2. read_drift_if_value(w, m) = a + Least(b, low)
  BY DEF read_drift_if_value
<1>3. read_drift_if_value(v, m) = c + Least(none, cap)
  <2>1. shares - v.request_shares = shares
    BY <1>1
  <2> QED BY <2>1 DEF read_drift_if_value
<1>4. total \in Nat \ {0} /\ shares * vault = kept + requested /\ kept \in Nat /\ requested \in Nat
  <2>1. shares = rest + asks
    BY <1>1
  <2> HIDE DEF rest, shares, asks, vault, total
  <2>2. (rest + asks) * vault = rest * vault + asks * vault
    BY <1>1
  <2>3. total # 0
    BY <1>1
  <2> QED BY <1>1, <2>1, <2>2, <2>3
<1> SUFFICES a + Least(b, low) <= c + Least(none, cap) /\ c + Least(none, cap) <= a + Least(b, low) + 1
  BY <1>2, <1>3
<1> HIDE DEF total, vault, shares, asks, rest, cap
<1>5. a \in Nat /\ a * total <= kept /\ kept < (a + 1) * total
  BY <1>1, <1>4, Worth
<1>6. b \in Nat /\ b * total <= requested /\ requested < (b + 1) * total
  BY <1>1, <1>4, Worth
<1>7. c \in Nat /\ c * total <= kept + requested /\ kept + requested < (c + 1) * total
      /\ c <= vault
  <2>1. /\ c \in Nat /\ c * total <= shares * vault /\ shares * vault < (c + 1) * total
        /\ c <= vault
    BY <1>1, <1>4, Worth
  <2> DEFINE whole == shares * vault
  <2> HIDE DEF whole, kept, requested, c
  <2>2. c * total <= whole /\ whole < (c + 1) * total /\ whole = kept + requested
    BY <1>4, <2>1 DEF whole
  <2> QED BY <2>1, <2>2
<1>8. none = 0
  <2>1. none = (0 * vault) \div total /\ 0 * vault = 0
    BY <1>1, <1>4 DEF shares_to_amount
  <2>2. none = 0 \div total
    BY <2>1
  <2> HIDE DEF none
  <2> QED BY <1>4, <2>2
<1> HIDE DEF a, b, c, none, kept, requested
<1>9. Least(none, cap) = 0
  BY <1>1, <1>8 DEF Least
<1>10. Least(b, low) = low
  BY <1>1, <1>6 DEF Least
<1>11. a + low <= c /\ c <= a + low + 1
  BY <1>1, <1>4, <1>5, <1>6, <1>7, SplitInTwo
<1> QED BY <1>7, <1>9, <1>10, <1>11

RequestKeepsTheValue ==
  event'.kind = "withdraw" =>
    LET s == StakeOf(event'.position)
        m == market[s.market] IN
    /\ event'.shares = stake[s].if_shares
    /\ event'.value <= ValueNow(s) /\ ValueNow(s) <= event'.value + 1
    /\ market' = market

LEMMA NextKeepsTheValue ==
  ASSUME IInv, Next
  PROVE  RequestKeepsTheValue
<1>1. ASSUME NEW p \in DOMAIN position, NEW call \in Calls, NEW amount \in Amounts,
             withdraw(p, call, amount)
      PROVE  RequestKeepsTheValue
  <2> DEFINE s == call.stake
             m == market[s.market]
             v == stake[s]
             w == stake'[s]
  <2>1. /\ amount \in Nat /\ validate_value_accounts(p, call)
        /\ request_remove_insurance_fund_stake(s, amount)
        /\ RecordWithdraw(p, call.signer, amount, w.if_shares, ValueAfter(s))
    BY <1>1, WithdrawMoves
  <2>2. StakeOf(p) = s
    BY <2>1, CallIsTheOwners
  <2>3. /\ DriftInv' /\ market' = market /\ s \in DOMAIN stake /\ v.request_shares = 0
        /\ DOMAIN stake' = DOMAIN stake /\ m.vault > 0
        /\ w.if_shares = v.if_shares
        /\ w.request_shares \in Nat \ {0} /\ w.request_shares <= v.if_shares
        /\ w.request_value
             = Least(shares_to_amount(w.request_shares, m.total_shares, m.vault), m.vault - 1)
    BY <2>1, RequestMoves DEF IInv, Idle
  <2>4. v \in Stake /\ w \in Stake /\ m \in Market /\ v.if_shares <= m.total_shares
    BY <2>3, MarketOfStake DEF IInv, DriftInv, StakesTypeOK
  <2>5. /\ read_drift_if_value(w, m) <= read_drift_if_value(v, m)
        /\ read_drift_if_value(v, m) <= read_drift_if_value(w, m) + 1
    BY <2>3, <2>4, RequestKeepsTheWorth
  <2>6. /\ event'.position = p /\ event'.shares = w.if_shares
        /\ event'.value = read_drift_if_value(w, m)
    BY <2>1, <2>3 DEF RecordWithdraw, Record, ValueAfter
  <2> QED BY <2>2, <2>3, <2>5, <2>6 DEF RequestKeepsTheValue, ValueNow
<1>2. ASSUME event'.kind # "withdraw"
      PROVE  RequestKeepsTheValue
  BY <1>2 DEF RequestKeepsTheValue
<1>3. ASSUME Silent
      PROVE  RequestKeepsTheValue
  BY <1>2, <1>3 DEF Silent, NoEvent
<1>4. ASSUME NEW p \in DOMAIN position, NEW call \in Calls, NEW amount \in Amounts,
             deposit(p, call, amount)
      PROVE  RequestKeepsTheValue
  BY <1>2, <1>4 DEF deposit, RecordDeposit, Record
<1>5. ASSUME Elsewhere \/ (\E mint \in Mints, program \in Programs, version \in Versions :
                             initialize_config(mint, program, version))
             \/ (\E p \in Openings, place \in Places :
                   initialize_position(p.owner, p.config, place))
      PROVE  RequestKeepsTheValue
  BY <1>3, <1>5 DEF Elsewhere, initialize_config, CreateConfig, initialize_position,
                    CreatePosition
<1>6. ASSUME NEW p \in DOMAIN position, NEW call \in Calls, current_value(p, call)
      PROVE  RequestKeepsTheValue
  BY <1>2, <1>6 DEF current_value, Report
<1> QED BY <1>1, <1>4, <1>5, <1>6 DEF Next, Adapter

-----------------------------------------------------------------------------
(* The theorems.                                                           *)

LEMMA PendingStutter ==
  ASSUME PendingIsRecorded, UNCHANGED <<position, pending, stake, asked>>
  PROVE  PendingIsRecorded'
BY DEF PendingIsRecorded, Idle, StakeOf

LEMMA StutterKeeps ==
  ASSUME IInv, UNCHANGED vars
  PROVE  IInv'
<1>1. /\ UNCHANGED <<config, position, event, pending, market, stake, asked>>
      /\ AccountsInv(Places) /\ DriftInv /\ AskedOK /\ PendingIsRecorded
      /\ pending \in [DOMAIN position -> U64]
  BY DEF IInv, vars
<1>2. AccountsInv(Places)'
  BY <1>1, AccountsStutter
<1>3. DriftInv'
  BY <1>1 DEF DriftInv, StakesTypeOK, RequestsAreHeld, SharesAreOwned
<1>4. AskedOK'
  BY <1>1 DEF AskedOK
<1>5. PendingIsRecorded'
  BY <1>1, PendingStutter
<1> QED BY <1>1, <1>2, <1>3, <1>4, <1>5 DEF IInv

LEMMA Inductive == Spec => [](IInv /\ ReportsTheStake)
<1>1. Init => IInv /\ ReportsTheStake
  BY InitIInv DEF Init, NoAccounts, NoEvent, ReportsTheStake
<1>2. IInv /\ ReportsTheStake /\ [Next]_vars => (IInv /\ ReportsTheStake)'
  <2> SUFFICES ASSUME IInv, ReportsTheStake, [Next]_vars
               PROVE  IInv' /\ ReportsTheStake'
    OBVIOUS
  <2>1. CASE Next
    BY <2>1, NextKeepsIInv, NextReports
  <2>2. CASE UNCHANGED vars
    <3>1. IInv'
      BY <2>2, StutterKeeps
    <3>2. ReportsTheStake'
      <4>1. UNCHANGED <<event, position, stake, market>>
        BY <2>2 DEF vars
      <4>2. StakeOf(event.position)' = StakeOf(event.position)
        BY <4>1 DEF StakeOf
      <4> QED BY <4>1, <4>2 DEF ReportsTheStake
    <3> QED BY <3>1, <3>2
  <2> QED BY <2>1, <2>2
<1> QED BY <1>1, <1>2, PTL DEF Spec

(* The accounts and Drift's markets and stakes keep their types: in        *)
(* particular no market is left with fewer shares than it is asked for.    *)
THEOREM TypeCorrect == Spec => []TypeOK
<1>1. IInv => TypeOK
  BY DEF IInv, AccountsInv, DriftInv, StakesTypeOK, Stake, Market, AskedOK, TypeOK
<1> QED BY <1>1, Inductive, PTL

(* Whatever the adapter reports is the owner's part of the vault, to       *)
(* within a unit, or two with a request open (lib.rs:760-800).             *)
THEOREM ReportsCorrect == Spec => []ReportsTheStake
BY Inductive, PTL

(* An open request's amount is pending on the position that made it, and   *)
(* Drift pays no more for it (lib.rs:174-181, 239-242).                    *)
THEOREM PendingCorrect == Spec => []PendingIsRecorded
<1>1. IInv => PendingIsRecorded
  BY DEF IInv
<1> QED BY <1>1, Inductive, PTL

(* Asking for a withdrawal moves nothing yet: the value told with it is    *)
(* that of before, but for one unit (lib.rs:233-242, 760-800).             *)
THEOREM RequestsCorrect == Spec => RequestsKeepTheValue
<1>1. IInv /\ [Next]_vars => [RequestKeepsTheValue]_vars
  BY NextKeepsTheValue
<1>2. Spec => [][RequestKeepsTheValue]_vars
  BY <1>1, Inductive, PTL DEF Spec
<1> QED BY <1>2 DEF RequestKeepsTheValue, RequestsKeepTheValue

(* The adapter implements the promise of every adapter; its withdrawals    *)
(* are requests, which leave the booked amount alone.                      *)
THEOREM DriftImplementsYieldAdapter == Spec => ImplementsYieldAdapter
<1>1. Init => Abstract!Init
  BY AccountsInitMaps DEF Init
<1>2. IInv /\ [Next]_vars => [Abstract!Next]_<<Booked, event>>
  <2>1. ASSUME IInv, Next PROVE Abstract!Next
    BY <2>1, StepsAreAccountSteps, AccountStepMaps DEF IInv
  <2>2. UNCHANGED vars => UNCHANGED <<Booked, event>>
    BY DEF vars, Booked
  <2> QED BY <2>1, <2>2
<1>3. Spec => Abstract!Init /\ [][Abstract!Next]_<<Booked, event>>
  BY <1>1, <1>2, Inductive, PTL DEF Spec
<1> QED BY <1>3 DEF ImplementsYieldAdapter, Abstract!Spec
=============================================================================
