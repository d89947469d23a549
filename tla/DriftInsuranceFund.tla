------------------------- MODULE DriftInsuranceFund -------------------------
(***************************************************************************)
(* The Drift adapter (programs/adapters/drift-insurance-fund).  A position *)
(* is bound to its owner's insurance fund stake in one market; a deposit   *)
(* stakes, a withdrawal only asks Drift to unstake, and the owner collects *)
(* at Drift later.  External: Drift, whose stakes are shares of a market's *)
(* vault, which gains and loses; a stake has one request open at a time    *)
(* and takes no deposit then; its owner may also use it directly.          *)
(***************************************************************************)
EXTENDS AdapterAccounts

CONSTANTS
  Markets,      \* market indices
  MarketFacts,  \* mint, vault and token program of each spot market
  Openings,     \* positions that their owners may open
  Amounts,      \* amounts asked for
  Calls         \* account lists an instruction may be given

ASSUME DriftConstants ==
  /\ ~ Settles
  /\ Openings \subseteq Positions /\ Amounts \subseteq U64
  /\ \A call \in Calls : call.signer \in Users

VARIABLES
  pending,  \* pending_withdraw_amount of each position
  market,   \* Drift: shares and vault amount of each market
  stake,    \* Drift: shares, and those and the amount requested, of each stake
  asked     \* history: positions and amounts of the adapter's open requests

external == <<market, stake, asked>>
vars == <<config, position, event, pending, market, stake, asked>>

-----------------------------------------------------------------------------
(* Addresses that Drift derives.                                           *)

derive_spot_market(program, index) ==
  [seed |-> "spot_market", program |-> program, market |-> index]
derive_insurance_fund_vault(program, index) ==
  [seed |-> "insurance_fund_vault", program |-> program, market |-> index]
derive_insurance_fund_stake(program, owner, index) ==
  [program |-> program, owner |-> owner, market |-> index]
derive_user_stats(program, owner) == [program |-> program, owner |-> owner]
DriftSigner(program) == [seed |-> "drift_signer", program |-> program]

Stakes == [program: Programs, owner: Users, market: Markets]
Places == [market_index: Markets, insurance_fund_stake: Stakes,
           user_stats: [program: Programs, owner: Users]]

-----------------------------------------------------------------------------
(* Drift.                                                                  *)

Least(a, b) == IF a < b THEN a ELSE b

shares_to_amount(shares, total_shares, vault_amount) ==
  IF total_shares = 0 THEN 0 ELSE (shares * vault_amount) \div total_shares

SharesFor(amount, m) ==
  IF m.total_shares = 0 THEN amount ELSE (amount * m.total_shares) \div m.vault

Idle(s) == stake[s].request_shares = 0

OpenStake(s) ==
  /\ s \notin DOMAIN stake
  /\ stake' = [t \in DOMAIN stake \cup {s} |->
       IF t = s THEN [if_shares |-> 0, request_shares |-> 0, request_value |-> 0] ELSE stake[t]]
  /\ UNCHANGED <<market, asked>>

(* Nothing can be staked in a market whose vault was emptied. *)
add_insurance_fund_stake(s, amount) ==
  LET m == market[s.market] IN
  /\ s \in DOMAIN stake /\ Idle(s)
  /\ m.vault = 0 => m.total_shares = 0
  /\ m.vault + amount <= MaxU64 /\ m.total_shares + SharesFor(amount, m) <= MaxU64
  /\ stake' = [stake EXCEPT ![s].if_shares = @ + SharesFor(amount, m)]
  /\ market' = [market EXCEPT ![s.market] =
       [total_shares |-> m.total_shares + SharesFor(amount, m), vault |-> m.vault + amount]]

(* A request may not be for the last unit of the vault. *)
request_remove_insurance_fund_stake(s, amount) ==
  LET m == market[s.market]
      n == SharesFor(amount, m) IN
  /\ s \in DOMAIN stake /\ Idle(s)
  /\ m.vault > 0 /\ n > 0 /\ n <= stake[s].if_shares
  /\ stake' = [stake EXCEPT ![s].request_shares = n,
       ![s].request_value = Least(shares_to_amount(n, m.total_shares, m.vault), m.vault - 1)]
  /\ UNCHANGED market

Settled(s) == asked' = [t \in DOMAIN asked \ {s} |-> asked[t]]

Remove(s) ==
  LET m == market[s.market]
      n == stake[s].request_shares
      paid == Least(stake[s].request_value, shares_to_amount(n, m.total_shares, m.vault)) IN
  /\ ~ Idle(s)
  /\ stake' = [stake EXCEPT ![s] =
       [if_shares |-> @.if_shares - n, request_shares |-> 0, request_value |-> 0]]
  /\ market' = [market EXCEPT ![s.market] =
       [total_shares |-> m.total_shares - n, vault |-> m.vault - paid]]
  /\ Settled(s)

(* Whoever cancels forgoes what the requested shares gained meanwhile. *)
Cancel(s, lost) ==
  /\ ~ Idle(s) /\ lost <= stake[s].request_shares
  /\ stake' = [stake EXCEPT ![s] =
       [if_shares |-> @.if_shares - lost, request_shares |-> 0, request_value |-> 0]]
  /\ market' = [market EXCEPT ![s.market].total_shares = @ - lost]
  /\ Settled(s)

GainOrLose(index, amount) ==
  /\ market' = [market EXCEPT ![index].vault = amount]
  /\ UNCHANGED <<stake, asked>>

-----------------------------------------------------------------------------
(* Validation and valuation.                                               *)

validate_common_drift_accounts(p, call) ==
  LET place == position[p].place IN
  /\ call.spot_market = derive_spot_market(call.program, place.market_index)
  /\ call.stake \in DOMAIN stake
  /\ call.stake = place.insurance_fund_stake
  /\ call.stake =
       derive_insurance_fund_stake(call.program, position[p].owner, place.market_index)
  /\ MarketFacts[place.market_index].mint = config[p.config].supported_mint
  /\ call.vault = derive_insurance_fund_vault(call.program, place.market_index)

validate_value_accounts(p, call) ==
  /\ validate_owner_and_mint(p, call.signer, call.mint)
  /\ call.program = config[p.config].protocol_program_id
  /\ validate_common_drift_accounts(p, call)

validate_withdraw_accounts(p, call) ==
  validate_value_accounts(p, call) /\ call.user_stats = position[p].place.user_stats

(* The user's USDC account pays; it only needs to be the signer's. *)
validate_deposit_accounts(p, call) ==
  LET facts == MarketFacts[position[p].place.market_index] IN
  /\ validate_withdraw_accounts(p, call)
  /\ call.state.program = call.program
  /\ call.spot_market_vault = facts.vault
  /\ call.drift_signer = DriftSigner(call.program)
  /\ call.wallet = [program |-> call.token_program,
                    mint |-> config[p.config].supported_mint, owner |-> call.signer]
  /\ call.token_program = facts.token_program

(* Mutant: shares asked back count as gone. *)
MutRequestedAreGone(v, m) ==
  shares_to_amount(v.if_shares - v.request_shares, m.total_shares, m.vault)

(* Mutant: shares asked back are not capped at the value they had then. *)
MutRequestedUncapped(v, m) ==
  shares_to_amount(v.if_shares, m.total_shares, m.vault)

(* Shares asked back gain nothing more, but may still lose. *)
read_drift_if_value(v, m) ==
  shares_to_amount(v.if_shares - v.request_shares, m.total_shares, m.vault)
    + Least(shares_to_amount(v.request_shares, m.total_shares, m.vault), v.request_value)

ValueNow(s) == read_drift_if_value(stake[s], market[s.market])
ValueAfter(s) == read_drift_if_value(stake'[s], market'[s.market])

-----------------------------------------------------------------------------
(* The instructions.                                                       *)

initialize_config(supported_mint, protocol_program_id, version) ==
  /\ supported_mint # DefaultPubkey /\ protocol_program_id # DefaultPubkey
  /\ CreateConfig(supported_mint, protocol_program_id, version)
  /\ UNCHANGED <<pending, external>>

initialize_position(owner, configuration, place) ==
  LET program == config[configuration].protocol_program_id IN
  /\ configuration \in DOMAIN config
  /\ place.insurance_fund_stake =
       derive_insurance_fund_stake(program, owner, place.market_index)
  /\ place.user_stats = derive_user_stats(program, owner)
  /\ CreatePosition(owner, configuration, place)
  /\ pending' = [p \in DOMAIN position' |-> IF p \in DOMAIN pending THEN pending[p] ELSE 0]
  /\ UNCHANGED external

deposit(p, call, amount) ==
  /\ amount > 0
  /\ validate_deposit_accounts(p, call)
  /\ add_insurance_fund_stake(call.stake, amount)
  /\ stake'[call.stake].request_shares <= stake'[call.stake].if_shares
  /\ RecordDeposit(p, call.signer, amount, stake'[call.stake].if_shares, ValueAfter(call.stake))
  /\ pending' = [pending EXCEPT ![p] = 0]
  /\ UNCHANGED asked

(* Mutant: amounts requested are added up. *)
MutPendingAdds(p, amount) == pending[p] + amount

PendingAfter(p, amount) == amount

withdraw(p, call, amount) ==
  /\ amount > 0
  /\ validate_withdraw_accounts(p, call)
  /\ request_remove_insurance_fund_stake(call.stake, amount)
  /\ stake'[call.stake].request_shares <= stake'[call.stake].if_shares
  /\ RecordWithdraw(p, call.signer, amount, stake'[call.stake].if_shares, ValueAfter(call.stake))
  /\ pending' = [pending EXCEPT ![p] = PendingAfter(p, amount)]
  /\ asked' = [s \in DOMAIN asked \cup {call.stake} |->
       IF s = call.stake THEN [position |-> p, amount |-> amount] ELSE asked[s]]

current_value(p, call) ==
  /\ validate_value_accounts(p, call)
  /\ stake[call.stake].request_shares <= stake[call.stake].if_shares
  /\ Report(p, call.signer, stake[call.stake].if_shares, ValueNow(call.stake))
  /\ UNCHANGED <<pending, external>>

-----------------------------------------------------------------------------
Init ==
  /\ NoAccounts
  /\ pending = [p \in {} |-> 0]
  /\ market = [index \in Markets |-> [total_shares |-> 0, vault |-> 0]]
  /\ stake = [s \in {} |-> {}]
  /\ asked = [s \in {} |-> {}]

Drift ==
  \/ \E s \in Stakes : OpenStake(s)
  \/ \E s \in DOMAIN stake :
       \/ \E amount \in Amounts :
            /\ amount > 0
            /\ add_insurance_fund_stake(s, amount) \/ request_remove_insurance_fund_stake(s, amount)
            /\ UNCHANGED asked
       \/ Remove(s)
       \/ \E lost \in U64 : Cancel(s, lost)
  \/ \E index \in Markets, amount \in U64 : GainOrLose(index, amount)

Adapter ==
  \/ \E mint \in Mints, program \in Programs, version \in Versions :
       initialize_config(mint, program, version)
  \/ \E p \in Openings, place \in Places : initialize_position(p.owner, p.config, place)
  \/ \E p \in DOMAIN position, call \in Calls :
       \/ \E amount \in Amounts : deposit(p, call, amount) \/ withdraw(p, call, amount)
       \/ current_value(p, call)

Next == (Drift /\ Elsewhere /\ UNCHANGED pending) \/ Adapter

Spec == Init /\ [][Next]_vars

-----------------------------------------------------------------------------
(* Properties.                                                             *)

(* Every account has values of its type, and Drift's are sound. *)
TypeOK ==
  /\ AccountsTypeOK(Places)
  /\ pending \in [DOMAIN position -> U64]
  /\ market \in [Markets -> [total_shares: U64, vault: U64]]
  /\ DOMAIN stake \subseteq Stakes
  /\ stake \in [DOMAIN stake -> [if_shares: U64, request_shares: U64, request_value: U64]]
  /\ DOMAIN asked \subseteq DOMAIN stake
  /\ asked \in [DOMAIN asked -> [position: DOMAIN position, amount: U64]]

StakeOf(p) == position[p].place.insurance_fund_stake

(* Whatever the adapter reports is the owner's part of the vault then:     *)
(* never more than the exact part; short of it by less than a unit, or two *)
(* with a request open, unless the request's value caps what its shares    *)
(* gained (lib.rs:760-800).                                                *)
ReportsTheStake ==
  event.kind # "none" =>
    LET v == stake[StakeOf(event.position)]
        m == market[StakeOf(event.position).market]
        exact == v.if_shares * m.vault
        kept == (v.if_shares - v.request_shares) * m.vault IN
    /\ event.shares = v.if_shares
    /\ event.value * m.total_shares <= exact
    /\ (event.value - v.request_value) * m.total_shares <= kept
    /\ \/ m.total_shares = 0 /\ event.value = 0
       \/ exact < (event.value + 1) * m.total_shares
       \/ /\ v.request_shares > 0
          /\ \/ exact < (event.value + 2) * m.total_shares
             \/ kept < (event.value - v.request_value + 1) * m.total_shares

(* While a request made through a position is open at Drift, that position *)
(* has its amount pending, and no less than Drift will pay for it; neither *)
(* the owner's other positions on the stake nor a deposit can change that  *)
(* (lib.rs:174-181, 239-242).                                              *)
PendingIsRecorded ==
  \A s \in DOMAIN asked :
    /\ ~ Idle(s)
    /\ StakeOf(asked[s].position) = s
    /\ pending[asked[s].position] = asked[s].amount
    /\ stake[s].request_value <= asked[s].amount

(* Asking for a withdrawal moves nothing yet: the value reported with it   *)
(* is the whole stake's, what was asked for included, to within one unit   *)
(* of the value just before it (lib.rs:233-242, 760-800).                  *)
RequestsKeepTheValue ==
  [][event'.kind = "withdraw" =>
       LET s == StakeOf(event'.position)
           m == market[s.market] IN
       /\ event'.shares = stake[s].if_shares
       /\ event'.value <= ValueNow(s) /\ ValueNow(s) <= event'.value + 1
       /\ market' = market]_vars
=============================================================================
