------------------------------ MODULE MCDrift -------------------------------
(* Two users with a stake each in one market.  One opens positions in two  *)
(* versions of the configuration, which share a stake; the other only uses *)
(* Drift directly, and signs for what is not theirs.                       *)
EXTENDS DriftInsuranceFund, TLC

CONSTANTS u1, u2, usdc, usdt, drift, fake, spl, v0, v1

MCUsers == {u1, u2}
MCOpenings == {PositionAddress(ConfigAddress(usdc, v), u1) : v \in {1, 2}}
MCMarkets == {0}
MCMarketFacts == [i \in MCMarkets |-> [mint |-> usdc, vault |-> v0, token_program |-> spl]]

Right(u) ==
  [signer |-> u, mint |-> usdc, program |-> drift,
   spot_market |-> derive_spot_market(drift, 0), stake |-> derive_insurance_fund_stake(drift, u, 0),
   user_stats |-> derive_user_stats(drift, u), vault |-> derive_insurance_fund_vault(drift, 0),
   state |-> [program |-> drift], spot_market_vault |-> v0, drift_signer |-> DriftSigner(drift),
   wallet |-> [program |-> spl, mint |-> usdc, owner |-> u], token_program |-> spl]

(* The accounts every instruction wants, and such lists with one flaw.     *)
MCCalls ==
  LET rights == {Right(u) : u \in MCUsers} IN
  rights \cup
  {[g EXCEPT !.signer = u] : g \in rights, u \in MCUsers} \cup
  UNION {
    {[g EXCEPT !.mint = usdt], [g EXCEPT !.vault.program = fake],
     [g EXCEPT !.user_stats.program = fake], [g EXCEPT !.spot_market_vault = v1],
     [g EXCEPT !.wallet.mint = usdt]} : g \in rights}

(* What stale fields of a position hold matters to no step and no property. *)
View ==
  <<config, [p \in DOMAIN position |-> <<position[p].place, position[p].deposited_amount>>],
    event, pending, market, stake, asked>>
=============================================================================
