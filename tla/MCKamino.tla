------------------------------ MODULE MCKamino ------------------------------
(* Two users, a reserve of the configured mint and one of another, an      *)
(* account of each one's collateral.  With One = 2 a scaled 1 is half a    *)
(* unit: fees, debts and rates have fractions.                             *)
EXTENDS KaminoUsdc, TLC

CONSTANTS u1, u2, usdc, usdt, klend, fake, spl, r1, r2, m1, sol1, sol2, c1, w1, k1, k2

MCUsers == {u1, u2}
MCTokenAccounts == {c1, w1}
MCTokenFacts ==
  [t \in MCTokenAccounts |-> [program |-> spl, mint |-> IF t = c1 THEN k1 ELSE k2]]
MCInitialTokens == {[t \in MCTokenAccounts |-> [owner |-> u, amount |-> 0]] : u \in MCUsers}
MCReserves == {r1, r2}
MCReserveFacts ==
  [r \in MCReserves |->
     [program |-> klend, market |-> m1, token_program |-> spl,
      mint |-> IF r = r1 THEN usdc ELSE usdt,
      liquidity_supply |-> IF r = r1 THEN sol1 ELSE sol2,
      collateral_mint |-> IF r = r1 THEN k1 ELSE k2]]
None == [interest |-> 0, protocol |-> 0, referrer |-> 0, pending |-> 0]
MCAccruals == {None, [None EXCEPT !.interest = 1], [None EXCEPT !.interest = 2, !.pending = 1]}

Right(u, r, t) ==
  LET facts == MCReserveFacts[r] IN
  [signer |-> u, mint |-> usdc, program |-> klend, reserve |-> r, market |-> facts.market,
   market_authority |-> MarketAuthority(facts.market, klend), liquidity_mint |-> facts.mint,
   liquidity_supply |-> facts.liquidity_supply, collateral_mint |-> facts.collateral_mint,
   liquidity_program |-> spl, collateral_program |-> spl, collateral |-> t,
   liquidity |-> [program |-> spl, mint |-> usdc, owner |-> u], sysvar |-> spl]

(* The accounts every instruction wants, and such lists with one flaw.     *)
MCCalls ==
  LET rights == {Right(u, r, t) : u \in MCUsers, r \in MCReserves, t \in MCTokenAccounts} IN
  rights \cup
  UNION {
    {[g EXCEPT !.mint = usdt], [g EXCEPT !.program = fake], [g EXCEPT !.market = r2],
     [g EXCEPT !.liquidity_supply = sol2], [g EXCEPT !.liquidity.mint = usdt],
     [g EXCEPT !.sysvar = fake]} : g \in {Right(u, r1, c1) : u \in MCUsers}}

(* What stale fields of a position hold matters to no step and no property. *)
View ==
  <<config, [p \in DOMAIN position |->
      <<position[p].place, position[p].deposited_amount, Funded(p)>>], event, tokens, reserve>>

Symmetric == Permutations(MCUsers)
=============================================================================
