----------------------------- MODULE MCJupiter ------------------------------
(* Two users, the JLP pool and its USDC custody, another pool and custody, *)
(* two JLP accounts and one of another mint.                               *)
EXTENDS JupiterLp, TLC

CONSTANTS u1, u2, usdc, usdt, jup, fake, spl, jlp, other, c1, c2, l1, l2, w1, v1, d1, y1

MCUsers == {u1, u2}
MCTokenAccounts == {l1, l2, w1}
MCTokenFacts ==
  [t \in MCTokenAccounts |-> [program |-> spl, mint |-> IF t = w1 THEN usdc ELSE jlp]]
MCInitialTokens ==
  {[t \in MCTokenAccounts |-> [owner |-> u, amount |-> 0]] : u \in MCUsers}
MCPoolFacts ==
  [p \in {jlp, other} |-> [program |-> jup, custodies |-> {c1, c2}, lp_mint |-> p]]
MCCustodyFacts ==
  [c \in {c1, c2} |-> [program |-> jup, pool |-> jlp, mint |-> IF c = c1 THEN usdc ELSE usdt,
                       token_account |-> v1, doves |-> d1, pythnet |-> y1]]

Right(u, t) ==
  [signer |-> u, mint |-> usdc, program |-> jup, pool |-> jlp, custody |-> c1, lp |-> t,
   lp_mint |-> jlp, perpetuals |-> Derived("perpetuals", jup),
   transfer_authority |-> Derived("transfer_authority", jup),
   event_authority |-> Derived("event_authority", jup), token_program |-> spl,
   wallet |-> [program |-> spl, mint |-> usdc, owner |-> u],
   custody_token_account |-> v1, doves |-> d1, pythnet |-> y1]

(* The accounts every instruction wants, and such lists with one flaw.     *)
MCCalls ==
  {Right(u, t) : u \in MCUsers, t \in MCTokenAccounts} \cup
  UNION {
    {[g EXCEPT !.mint = usdt], [g EXCEPT !.program = fake], [g EXCEPT !.pool = other],
     [g EXCEPT !.custody = c2], [g EXCEPT !.lp_mint = usdc], [g EXCEPT !.wallet.mint = usdt],
     [g EXCEPT !.perpetuals.program = fake], [g EXCEPT !.token_program = fake],
     [g EXCEPT !.doves = y1]} : g \in {Right(u, l1) : u \in MCUsers}}

(* What stale fields of a position hold matters to no step and no property. *)
View ==
  <<config, [p \in DOMAIN position |-> <<position[p].place, position[p].deposited_amount>>],
    event, tokens, pool>>

Symmetric == Permutations(MCUsers)
=============================================================================
