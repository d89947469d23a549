------------------------------ MODULE MCMaple -------------------------------
(* Two users, two syrupUSDC accounts that hold two units between them, and *)
(* an account of another mint.  The feed has a ring of two slots, so that  *)
(* the cursor wraps and an empty slot is met, and answers that make a unit *)
(* worth 0.5 or 1.5, or that are not positive.                             *)
EXTENDS MapleSyrup, TLC

CONSTANTS u1, u2, syrup, usdc, spl, fake, oracle, store, t1, t2, w1

MCUsers == {u1, u2}
MCHolders == MCUsers \cup Positions
MCTokenAccounts == {t1, t2, w1}
MCTokenFacts ==
  [t \in MCTokenAccounts |-> [program |-> spl, mint |-> IF t = w1 THEN usdc ELSE syrup]]
MCInitialTokens ==
  {[t \in MCTokenAccounts |-> [owner |-> u, amount |-> IF t = full THEN 2 ELSE 0]] :
     u \in MCUsers, full \in {t1, t2}}
MCAnswers == {0, 1, 3}

Right(u, v, t) ==
  [signer |-> u, mint |-> syrup, program |-> spl, vault |-> v, user_token |-> t,
   price_feed |-> [key |-> oracle, owner |-> store]]

(* The accounts every instruction wants, and such lists with one flaw.     *)
MCCalls ==
  LET rights == {Right(u, v, t) : u \in MCUsers, v, t \in MCTokenAccounts} IN
  UNION {
    {r, [r EXCEPT !.mint = usdc], [r EXCEPT !.program = fake],
     [r EXCEPT !.price_feed.key = fake], [r EXCEPT !.price_feed.owner = fake]} : r \in rights}

Symmetric == Permutations(MCUsers) \cup Permutations({t1, t2})
=============================================================================
