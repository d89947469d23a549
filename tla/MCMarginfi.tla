----------------------------- MODULE MCMarginfi -----------------------------
(* Two users, one of whom holds the authority of a MarginFi account with   *)
(* balances in two banks of the configured mint.  With One = 4 a share     *)
(* value of 7 is 1.75, so shares and values are fractions; three units are *)
(* more than a u64 holds, so a position may become unreadable.  Owners leave 0.75 or 1.75 shares by direct  *)
(* use of MarginFi, so withdrawals may exceed what the adapter deposited.  *)
(* A configuration may name a program that owns no bank.                   *)
EXTENDS MarginfiUsdc, TLC

CONSTANTS u1, u2, usdc, mfi, fake, g1, g2, a1, b1, b2, o1, v1

MCUsers == {u1, u2}
MCMints == {usdc, DefaultPubkey}
MCVersions == {1}
MCPrograms == {mfi, fake}
MCGroups == {g1, g2}
MCOracles == {o1}
MCAccounts == {a1}
MCAccountFacts == [a \in MCAccounts |-> [program |-> mfi, group |-> g1]]
MCBanks == {b1, b2}
MCBankFacts ==
  [b \in MCBanks |-> [program |-> mfi, mint |-> usdc, decimals |-> 6, group |-> g1,
                     vault |-> v1]]
MCBankSettings ==
  {[state |-> 1, oracle_setup |-> 1, oracle |-> o1],
   [state |-> 2, oracle_setup |-> 1, oracle |-> o1],
   [state |-> 1, oracle_setup |-> 0, oracle |-> DefaultPubkey]}
MCShareValues == {4, 7}
MCSlots == 1 .. 2
MCAmounts == {0, 2}
MCDirectShares == {3, 7}

Right(u, a, b) ==
  [signer |-> u, mint |-> usdc, program |-> mfi, group |-> BankFacts[b].group,
   account |-> a, bank |-> b, vault |-> v1,
   vault_authority |-> VaultAuthority(b, mfi),
   token |-> [program |-> mfi, mint |-> usdc, owner |-> u], token_program |-> mfi,
   remaining |-> <<b, o1>>]

(* The accounts every instruction wants, and such lists with one flaw.     *)
MCCalls ==
  LET rights == {Right(u, a, b) : u \in MCUsers, a \in MCAccounts, b \in MCBanks} IN
  UNION {
    {r, [r EXCEPT !.mint = DefaultPubkey], [r EXCEPT !.program = fake],
     [r EXCEPT !.group = g2], [r EXCEPT !.vault = DefaultPubkey],
     [r EXCEPT !.vault_authority = VaultAuthority(r.bank, fake)],
     [r EXCEPT !.token.mint = DefaultPubkey], [r EXCEPT !.remaining = <<o1>>]} : r \in rights}

Symmetric == Permutations(MCUsers) \cup Permutations(MCBanks)
=============================================================================
