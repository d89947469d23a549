----------------------------- MODULE SplTokens ------------------------------
(***************************************************************************)
(* Adapters whose positions are kept in SPL token accounts: the token      *)
(* program, which is external.  A user may move tokens and hand an account *)
(* over, to another user or to an address that a program derives.          *)
(***************************************************************************)
EXTENDS AdapterAccounts

CONSTANTS
  Holders,         \* who may own a token account; Users are among them
  TokenAccounts,   \* SPL token accounts
  TokenFacts,      \* what never changes of one: program, mint
  InitialTokens,   \* what they may hold, and whose they may be, at first
  Amounts          \* amounts asked for or moved

ASSUME SplTokensConstants ==
  /\ Users \subseteq Holders
  /\ InitialTokens \subseteq [TokenAccounts -> [owner: Users, amount: U64]]
  /\ Amounts \subseteq Nat

VARIABLE tokens  \* amount and owner of each token account

(* Moves tokens between accounts of one mint, for the source's owner. *)
Transfer(source, destination, authority, amount) ==
  /\ tokens[source].owner = authority
  /\ TokenFacts[source].mint = TokenFacts[destination].mint
  /\ source # destination
  /\ amount <= tokens[source].amount
  /\ tokens[destination].amount + amount <= MaxU64
  /\ tokens' = [tokens EXCEPT ![source].amount = @ - amount, ![destination].amount = @ + amount]

Mint(t, amount) ==
  /\ tokens[t].amount + amount <= MaxU64
  /\ tokens' = [tokens EXCEPT ![t].amount = @ + amount]

Burn(t, authority, amount) ==
  /\ tokens[t].owner = authority
  /\ amount <= tokens[t].amount
  /\ tokens' = [tokens EXCEPT ![t].amount = @ - amount]

SetAuthority(t, holder) ==
  /\ tokens[t].owner \in Users /\ holder # tokens[t].owner
  /\ tokens' = [tokens EXCEPT ![t].owner = holder]

(* What users do with their token accounts, without the adapter. *)
UseTokens ==
  \/ \E s, d \in TokenAccounts, user \in Users, amount \in Amounts :
       amount > 0 /\ Transfer(s, d, user, amount)
  \/ \E t \in TokenAccounts, holder \in Holders : SetAuthority(t, holder)

validate_token_account(t, program, mint, owner) ==
  TokenFacts[t].program = program /\ TokenFacts[t].mint = mint /\ tokens[t].owner = owner

TokensTypeOK == tokens \in [TokenAccounts -> [owner: Holders, amount: U64]]
=============================================================================
