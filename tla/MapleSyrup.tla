----------------------------- MODULE MapleSyrup -----------------------------
(***************************************************************************)
(* The Maple Syrup adapter (programs/adapters/maple-syrup).  A position    *)
(* keeps syrupUSDC in a vault, a token account that the position's own     *)
(* address owns, and is worth what a Chainlink feed says.  External: the   *)
(* SPL token program, whose users move tokens and hand accounts over as    *)
(* they like, and the feed, a ring of answers that is written meanwhile.   *)
(***************************************************************************)
EXTENDS SplTokens

CONSTANTS
  MAPLE_SYRUP_USDC_MINT, TOKEN_PROGRAM_ID,
  MAPLE_SYRUP_USDC_ORACLE, CHAINLINK_STORE_PROGRAM_ID,
  FeedVersions,    \* versions the feed's layout may have
  Answers,         \* answers the feed may be given
  Scale,           \* 10 ^ decimals of the feed
  LiveLength,      \* slots of the feed's ring
  Calls            \* account lists an instruction may be given

ASSUME MapleConstants ==
  /\ Settles
  /\ Holders = Users \cup Positions
  /\ Users \cap Positions = {}  \* nobody has the key of a derived address
  /\ TOKEN_PROGRAM_ID \in Programs
  /\ Answers \subseteq Int /\ Scale \in Nat \ {0} /\ LiveLength \in Nat \ {0}
  /\ \A call \in Calls : call.signer \in Users /\ call.vault \in TokenAccounts
                         /\ call.user_token \in TokenAccounts

VARIABLES
  feed,    \* Chainlink: version, answers in the ring, next slot to write
  latest   \* history: the last answer the feed was given, 0 before the first

externalVars == <<tokens, feed, latest>>
vars == <<config, position, event, tokens, feed, latest>>

-----------------------------------------------------------------------------
(* The feed.                                                               *)

Slots == 0 .. LiveLength - 1

Submit(answer) ==
  /\ feed' = [feed EXCEPT !.answers[feed.cursor] = answer,
                          !.cursor = (feed.cursor + 1) % LiveLength]
  /\ latest' = answer
  /\ Elsewhere /\ UNCHANGED tokens

-----------------------------------------------------------------------------
(* Valuation.                                                              *)

(* Mutant: the cursor itself is taken for the latest slot. *)
MutLatestIsCursor(cursor) == cursor % LiveLength

latest_index(cursor) == (cursor + LiveLength - 1) % LiveLength

Answer(f) == f.answers[latest_index(f.cursor)]
Readable(f) == f.version = 2 /\ Answer(f) > 0

shares_to_usdc_value(shares, answer) == (shares * answer) \div Scale

-----------------------------------------------------------------------------
(* Validation.                                                             *)

ValidMint(p, call) ==
  /\ validate_owner_and_mint(p, call.signer, call.mint)
  /\ call.mint = MAPLE_SYRUP_USDC_MINT

validate_token_program(p, program) ==
  program = config[p.config].protocol_program_id /\ program = TOKEN_PROGRAM_ID

validate_position_vault(p, vault) == vault = position[p].place

(* Mutant: the vault may belong to anyone. *)
MutVaultOfAnyone(p, call) ==
  /\ validate_position_vault(p, call.vault)
  /\ TokenFacts[call.vault].program = call.program
  /\ TokenFacts[call.vault].mint = config[p.config].supported_mint

ValidVault(p, call) ==
  /\ validate_position_vault(p, call.vault)
  /\ validate_token_account(call.vault, call.program, config[p.config].supported_mint, p)

(* Mutant: tokens may be sent to any account of the mint. *)
MutAnyDestination(p, call) ==
  TokenFacts[call.user_token].mint = config[p.config].supported_mint

ValidUserToken(p, call) ==
  validate_token_account(call.user_token, call.program,
                         config[p.config].supported_mint, call.signer)

validate_price_feed(price_feed) ==
  price_feed = [key |-> MAPLE_SYRUP_USDC_ORACLE, owner |-> CHAINLINK_STORE_PROGRAM_ID]

validate_value_accounts(p, call) ==
  /\ validate_token_program(p, call.program)
  /\ ValidVault(p, call)
  /\ validate_price_feed(call.price_feed)

-----------------------------------------------------------------------------
(* The instructions.                                                       *)

initialize_config(supported_mint, protocol_program_id, version) ==
  /\ supported_mint = MAPLE_SYRUP_USDC_MINT
  /\ protocol_program_id = TOKEN_PROGRAM_ID
  /\ CreateConfig(supported_mint, protocol_program_id, version)
  /\ UNCHANGED externalVars

initialize_position(owner, configuration, vault_token_account) ==
  /\ vault_token_account # DefaultPubkey
  /\ CreatePosition(owner, configuration, vault_token_account)
  /\ UNCHANGED externalVars

deposit(p, call, amount) ==
  /\ amount > 0
  /\ ValidMint(p, call) /\ validate_value_accounts(p, call) /\ ValidUserToken(p, call)
  /\ Transfer(call.user_token, call.vault, call.signer, amount)
  /\ Readable(feed)
  /\ LET shares == tokens'[call.vault].amount IN
     RecordDeposit(p, call.signer, amount, shares, shares_to_usdc_value(shares, Answer(feed)))
  /\ UNCHANGED <<feed, latest>>

withdraw(p, call, amount) ==
  /\ amount > 0
  /\ ValidMint(p, call) /\ validate_value_accounts(p, call) /\ ValidUserToken(p, call)
  /\ tokens[call.vault].amount >= amount
  /\ Transfer(call.vault, call.user_token, p, amount)
  /\ Readable(feed)
  /\ LET shares == tokens'[call.vault].amount IN
     RecordWithdraw(p, call.signer, amount, shares, shares_to_usdc_value(shares, Answer(feed)))
  /\ UNCHANGED <<feed, latest>>

current_value(p, call) ==
  /\ ValidMint(p, call) /\ validate_value_accounts(p, call)
  /\ Readable(feed)
  /\ LET shares == tokens[call.vault].amount IN
     Report(p, call.signer, shares, shares_to_usdc_value(shares, Answer(feed)))
  /\ UNCHANGED externalVars

-----------------------------------------------------------------------------
Init ==
  /\ NoAccounts
  /\ tokens \in InitialTokens
  /\ feed \in [version: FeedVersions, answers: {[s \in Slots |-> 0]}, cursor: {0}]
  /\ latest = 0

External ==
  \/ UseTokens /\ Elsewhere /\ UNCHANGED <<feed, latest>>
  \/ \E answer \in Answers : Submit(answer)

Adapter ==
  \/ \E mint \in Mints, program \in Programs, version \in Versions :
       initialize_config(mint, program, version)
  \/ \E owner \in Users, configuration \in DOMAIN config, t \in TokenAccounts :
       initialize_position(owner, configuration, t)
  \/ \E p \in DOMAIN position, call \in Calls :
       \/ \E amount \in Amounts : deposit(p, call, amount) \/ withdraw(p, call, amount)
       \/ current_value(p, call)

Next == External \/ Adapter

Spec == Init /\ [][Next]_vars

-----------------------------------------------------------------------------
(* Properties.                                                             *)

(* Every account has values of its type; the ring's cursor stays inside.   *)
TypeOK ==
  /\ AccountsTypeOK(TokenAccounts)
  /\ TokensTypeOK
  /\ feed \in [version: FeedVersions, answers: [Slots -> Int], cursor: Slots]
  /\ latest \in Int

(* Whatever the adapter reports is what the vault holds and what that is   *)
(* worth at the answer given to the feed last, wherever in the ring the    *)
(* feed has got to, and a feed that has no answer or not a positive one is *)
(* never used (lib.rs:127-135, 190-195, 600-648).                          *)
ReportsLatestAnswer ==
  event.kind # "none" =>
    LET held == tokens[position[event.position].place].amount IN
    /\ latest > 0
    /\ event.shares = held
    /\ event.value * Scale <= held * latest
    /\ held * latest < (event.value + 1) * Scale

(* What a position has booked is in its vault, to the last unit: tokens    *)
(* given to the vault directly may exceed it, and no transfer, hand-over   *)
(* of accounts or second position can fall below it (lib.rs:98-206).       *)
VaultCoversDeposits ==
  \A p \in DOMAIN position :
    LET vault == position[p].place IN
    position[p].deposited_amount > 0 =>
      /\ tokens[vault].owner = p
      /\ position[p].deposited_amount <= tokens[vault].amount

(* Tokens leave an account that a position owns only by a withdrawal that  *)
(* the position's owner signed, by its amount, and go to an account of     *)
(* that owner (lib.rs:148-188, 471-487).                                   *)
VaultsPayOnlyTheirOwners ==
  [][\A t \in TokenAccounts :
       tokens[t].owner \in Positions /\ tokens'[t] # tokens[t] =>
         /\ tokens'[t].owner = tokens[t].owner
         /\ tokens'[t].amount < tokens[t].amount =>
              /\ event'.kind = "withdraw" /\ event'.position = tokens[t].owner
              /\ event'.signer = tokens[t].owner.owner
              /\ tokens'[t].amount = tokens[t].amount - event'.amount
              /\ \E d \in TokenAccounts :
                   /\ tokens[d].owner = event'.signer
                   /\ tokens'[d].amount = tokens[d].amount + event'.amount]_vars
=============================================================================
