----------------------------- MODULE MapleProofs -----------------------------
(***************************************************************************)
(* Proofs about the Maple Syrup adapter.  The invariant adds to the types  *)
(* that the last answer given to the feed stands one slot behind its       *)
(* cursor; that a vault covers what was booked is inductive with the       *)
(* types, since a position's address signs for nothing but withdrawals.    *)
(***************************************************************************)
EXTENDS MapleSyrup, AccountsProofs

FeedTypeOK == feed \in [version: FeedVersions, answers: [Slots -> Int], cursor: Slots]

LastAnswer == Answer(feed) = latest

IInv ==
  /\ AccountsInv(TokenAccounts) /\ TokensTypeOK
  /\ FeedTypeOK /\ latest \in Int /\ LastAnswer
  /\ VaultCoversDeposits

-----------------------------------------------------------------------------
(* Tokens.                                                                 *)

LEMMA TransferMoves ==
  ASSUME TokensTypeOK, NEW s \in TokenAccounts, NEW d \in TokenAccounts,
         NEW authority, NEW amount \in Nat, Transfer(s, d, authority, amount)
  PROVE  /\ TokensTypeOK'
         /\ s # d /\ tokens[s].owner = authority
         /\ \A t \in TokenAccounts : tokens'[t].owner = tokens[t].owner
         /\ tokens'[s].amount = tokens[s].amount - amount
         /\ tokens'[d].amount = tokens[d].amount + amount
         /\ \A t \in TokenAccounts \ {s, d} : tokens'[t] = tokens[t]
<1> DEFINE source == [tokens[s] EXCEPT !.amount = @ - amount]
           destination == [tokens[d] EXCEPT !.amount = @ + amount]
<1>1. tokens \in [TokenAccounts -> [owner: Holders, amount: U64]]
  BY DEF TokensTypeOK
<1>2. /\ s # d /\ tokens[s].owner = authority
      /\ amount <= tokens[s].amount /\ tokens[d].amount + amount <= MaxU64
      /\ tokens' = [tokens EXCEPT ![s].amount = @ - amount, ![d].amount = @ + amount]
  BY DEF Transfer
<1>3. tokens' = [[tokens EXCEPT ![s] = source] EXCEPT ![d] = destination]
  BY <1>1, <1>2
<1>4. /\ source \in [owner: Holders, amount: U64]
      /\ source.owner = tokens[s].owner /\ source.amount = tokens[s].amount - amount
      /\ destination \in [owner: Holders, amount: U64]
      /\ destination.owner = tokens[d].owner
      /\ destination.amount = tokens[d].amount + amount
  BY <1>1, <1>2, AccountsConstants DEF U64
<1> HIDE DEF source, destination
<1>5. tokens'[s] = source /\ tokens'[d] = destination
      /\ \A t \in TokenAccounts \ {s, d} : tokens'[t] = tokens[t]
  BY <1>1, <1>2, <1>3
<1>6. TokensTypeOK'
  BY <1>1, <1>3, <1>4 DEF TokensTypeOK
<1>7. \A t \in TokenAccounts : tokens'[t].owner = tokens[t].owner
  BY <1>4, <1>5
<1> QED BY <1>2, <1>4, <1>5, <1>6, <1>7

LEMMA SetAuthorityMoves ==
  ASSUME TokensTypeOK, NEW t \in TokenAccounts, NEW holder \in Holders,
         SetAuthority(t, holder)
  PROVE  /\ TokensTypeOK' /\ tokens[t].owner \in Users
         /\ \A u \in TokenAccounts : tokens'[u].amount = tokens[u].amount
         /\ \A u \in TokenAccounts \ {t} : tokens'[u] = tokens[u]
BY DEF TokensTypeOK, SetAuthority

(* Accounts that positions own only gain by what users do.                 *)
LEMMA UsersCannotTake ==
  ASSUME TokensTypeOK, UseTokens
  PROVE  /\ TokensTypeOK'
         /\ \A t \in TokenAccounts : tokens[t].owner \in Positions =>
              tokens'[t].owner = tokens[t].owner /\ tokens[t].amount <= tokens'[t].amount
<1>1. ASSUME NEW s \in TokenAccounts, NEW d \in TokenAccounts, NEW user \in Users,
             NEW amount \in Amounts, amount > 0, Transfer(s, d, user, amount)
      PROVE  /\ TokensTypeOK'
             /\ \A t \in TokenAccounts : tokens[t].owner \in Positions =>
                  tokens'[t].owner = tokens[t].owner /\ tokens[t].amount <= tokens'[t].amount
  <2>1. amount \in Nat
    BY SplTokensConstants
  <2>2. \A t \in TokenAccounts : tokens[t].amount \in Int
    BY DEF TokensTypeOK, U64
  <2> QED BY <1>1, <2>1, <2>2, TransferMoves, MapleConstants
<1>2. ASSUME NEW t \in TokenAccounts, NEW holder \in Holders, SetAuthority(t, holder)
      PROVE  /\ TokensTypeOK'
             /\ \A u \in TokenAccounts : tokens[u].owner \in Positions =>
                  tokens'[u].owner = tokens[u].owner /\ tokens[u].amount <= tokens'[u].amount
  <2>1. \A u \in TokenAccounts : tokens[u].amount \in Int
    BY DEF TokensTypeOK, U64
  <2> QED BY <1>2, <2>1, SetAuthorityMoves, MapleConstants
<1> QED BY <1>1, <1>2 DEF UseTokens

-----------------------------------------------------------------------------
(* The feed.                                                               *)

(* One slot behind the next one is the slot just written, on any ring.     *)
LEMMA LatestIsWritten ==
  ASSUME NEW cursor \in Slots
  PROVE  /\ (cursor + 1) % LiveLength \in Slots
         /\ latest_index((cursor + 1) % LiveLength) = cursor
<1>1. LiveLength \in Nat \ {0} /\ cursor \in 0 .. LiveLength - 1
  BY MapleConstants DEF Slots
<1>2. CASE cursor + 1 = LiveLength
  <2>1. (cursor + 1) % LiveLength = 0
    BY <1>1, <1>2
  <2>2. (0 + LiveLength - 1) % LiveLength = LiveLength - 1
    BY <1>1
  <2> QED BY <1>1, <1>2, <2>1, <2>2 DEF latest_index, Slots
<1>3. CASE cursor + 1 < LiveLength
  <2>1. (cursor + 1) % LiveLength = cursor + 1
    BY <1>1, <1>3
  <2>2. (cursor + 1 + LiveLength - 1) % LiveLength = cursor
    <3>1. cursor + 1 + LiveLength - 1 = cursor + LiveLength
      BY <1>1
    <3>2. (cursor + LiveLength) % LiveLength = cursor
      BY <1>1
    <3> QED BY <3>1, <3>2
  <2> QED BY <1>1, <1>3, <2>1, <2>2 DEF latest_index, Slots
<1> QED BY <1>1, <1>2, <1>3

LEMMA SubmitKeeps ==
  ASSUME FeedTypeOK, NEW answer \in Answers, Submit(answer)
  PROVE  FeedTypeOK' /\ latest' \in Int /\ LastAnswer'
<1> DEFINE cursor == (feed.cursor + 1) % LiveLength
           answers == [feed.answers EXCEPT ![feed.cursor] = answer]
<1>1. /\ feed \in [version: FeedVersions, answers: [Slots -> Int], cursor: Slots]
      /\ answer \in Int
  BY MapleConstants DEF FeedTypeOK
<1>2. cursor \in Slots /\ latest_index(cursor) = feed.cursor
  BY <1>1, LatestIsWritten
<1>3. /\ feed' = [feed EXCEPT !.answers[feed.cursor] = answer, !.cursor = cursor]
      /\ latest' = answer
  BY DEF Submit
<1>4. answers \in [Slots -> Int] /\ answers[feed.cursor] = answer
  BY <1>1
<1>5. feed' = [feed EXCEPT !.answers = answers, !.cursor = cursor]
  BY <1>1, <1>3
<1> HIDE DEF cursor, answers
<1>6. /\ feed' \in [version: FeedVersions, answers: [Slots -> Int], cursor: Slots]
      /\ feed'.answers = answers /\ feed'.cursor = cursor
  BY <1>1, <1>2, <1>4, <1>5
<1> QED BY <1>1, <1>2, <1>3, <1>4, <1>6 DEF FeedTypeOK, LastAnswer, Answer

-----------------------------------------------------------------------------
(* The instructions.                                                       *)

(* What a list of accounts that passes all checks is.                      *)
LEMMA CallIsTheOwners ==
  ASSUME IInv, NEW p \in DOMAIN position, NEW call \in Calls,
         ValidMint(p, call), validate_value_accounts(p, call)
  PROVE  /\ call.signer \in Users /\ call.signer = position[p].owner
         /\ call.vault \in TokenAccounts /\ call.user_token \in TokenAccounts
         /\ call.vault = position[p].place /\ tokens[call.vault].owner = p
         /\ p \in Positions /\ p \notin Users /\ p.owner = call.signer
         /\ ValidUserToken(p, call) => tokens[call.user_token].owner = call.signer
BY MapleConstants
DEF IInv, AccountsInv, AccountsTypeOK, OwnersMatch, Positions, ValidMint,
    validate_owner_and_mint, validate_value_accounts, ValidVault, validate_position_vault,
    validate_token_account, ValidUserToken

LEMMA DepositMoves ==
  ASSUME IInv, NEW p \in DOMAIN position, NEW call \in Calls, NEW amount \in Amounts,
         deposit(p, call, amount)
  PROVE  /\ amount \in Nat \ {0}
         /\ Transfer(call.user_token, call.vault, call.signer, amount)
         /\ RecordDeposit(p, call.signer, amount, tokens'[call.vault].amount,
              shares_to_usdc_value(tokens'[call.vault].amount, Answer(feed)))
         /\ Readable(feed) /\ UNCHANGED <<feed, latest>>
         /\ ValidMint(p, call) /\ validate_value_accounts(p, call)
BY SplTokensConstants DEF deposit

LEMMA WithdrawMoves ==
  ASSUME IInv, NEW p \in DOMAIN position, NEW call \in Calls, NEW amount \in Amounts,
         withdraw(p, call, amount)
  PROVE  /\ amount \in Nat \ {0}
         /\ Transfer(call.vault, call.user_token, p, amount)
         /\ RecordWithdraw(p, call.signer, amount, tokens'[call.vault].amount,
              shares_to_usdc_value(tokens'[call.vault].amount, Answer(feed)))
         /\ Readable(feed) /\ UNCHANGED <<feed, latest>>
         /\ ValidMint(p, call) /\ validate_value_accounts(p, call)
         /\ tokens[call.user_token].owner = call.signer
BY SplTokensConstants DEF withdraw, ValidUserToken, validate_token_account

LEMMA CurrentValueTells ==
  ASSUME IInv, NEW p \in DOMAIN position, NEW call \in Calls, current_value(p, call)
  PROVE  /\ Report(p, call.signer, tokens[call.vault].amount,
              shares_to_usdc_value(tokens[call.vault].amount, Answer(feed)))
         /\ Readable(feed) /\ UNCHANGED externalVars
         /\ ValidMint(p, call) /\ validate_value_accounts(p, call)
BY DEF current_value

(* Every step is one of six kinds for the accounts. *)
LEMMA StepsAreAccountSteps ==
  ASSUME IInv, Next
  PROVE  AccountStep(TokenAccounts)
<1>1. CASE External
  BY <1>1 DEF External, Submit, AccountStep
<1>2. ASSUME NEW mint \in Mints, NEW program \in Programs, NEW version \in Versions,
             initialize_config(mint, program, version)
      PROVE  AccountStep(TokenAccounts)
  BY <1>2 DEF initialize_config, AccountStep
<1>3. ASSUME NEW owner \in Users, NEW configuration \in DOMAIN config,
             NEW t \in TokenAccounts, initialize_position(owner, configuration, t)
      PROVE  AccountStep(TokenAccounts)
  BY <1>3 DEF initialize_position, AccountStep
<1>4. ASSUME NEW p \in DOMAIN position, NEW call \in Calls, NEW amount \in Amounts,
             deposit(p, call, amount)
      PROVE  AccountStep(TokenAccounts)
  <2>1. Moved(p)
    BY <1>4, DepositMoves, CallIsTheOwners, RecordedIsMoved
  <2> QED BY <2>1 DEF AccountStep
<1>5. ASSUME NEW p \in DOMAIN position, NEW call \in Calls, NEW amount \in Amounts,
             withdraw(p, call, amount)
      PROVE  AccountStep(TokenAccounts)
  <2>1. Moved(p)
    BY <1>5, WithdrawMoves, CallIsTheOwners, RecordedIsMoved
  <2> QED BY <2>1 DEF AccountStep
<1>6. ASSUME NEW p \in DOMAIN position, NEW call \in Calls, current_value(p, call)
      PROVE  AccountStep(TokenAccounts)
  <2>1. Told(p)
    BY <1>6, CurrentValueTells, CallIsTheOwners, ReportedIsTold
  <2> QED BY <2>1 DEF AccountStep
<1> QED BY <1>1, <1>2, <1>3, <1>4, <1>5, <1>6 DEF Next, Adapter

-----------------------------------------------------------------------------
(* The invariant.                                                          *)

(* While vaults only gain and nothing is booked, they cover what was. *)
LEMMA GainsKeepCover ==
  ASSUME IInv, UNCHANGED position, TokensTypeOK',
         \A t \in TokenAccounts : tokens[t].owner \in Positions =>
           tokens'[t].owner = tokens[t].owner /\ tokens[t].amount <= tokens'[t].amount
  PROVE  VaultCoversDeposits'
<1> SUFFICES ASSUME NEW p \in DOMAIN position, position[p].deposited_amount > 0
             PROVE  /\ tokens'[position[p].place].owner = p
                    /\ position[p].deposited_amount <= tokens'[position[p].place].amount
  BY DEF VaultCoversDeposits
<1>1. position[p].place \in TokenAccounts /\ position[p].deposited_amount \in Int
      /\ p \in Positions
  BY DEF IInv, AccountsInv, AccountsTypeOK, Positions, U64
<1>2. /\ tokens[position[p].place].owner = p
      /\ position[p].deposited_amount <= tokens[position[p].place].amount
  BY DEF IInv, VaultCoversDeposits
<1>3. \A t \in TokenAccounts : tokens[t].amount \in Int /\ tokens'[t].amount \in Int
  BY DEF IInv, TokensTypeOK, U64
<1> QED BY <1>1, <1>2, <1>3

LEMMA OpeningKeepsCover ==
  ASSUME IInv, NEW owner \in Users, NEW configuration \in DOMAIN config,
         NEW t \in TokenAccounts, initialize_position(owner, configuration, t)
  PROVE  VaultCoversDeposits'
<1> DEFINE address == PositionAddress(configuration, owner)
           entry == [owner |-> owner, place |-> t,
                     deposited_amount |-> 0, shares |-> 0, last_value |-> 0]
<1>1. /\ position' = [p \in DOMAIN position \cup {address} |->
                        IF p = address THEN entry ELSE position[p]]
      /\ tokens' = tokens
  BY DEF initialize_position, CreatePosition, externalVars
<1>2. ~ entry.deposited_amount > 0
  OBVIOUS
<1> HIDE DEF address, entry
<1> QED BY <1>1, <1>2 DEF IInv, VaultCoversDeposits

LEMMA DepositKeepsCover ==
  ASSUME IInv, NEW p \in DOMAIN position, NEW call \in Calls, NEW amount \in Amounts,
         deposit(p, call, amount)
  PROVE  VaultCoversDeposits' /\ TokensTypeOK'
<1>1. /\ call.signer \in Users /\ call.vault \in TokenAccounts
      /\ call.user_token \in TokenAccounts /\ call.vault = position[p].place
      /\ tokens[call.vault].owner = p /\ amount \in Nat \ {0}
  BY DepositMoves, CallIsTheOwners
<1>2. /\ TokensTypeOK'
      /\ call.user_token # call.vault /\ tokens[call.user_token].owner = call.signer
      /\ \A t \in TokenAccounts : tokens'[t].owner = tokens[t].owner
      /\ tokens'[call.vault].amount = tokens[call.vault].amount + amount
      /\ \A t \in TokenAccounts \ {call.user_token, call.vault} : tokens'[t] = tokens[t]
  BY <1>1, DepositMoves, TransferMoves DEF IInv
<1>3. /\ DOMAIN position' = DOMAIN position /\ position'[p].place = position[p].place
      /\ position'[p].deposited_amount = position[p].deposited_amount + amount
      /\ \A q \in DOMAIN position : q # p => position'[q] = position[q]
  BY DepositMoves, RecordWrites DEF RecordDeposit, IInv
<1>4. \A q \in DOMAIN position :
        /\ q \in Positions /\ position[q].place \in TokenAccounts
        /\ position[q].deposited_amount \in Nat /\ tokens[position[q].place].amount \in Nat
        /\ position[q].deposited_amount > 0 =>
             /\ tokens[position[q].place].owner = q
             /\ position[q].deposited_amount <= tokens[position[q].place].amount
  BY AccountsConstants
  DEF IInv, AccountsInv, AccountsTypeOK, Positions, U64, TokensTypeOK, VaultCoversDeposits
<1>5. /\ tokens'[position'[p].place].owner = p
      /\ position'[p].deposited_amount <= tokens'[position'[p].place].amount
  <2>1. position[p].deposited_amount <= tokens[call.vault].amount
    BY <1>1, <1>4
  <2> QED BY <1>1, <1>2, <1>3, <1>4, <2>1
<1>6. ASSUME NEW q \in DOMAIN position, q # p, position'[q].deposited_amount > 0
      PROVE  /\ tokens'[position'[q].place].owner = q
             /\ position'[q].deposited_amount <= tokens'[position'[q].place].amount
  <2>1. tokens[position[q].place].owner = q /\ position'[q] = position[q]
    BY <1>3, <1>4, <1>6
  <2>2. position[q].place # call.user_token /\ position[q].place # call.vault
    BY <1>1, <1>2, <1>4, <1>6, <2>1, MapleConstants
  <2> QED BY <1>2, <1>4, <1>6, <2>1, <2>2
<1> QED BY <1>2, <1>3, <1>5, <1>6 DEF VaultCoversDeposits

LEMMA WithdrawKeepsCover ==
  ASSUME IInv, NEW p \in DOMAIN position, NEW call \in Calls, NEW amount \in Amounts,
         withdraw(p, call, amount)
  PROVE  VaultCoversDeposits' /\ TokensTypeOK'
<1>1. /\ call.signer \in Users /\ call.vault \in TokenAccounts
      /\ call.user_token \in TokenAccounts /\ call.vault = position[p].place
      /\ tokens[call.vault].owner = p /\ amount \in Nat \ {0}
      /\ tokens[call.user_token].owner = call.signer
  BY WithdrawMoves, CallIsTheOwners
<1>2. /\ TokensTypeOK'
      /\ call.user_token # call.vault
      /\ \A t \in TokenAccounts : tokens'[t].owner = tokens[t].owner
      /\ tokens'[call.vault].amount = tokens[call.vault].amount - amount
      /\ \A t \in TokenAccounts \ {call.user_token, call.vault} : tokens'[t] = tokens[t]
  BY <1>1, WithdrawMoves, TransferMoves DEF IInv
<1>3. /\ DOMAIN position' = DOMAIN position /\ position'[p].place = position[p].place
      /\ position'[p].deposited_amount = Saturated(position[p].deposited_amount, amount)
      /\ \A q \in DOMAIN position : q # p => position'[q] = position[q]
  BY WithdrawMoves, RecordWrites, MapleConstants DEF RecordWithdraw, IInv
<1>4. \A q \in DOMAIN position :
        /\ q \in Positions /\ position[q].place \in TokenAccounts
        /\ position[q].deposited_amount \in Nat /\ tokens[position[q].place].amount \in Nat
        /\ position[q].deposited_amount > 0 =>
             /\ tokens[position[q].place].owner = q
             /\ position[q].deposited_amount <= tokens[position[q].place].amount
  BY AccountsConstants
  DEF IInv, AccountsInv, AccountsTypeOK, Positions, U64, TokensTypeOK, VaultCoversDeposits
<1>5. position'[p].deposited_amount > 0 =>
        /\ tokens'[position'[p].place].owner = p
        /\ position'[p].deposited_amount <= tokens'[position'[p].place].amount
  BY <1>1, <1>2, <1>3, <1>4 DEF Saturated
<1>6. ASSUME NEW q \in DOMAIN position, q # p, position'[q].deposited_amount > 0
      PROVE  /\ tokens'[position'[q].place].owner = q
             /\ position'[q].deposited_amount <= tokens'[position'[q].place].amount
  <2>1. tokens[position[q].place].owner = q /\ position'[q] = position[q]
    BY <1>3, <1>4, <1>6
  <2>2. position[q].place # call.user_token /\ position[q].place # call.vault
    BY <1>1, <1>2, <1>4, <1>6, <2>1, MapleConstants
  <2> QED BY <1>2, <1>4, <1>6, <2>1, <2>2
<1> QED BY <1>2, <1>3, <1>5, <1>6 DEF VaultCoversDeposits

LEMMA InitIInv == Init => IInv /\ ReportsLatestAnswer
<1> SUFFICES ASSUME Init PROVE IInv /\ ReportsLatestAnswer
  OBVIOUS
<1>1. AccountsInv(TokenAccounts)
  BY AccountsInit DEF Init
<1>2. tokens \in [TokenAccounts -> [owner: Holders, amount: U64]]
  BY SplTokensConstants DEF Init
<1>3. /\ feed \in [version: FeedVersions, answers: {[s \in Slots |-> 0]}, cursor: {0}]
      /\ latest = 0
  BY DEF Init
<1>4. 0 \in Slots /\ latest_index(0) \in Slots
  BY MapleConstants DEF Slots, latest_index
<1>5. FeedTypeOK /\ LastAnswer
  BY <1>3, <1>4 DEF FeedTypeOK, LastAnswer, Answer
<1>6. DOMAIN position = {} /\ event.kind = "none"
  BY DEF Init, NoAccounts, NoEvent
<1>7. VaultCoversDeposits /\ ReportsLatestAnswer
  BY <1>6 DEF VaultCoversDeposits, ReportsLatestAnswer
<1> QED BY <1>1, <1>2, <1>3, <1>5, <1>7 DEF IInv, TokensTypeOK

(* A step that leaves the feed alone leaves what is known of it. *)
LEMMA FeedUntouched ==
  ASSUME IInv, UNCHANGED <<feed, latest>>
  PROVE  FeedTypeOK' /\ latest' \in Int /\ LastAnswer'
BY DEF IInv, FeedTypeOK, LastAnswer, Answer

LEMMA TokensUntouched ==
  ASSUME IInv, UNCHANGED tokens
  PROVE  TokensTypeOK' /\ \A t \in TokenAccounts : tokens'[t].owner = tokens[t].owner
                          /\ tokens[t].amount <= tokens'[t].amount
BY AccountsConstants DEF IInv, TokensTypeOK, U64

LEMMA NextKeepsIInv ==
  ASSUME IInv, Next
  PROVE  IInv'
<1>1. AccountsInv(TokenAccounts)'
  BY StepsAreAccountSteps, AccountStepKeeps DEF IInv
<1> SUFFICES /\ FeedTypeOK' /\ latest' \in Int /\ LastAnswer'
             /\ TokensTypeOK' /\ VaultCoversDeposits'
  BY <1>1 DEF IInv
<1>2. CASE UseTokens /\ Elsewhere /\ UNCHANGED <<feed, latest>>
  BY <1>2, FeedUntouched, UsersCannotTake, GainsKeepCover DEF IInv, Elsewhere
<1>3. ASSUME NEW answer \in Answers, Submit(answer)
      PROVE  /\ FeedTypeOK' /\ latest' \in Int /\ LastAnswer'
             /\ TokensTypeOK' /\ VaultCoversDeposits'
  <2>1. UNCHANGED tokens /\ UNCHANGED position
    BY <1>3 DEF Submit, Elsewhere
  <2>2. FeedTypeOK' /\ latest' \in Int /\ LastAnswer'
    BY <1>3, SubmitKeeps DEF IInv
  <2> QED BY <2>1, <2>2, TokensUntouched, GainsKeepCover
<1>4. ASSUME NEW mint \in Mints, NEW program \in Programs, NEW version \in Versions,
             initialize_config(mint, program, version)
      PROVE  /\ FeedTypeOK' /\ latest' \in Int /\ LastAnswer'
             /\ TokensTypeOK' /\ VaultCoversDeposits'
  <2>1. UNCHANGED externalVars /\ UNCHANGED position
    BY <1>4 DEF initialize_config, CreateConfig
  <2> QED BY <2>1, FeedUntouched, TokensUntouched, GainsKeepCover DEF externalVars
<1>5. ASSUME NEW owner \in Users, NEW configuration \in DOMAIN config,
             NEW t \in TokenAccounts, initialize_position(owner, configuration, t)
      PROVE  /\ FeedTypeOK' /\ latest' \in Int /\ LastAnswer'
             /\ TokensTypeOK' /\ VaultCoversDeposits'
  <2>1. UNCHANGED externalVars
    BY <1>5 DEF initialize_position
  <2> QED BY <1>5, <2>1, FeedUntouched, TokensUntouched, OpeningKeepsCover DEF externalVars
<1>6. ASSUME NEW p \in DOMAIN position, NEW call \in Calls, NEW amount \in Amounts,
             deposit(p, call, amount) \/ withdraw(p, call, amount)
      PROVE  /\ FeedTypeOK' /\ latest' \in Int /\ LastAnswer'
             /\ TokensTypeOK' /\ VaultCoversDeposits'
  <2>1. UNCHANGED <<feed, latest>>
    BY <1>6, DepositMoves, WithdrawMoves
  <2> QED BY <1>6, <2>1, FeedUntouched, DepositKeepsCover, WithdrawKeepsCover
<1>7. ASSUME NEW p \in DOMAIN position, NEW call \in Calls, current_value(p, call)
      PROVE  /\ FeedTypeOK' /\ latest' \in Int /\ LastAnswer'
             /\ TokensTypeOK' /\ VaultCoversDeposits'
  <2>1. UNCHANGED externalVars /\ UNCHANGED position
    BY <1>7, CurrentValueTells DEF Report
  <2> QED BY <2>1, FeedUntouched, TokensUntouched, GainsKeepCover DEF externalVars
<1> QED BY <1>2, <1>3, <1>4, <1>5, <1>6, <1>7 DEF Next, External, Adapter

-----------------------------------------------------------------------------
(* The properties.                                                         *)

(* The value is the exact worth of the shares, floored. *)
LEMMA ValueIsFloored ==
  ASSUME NEW shares \in Nat, NEW answer \in Nat
  PROVE  LET value == shares_to_usdc_value(shares, answer) IN
         value * Scale <= shares * answer /\ shares * answer < (value + 1) * Scale
<1>1. shares * answer \in Nat
  OBVIOUS
<1> DEFINE a == shares * answer
<1>2. shares_to_usdc_value(shares, answer) = a \div Scale
  BY DEF shares_to_usdc_value
<1> HIDE DEF a
<1>3. a \in Nat /\ Scale \in Nat \ {0}
  BY <1>1, MapleConstants DEF a
<1>4. (a \div Scale) * Scale <= a /\ a < (a \div Scale + 1) * Scale
  BY <1>3, Floored
<1> QED BY <1>2, <1>4 DEF a

(* What any announcement says, made after the tokens moved. *)
LEMMA AnnouncementIsRight ==
  ASSUME IInv, NEW p \in DOMAIN position, NEW call \in Calls, Readable(feed),
         position'[p].place = call.vault, call.vault \in TokenAccounts,
         UNCHANGED <<feed, latest>>, TokensTypeOK', event'.position = p,
         event'.shares = tokens'[call.vault].amount,
         event'.value = shares_to_usdc_value(tokens'[call.vault].amount, Answer(feed))
  PROVE  ReportsLatestAnswer'
<1> DEFINE held == tokens'[call.vault].amount
<1>1. held \in Nat
  BY AccountsConstants DEF TokensTypeOK, U64
<1>2. Answer(feed) = latest /\ latest \in Int /\ latest > 0
  BY DEF IInv, LastAnswer, Readable
<1>3. latest \in Nat
  BY <1>2
<1>4. /\ shares_to_usdc_value(held, latest) * Scale <= held * latest
      /\ held * latest < (shares_to_usdc_value(held, latest) + 1) * Scale
  BY <1>1, <1>3, ValueIsFloored
<1> QED BY <1>2, <1>4 DEF ReportsLatestAnswer

LEMMA NextReports ==
  ASSUME IInv, Next
  PROVE  ReportsLatestAnswer'
<1>1. ASSUME event' = NoEvent
      PROVE  ReportsLatestAnswer'
  BY <1>1 DEF NoEvent, ReportsLatestAnswer
<1>2. CASE External
  BY <1>1, <1>2 DEF External, Submit, Elsewhere, Silent
<1>3. ASSUME NEW mint \in Mints, NEW program \in Programs, NEW version \in Versions,
             initialize_config(mint, program, version)
      PROVE  ReportsLatestAnswer'
  BY <1>1, <1>3 DEF initialize_config, CreateConfig, Silent
<1>4. ASSUME NEW owner \in Users, NEW configuration \in DOMAIN config,
             NEW t \in TokenAccounts, initialize_position(owner, configuration, t)
      PROVE  ReportsLatestAnswer'
  BY <1>1, <1>4 DEF initialize_position, CreatePosition, Silent
<1>5. ASSUME NEW p \in DOMAIN position, NEW call \in Calls, NEW amount \in Amounts,
             deposit(p, call, amount)
      PROVE  ReportsLatestAnswer'
  <2> DEFINE held == tokens'[call.vault].amount
             value == shares_to_usdc_value(held, Answer(feed))
  <2>1. RecordDeposit(p, call.signer, amount, held, value) /\ Readable(feed)
        /\ UNCHANGED <<feed, latest>> /\ TokensTypeOK'
    BY <1>5, DepositMoves, DepositKeepsCover
  <2>2. call.vault \in TokenAccounts /\ call.vault = position[p].place
    BY <1>5, DepositMoves, CallIsTheOwners
  <2>3. /\ position'[p].place = position[p].place /\ event'.position = p
        /\ event'.shares = held /\ event'.value = value
    BY <2>1, RecordWrites DEF RecordDeposit, IInv
  <2> QED BY <2>1, <2>2, <2>3, AnnouncementIsRight
<1>6. ASSUME NEW p \in DOMAIN position, NEW call \in Calls, NEW amount \in Amounts,
             withdraw(p, call, amount)
      PROVE  ReportsLatestAnswer'
  <2> DEFINE held == tokens'[call.vault].amount
             value == shares_to_usdc_value(held, Answer(feed))
  <2>1. RecordWithdraw(p, call.signer, amount, held, value) /\ Readable(feed)
        /\ UNCHANGED <<feed, latest>> /\ TokensTypeOK'
    BY <1>6, WithdrawMoves, WithdrawKeepsCover
  <2>2. call.vault \in TokenAccounts /\ call.vault = position[p].place
    BY <1>6, WithdrawMoves, CallIsTheOwners
  <2>3. /\ position'[p].place = position[p].place /\ event'.position = p
        /\ event'.shares = held /\ event'.value = value
    BY <2>1, RecordWrites DEF RecordWithdraw, IInv
  <2> QED BY <2>1, <2>2, <2>3, AnnouncementIsRight
<1>7. ASSUME NEW p \in DOMAIN position, NEW call \in Calls, current_value(p, call)
      PROVE  ReportsLatestAnswer'
  <2> DEFINE held == tokens[call.vault].amount
             value == shares_to_usdc_value(held, Answer(feed))
  <2>1. Report(p, call.signer, held, value) /\ Readable(feed) /\ UNCHANGED externalVars
    BY <1>7, CurrentValueTells
  <2>2. call.vault \in TokenAccounts /\ call.vault = position[p].place
    BY <1>7, CurrentValueTells, CallIsTheOwners
  <2>3. /\ position' = position /\ event'.position = p
        /\ event'.shares = held /\ event'.value = value
    BY <2>1 DEF Report
  <2>4. UNCHANGED <<feed, latest>> /\ tokens' = tokens /\ TokensTypeOK'
    BY <2>1, TokensUntouched DEF externalVars
  <2> QED BY <2>1, <2>2, <2>3, <2>4, AnnouncementIsRight
<1> QED BY <1>2, <1>3, <1>4, <1>5, <1>6, <1>7 DEF Next, Adapter

(* What a step may do to an account that a position owns. *)
PaysOnlyOwner(t) ==
  tokens[t].owner \in Positions /\ tokens'[t] # tokens[t] =>
    /\ tokens'[t].owner = tokens[t].owner
    /\ tokens'[t].amount < tokens[t].amount =>
         /\ event'.kind = "withdraw" /\ event'.position = tokens[t].owner
         /\ event'.signer = tokens[t].owner.owner
         /\ tokens'[t].amount = tokens[t].amount - event'.amount
         /\ \E d \in TokenAccounts :
              /\ tokens[d].owner = event'.signer
              /\ tokens'[d].amount = tokens[d].amount + event'.amount

LEMMA NextPays ==
  ASSUME IInv, Next, NEW t \in TokenAccounts
  PROVE  PaysOnlyOwner(t)
<1> SUFFICES ASSUME tokens[t].owner \in Positions, tokens'[t] # tokens[t]
             PROVE  PaysOnlyOwner(t)
  BY DEF PaysOnlyOwner
<1>1. tokens[t].amount \in Int
  BY DEF IInv, TokensTypeOK, U64
<1>2. CASE UseTokens
  <2>1. /\ tokens'[t].owner = tokens[t].owner /\ tokens[t].amount <= tokens'[t].amount
        /\ tokens'[t].amount \in Int
    BY <1>2, UsersCannotTake DEF IInv, TokensTypeOK, U64
  <2> QED BY <1>1, <2>1 DEF PaysOnlyOwner
<1>3. ASSUME NEW p \in DOMAIN position, NEW call \in Calls, NEW amount \in Amounts,
             deposit(p, call, amount)
      PROVE  PaysOnlyOwner(t)
  <2>1. /\ call.signer \in Users /\ call.vault \in TokenAccounts
        /\ call.user_token \in TokenAccounts /\ amount \in Nat \ {0}
    BY <1>3, DepositMoves, CallIsTheOwners
  <2>2. /\ tokens[call.user_token].owner = call.signer
        /\ \A u \in TokenAccounts : tokens'[u].owner = tokens[u].owner
        /\ tokens'[call.vault].amount = tokens[call.vault].amount + amount
        /\ \A u \in TokenAccounts \ {call.user_token, call.vault} : tokens'[u] = tokens[u]
    BY <1>3, <2>1, DepositMoves, TransferMoves DEF IInv
  <2>3. t = call.vault
    BY <2>1, <2>2, MapleConstants
  <2> QED BY <1>1, <2>1, <2>2, <2>3 DEF PaysOnlyOwner
<1>4. ASSUME NEW p \in DOMAIN position, NEW call \in Calls, NEW amount \in Amounts,
             withdraw(p, call, amount)
      PROVE  PaysOnlyOwner(t)
  <2>1. /\ call.signer \in Users /\ call.vault \in TokenAccounts
        /\ call.user_token \in TokenAccounts /\ amount \in Nat \ {0}
        /\ tokens[call.user_token].owner = call.signer
        /\ tokens[call.vault].owner = p /\ p.owner = call.signer
    BY <1>4, WithdrawMoves, CallIsTheOwners
  <2>2. /\ \A u \in TokenAccounts : tokens'[u].owner = tokens[u].owner
        /\ tokens'[call.vault].amount = tokens[call.vault].amount - amount
        /\ tokens'[call.user_token].amount = tokens[call.user_token].amount + amount
        /\ \A u \in TokenAccounts \ {call.user_token, call.vault} : tokens'[u] = tokens[u]
    BY <1>4, <2>1, WithdrawMoves, TransferMoves DEF IInv
  <2>3. t = call.vault
    BY <2>1, <2>2, MapleConstants
  <2>4. /\ event'.kind = "withdraw" /\ event'.position = p
        /\ event'.signer = call.signer /\ event'.amount = amount
    BY <1>4, WithdrawMoves, RecordWrites DEF RecordWithdraw, IInv
  <2> QED BY <2>1, <2>2, <2>3, <2>4 DEF PaysOnlyOwner
<1>5. \/ UseTokens
      \/ \E p \in DOMAIN position, call \in Calls, amount \in Amounts :
           deposit(p, call, amount) \/ withdraw(p, call, amount)
  BY DEF Next, External, Adapter, Submit, initialize_config, initialize_position,
         current_value, externalVars
<1> QED BY <1>2, <1>3, <1>4, <1>5

-----------------------------------------------------------------------------
(* The theorems.                                                           *)

LEMMA Inductive == Spec => [](IInv /\ ReportsLatestAnswer)
<1>1. Init => IInv /\ ReportsLatestAnswer
  BY InitIInv
<1>2. IInv /\ ReportsLatestAnswer /\ [Next]_vars => (IInv /\ ReportsLatestAnswer)'
  <2> SUFFICES ASSUME IInv, ReportsLatestAnswer, [Next]_vars
               PROVE  IInv' /\ ReportsLatestAnswer'
    OBVIOUS
  <2>1. CASE Next
    BY <2>1, NextKeepsIInv, NextReports
  <2>2. CASE UNCHANGED vars
    <3>1. IInv'
      BY <2>2
      DEF vars, IInv, AccountsInv, AccountsTypeOK, OwnersMatch, Event, TokensTypeOK,
          FeedTypeOK, LastAnswer, Answer, VaultCoversDeposits
    <3>2. ReportsLatestAnswer'
      BY <2>2 DEF vars, ReportsLatestAnswer
    <3> QED BY <3>1, <3>2
  <2> QED BY <2>1, <2>2
<1> QED BY <1>1, <1>2, PTL DEF Spec

(* The accounts, the tokens and the feed keep their types. *)
THEOREM TypeCorrect == Spec => []TypeOK
<1>1. IInv => TypeOK
  BY DEF IInv, AccountsInv, FeedTypeOK, TypeOK
<1> QED BY <1>1, Inductive, PTL

(* Every announcement states what the vault holds and the floor of its     *)
(* worth at the answer given last, on a ring of any length.                *)
THEOREM ReportsCorrect == Spec => []ReportsLatestAnswer
BY Inductive, PTL

(* A vault covers what its position has booked, whatever users do with     *)
(* token accounts and however many positions name the same one.            *)
THEOREM CoverCorrect == Spec => []VaultCoversDeposits
<1>1. IInv => VaultCoversDeposits
  BY DEF IInv
<1> QED BY <1>1, Inductive, PTL

(* A position's tokens go to its owner only, by a withdrawal he signed.    *)
THEOREM PaymentsCorrect == Spec => VaultsPayOnlyTheirOwners
<1>1. IInv /\ [Next]_vars => [\A t \in TokenAccounts : PaysOnlyOwner(t)]_vars
  BY NextPays
<1>2. Spec => [][\A t \in TokenAccounts : PaysOnlyOwner(t)]_vars
  BY <1>1, Inductive, PTL DEF Spec
<1> QED BY <1>2 DEF PaysOnlyOwner, VaultsPayOnlyTheirOwners

(* The adapter implements the promise of every adapter. *)
THEOREM MapleImplementsYieldAdapter == Spec => ImplementsYieldAdapter
<1>1. Init => Abstract!Init
  BY AccountsInitMaps DEF Init
<1>2. IInv /\ [Next]_vars => [Abstract!Next]_<<Booked, event>>
  <2>1. ASSUME IInv, Next PROVE Abstract!Next
    BY <2>1, StepsAreAccountSteps, AccountStepMaps DEF IInv
  <2>2. UNCHANGED vars => UNCHANGED <<Booked, event>>
    BY DEF vars, Booked
  <2> QED BY <2>1, <2>2
<1>3. Spec => Abstract!Init /\ [][Abstract!Next]_<<Booked, event>>
  BY <1>1, <1>2, Inductive, PTL DEF Spec
<1> QED BY <1>3 DEF ImplementsYieldAdapter, Abstract!Spec
=============================================================================
