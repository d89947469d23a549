----------------------------- MODULE Dispatcher -----------------------------
(***************************************************************************)
(* The dispatcher (programs/dispatcher) between users, the registry it     *)
(* reads and the adapters it calls.  The dispatcher keeps no account: its  *)
(* state is the transaction being executed.  A transaction is a sequence   *)
(* of instructions, each in three steps,                                   *)
(*                                                                         *)
(*   ready --Enter--> calling --adapter--> returned --Finish--> ready      *)
(*                                                                         *)
(* on a working copy of the accounts it writes.  Commit installs the copy, *)
(* any failing check aborts the transaction and drops it.  Transactions    *)
(* run in parallel with each other, with governance and with direct calls  *)
(* to the adapter, subject to the account locks the runtime takes from     *)
(* the accounts each instruction lists.                                    *)
(***************************************************************************)
EXTENDS Integers, FiniteSets

CONSTANTS
  Pubkeys, DefaultPubkey, Programs, Mints, Versions, ProtocolNames,
  MetadataUris, MaxCount, MaxSlot,  \* the registry's
  Users,          \* users who sign transactions and own positions
  MaxU64,         \* largest amount a u64 field holds
  Txs,            \* transactions that may be in flight together
  Template,       \* the program id of the adapter template
  MaxIx           \* bound on the instructions of a transaction

ASSUME DispatcherConstants ==
  /\ Template \in Programs
  /\ MaxU64 \in Nat
  /\ MaxIx \in Nat

VARIABLES
  config, entries, slot, event, replayed,  \* the registry's
  adapter_config, user_position,           \* the template's accounts
  tx,       \* transactions in flight
  announced \* history: per position, what committed events say it holds

registryVars == <<config, entries, slot, event, replayed>>
templateVars == <<adapter_config, user_position>>
vars == <<registryVars, templateVars, tx, announced>>

R == INSTANCE Registry
T == INSTANCE AdapterTemplate

-----------------------------------------------------------------------------
(* Transactions.                                                           *)

Idle == [pc |-> "idle"]
NoInstruction == [op |-> "none", program |-> Template, mint |-> DefaultPubkey, amount |-> 0]
NoData == [set |-> FALSE, program |-> Template, length |-> 0, value |-> 0]
NoQuote == [program |-> Template, value |-> 0, source |-> Template, made |-> FALSE]

Operations == {"deposit", "withdraw", "current_value"}
Instruction == [op: Operations, program: Programs, mint: Mints, amount: 0 .. MaxU64]
Lengths == {4, 8}
ReturnData == [set: BOOLEAN, program: Programs, length: Lengths \cup {0}, value: 0 .. MaxU64]
Quote == [program: Programs, value: 0 .. MaxU64, source: Programs, made: BOOLEAN]

Running ==
  [pc: {"ready", "calling", "returned"}, user: Users, entry: R!Addresses,
   position: [config: [mint: Mints, version: Versions], owner: Users],
   work: T!UserPosition, ix: Instruction \cup {NoInstruction}, data: ReturnData,
   moved: Int, quote: Quote, done: 0 .. MaxIx]

InFlight == {t \in Txs : tx[t].pc # "idle"}

(* The runtime locks every account a transaction lists before it runs it:  *)
(* RouteDeposit, RouteWithdraw and RouteCurrentValue list the entry        *)
(* read-only and (but for queries) the position as writable.               *)
WriteLocked(position) == \E t \in InFlight : tx[t].position = position
ReadLocked(address) == \E t \in InFlight : tx[t].entry = address

Begin(t, user, address, position) ==
  /\ t \notin InFlight
  /\ address \in DOMAIN entries
  /\ position \in DOMAIN user_position
  /\ ~WriteLocked(position)
  /\ tx' = [tx EXCEPT ![t] =
       [pc |-> "ready", user |-> user, entry |-> address, position |-> position,
        work |-> user_position[position], ix |-> NoInstruction, data |-> NoData,
        moved |-> 0, quote |-> NoQuote, done |-> 0]]
  /\ UNCHANGED <<registryVars, templateVars, announced>>

Abort(t) ==
  /\ tx' = [tx EXCEPT ![t] = Idle]
  /\ UNCHANGED <<registryVars, templateVars, announced>>

Advance(t, next) ==
  /\ tx' = [tx EXCEPT ![t] = next]
  /\ UNCHANGED <<registryVars, templateVars, announced>>

-----------------------------------------------------------------------------
(* The three handlers share their shape; they differ in the check of the   *)
(* amount, in the call's effect and in what follows it.                    *)

(* Mutant: the status match lets a paused entry through. *)
MutValidatePausedToo(address, e, program, mint) ==
  /\ address = R!EntryAddress(e.adapter_program_id, e.supported_mint, e.adapter_version)
  /\ e.status \in {"Approved", "Paused"}
  /\ program = e.adapter_program_id
  /\ mint = e.supported_mint

(* Mutant: the mint asked for is not compared with the entry's. *)
MutValidateAnyMint(address, e, program, mint) ==
  /\ address = R!EntryAddress(e.adapter_program_id, e.supported_mint, e.adapter_version)
  /\ e.status = "Approved"
  /\ program = e.adapter_program_id

validate_adapter_entry(address, e, program, mint) ==
  /\ address = R!EntryAddress(e.adapter_program_id, e.supported_mint, e.adapter_version)
  /\ e.status = "Approved"
  /\ program = e.adapter_program_id
  /\ mint = e.supported_mint

Accepts(t, ix) ==
  /\ ix.op \in {"deposit", "withdraw"} => ix.amount > 0
  /\ validate_adapter_entry(tx[t].entry, entries[tx[t].entry], ix.program, ix.mint)

(* The checks before the call.  invoke() starts with empty return data.    *)
Enter(t, ix) ==
  /\ tx[t].pc = "ready" /\ tx[t].done < MaxIx
  /\ IF Accepts(t, ix)
     THEN Advance(t, [tx[t] EXCEPT !.pc = "calling", !.ix = ix, !.data = NoData,
                                   !.quote = NoQuote])
     ELSE Abort(t)

(* The call reaches the template, which works on the position it is given. *)
TemplateAllows(t) ==
  LET ix == tx[t].ix
      work == tx[t].work
      configuration == adapter_config[tx[t].position.config] IN
  CASE ix.op = "deposit" ->
         T!DepositAllowed(work, configuration, tx[t].user, ix.mint, ix.amount)
    [] ix.op = "withdraw" ->
         T!WithdrawAllowed(work, configuration, tx[t].user, ix.mint, ix.amount)
    [] OTHER -> T!CurrentValueAllowed(work, configuration, tx[t].user, ix.mint)

TemplateResult(t) ==
  LET ix == tx[t].ix
      work == tx[t].work IN
  CASE ix.op = "deposit" ->
         [tx[t] EXCEPT !.pc = "returned", !.work = T!AfterDeposit(work, ix.amount)]
    [] ix.op = "withdraw" ->
         [tx[t] EXCEPT !.pc = "returned", !.work = T!AfterWithdraw(work, ix.amount)]
    [] OTHER ->
         [tx[t] EXCEPT !.pc = "returned",
                       !.data = [set |-> TRUE, program |-> Template, length |-> 8,
                                 value |-> T!current_value(work)]]

CallTemplate(t) ==
  /\ tx[t].pc = "calling" /\ tx[t].ix.program = Template
  /\ IF TemplateAllows(t) THEN Advance(t, TemplateResult(t)) ELSE Abort(t)

(* Any other approved adapter.  It cannot write the template's accounts;   *)
(* it may fail, set no return data, or leave data of any length that it or *)
(* a program it called in turn has set (which value does not matter).      *)
CallOther(t) ==
  /\ tx[t].pc = "calling" /\ tx[t].ix.program # Template
  /\ \/ Abort(t)
     \/ Advance(t, [tx[t] EXCEPT !.pc = "returned"])
     \/ \E program \in Programs, length \in Lengths :
          Advance(t, [tx[t] EXCEPT !.pc = "returned",
                        !.data = [set |-> TRUE, program |-> program,
                                  length |-> length, value |-> MaxU64]])

(* Mutant: data left by a program the adapter called is taken as its own.  *)
MutAnyReturnProgram(data, adapter_program) == data.set /\ data.length = 8

(* read_current_value_return: data is there, the adapter set it, 8 bytes.  *)
ReturnAccepted(data, adapter_program) ==
  data.set /\ data.program = adapter_program /\ data.length = 8

(* What DepositRouted and WithdrawRouted say went into the template's books. *)
Moved(ix) ==
  IF ix.program # Template \/ ix.op = "current_value" THEN 0
  ELSE IF ix.op = "deposit" THEN ix.amount ELSE -ix.amount

(* CurrentValueQueried announces the value read back.                      *)
Finish(t) ==
  LET ix == tx[t].ix
      data == tx[t].data
      next == [tx[t] EXCEPT !.pc = "ready", !.done = @ + 1, !.moved = @ + Moved(ix),
                            !.ix = NoInstruction, !.data = NoData] IN
  /\ tx[t].pc = "returned"
  /\ IF ix.op # "current_value" THEN Advance(t, next)
     ELSE IF ReturnAccepted(data, ix.program)
     THEN Advance(t, [next EXCEPT !.quote =
            [program |-> ix.program, value |-> data.value, source |-> data.program,
             made |-> TRUE]])
     ELSE Abort(t)

(* The end of a transaction: its accounts and its events become final.     *)
Commit(t) ==
  /\ tx[t].pc = "ready" /\ tx[t].done > 0
  /\ user_position' = [user_position EXCEPT ![tx[t].position] = tx[t].work]
  /\ announced' = [announced EXCEPT ![tx[t].position] = @ + tx[t].moved]
  /\ tx' = [tx EXCEPT ![t] = Idle]
  /\ UNCHANGED <<registryVars, adapter_config>>

-----------------------------------------------------------------------------
(* The others: governance, and owners who call the adapter directly.       *)

(* A registry instruction writes the entry it names, so it waits for the   *)
(* transactions that hold that entry.                                      *)
Governance ==
  /\ R!Next
  /\ \A address \in DOMAIN entries :
       ReadLocked(address) => entries'[address] = entries[address]
  /\ UNCHANGED <<templateVars, tx, announced>>

Direct(user, position, mint, amount) ==
  /\ ~WriteLocked(position)
  /\ LET p == user_position[position]
         c == adapter_config[position.config] IN
     \/ /\ T!DepositAllowed(p, c, user, mint, amount)
        /\ user_position' = [user_position EXCEPT ![position] = T!AfterDeposit(p, amount)]
        /\ announced' = [announced EXCEPT ![position] = @ + amount]
     \/ /\ T!WithdrawAllowed(p, c, user, mint, amount)
        /\ user_position' = [user_position EXCEPT ![position] = T!AfterWithdraw(p, amount)]
        /\ announced' = [announced EXCEPT ![position] = @ - amount]
  /\ UNCHANGED <<registryVars, adapter_config, tx>>

SetUpAdapter(mint, version) ==
  /\ T!initialize_adapter(mint, version)
  /\ UNCHANGED <<registryVars, tx, announced>>

OpenPosition(user, configuration) ==
  /\ T!initialize_position(user, configuration)
  /\ announced' = [a \in DOMAIN announced \cup {T!PositionAddress(configuration, user)} |->
                     IF a \in DOMAIN announced THEN announced[a] ELSE 0]
  /\ UNCHANGED <<registryVars, tx>>

Init ==
  /\ R!Init
  /\ T!TemplateInit
  /\ tx = [t \in Txs |-> Idle]
  /\ announced = [a \in {} |-> {}]

Route(t) ==
  \/ \E user \in Users, address \in DOMAIN entries, position \in DOMAIN user_position :
       Begin(t, user, address, position)
  \/ \E ix \in Instruction : Enter(t, ix)
  \/ CallTemplate(t)
  \/ CallOther(t)
  \/ Finish(t)
  \/ Commit(t)

Next ==
  \/ Governance
  \/ \E t \in Txs : Route(t)
  \/ \E mint \in Mints, version \in Versions : SetUpAdapter(mint, version)
  \/ \E user \in Users :
       \/ \E configuration \in DOMAIN adapter_config : OpenPosition(user, configuration)
       \/ \E position \in DOMAIN user_position, mint \in Mints, amount \in 0 .. MaxU64 :
            Direct(user, position, mint, amount)

Spec == Init /\ [][Next]_vars

-----------------------------------------------------------------------------
(* Properties.                                                             *)

(* Transactions hold well-typed working copies, the template's accounts    *)
(* have their types and every position account is announced.               *)
TypeOK ==
  /\ tx \in [Txs -> {Idle} \cup Running]
  /\ adapter_config \in [DOMAIN adapter_config -> T!AdapterConfig]
  /\ user_position \in [DOMAIN user_position -> T!UserPosition]
  /\ announced \in [DOMAIN user_position -> 0 .. MaxU64]

(* From the check of the entry until the instruction ends, the entry the   *)
(* dispatcher relied on is still Approved and still names the program that *)
(* is being called and the mint that is moved: governance cannot pause or  *)
(* retire it under a call (dispatcher lib.rs:304-325).                     *)
CallsApprovedAdapter ==
  \A t \in InFlight :
    tx[t].pc \in {"calling", "returned"} =>
      /\ entries[tx[t].entry].status = "Approved"
      /\ entries[tx[t].entry].adapter_program_id = tx[t].ix.program
      /\ entries[tx[t].entry].supported_mint = tx[t].ix.mint

(* The books balance: over any mix of routed and direct calls, of parallel *)
(* transactions and of aborts half way, a position holds exactly what the  *)
(* events of committed transactions say went in less what went out, its    *)
(* three fields agree, and it is still the owner's.                        *)
BooksBalance ==
  \A a \in DOMAIN user_position :
    LET p == user_position[a] IN
    /\ p.deposited_amount = announced[a]
    /\ p.shares = p.deposited_amount /\ p.last_value = p.deposited_amount
    /\ p.owner = a.owner

(* A value announced by CurrentValueQueried was set by the adapter that    *)
(* was called, never by a program below it or by an earlier call; for the  *)
(* template it is the caller's balance at that point of the transaction.   *)
QuoteIsTheAdapters ==
  \A t \in InFlight :
    tx[t].quote.made =>
      /\ tx[t].quote.source = tx[t].quote.program
      /\ tx[t].quote.program = entries[tx[t].entry].adapter_program_id
      /\ tx[t].quote.program = Template =>
           tx[t].quote.value = tx[t].work.deposited_amount

(* While a transaction runs, the committed position under it stands still: *)
(* the working copy differs from it by exactly what the transaction's own  *)
(* events announce, and by nothing at all when the signer is not the owner *)
(* (the dispatcher passes any position account through unchecked; only the *)
(* adapter's validate_owner stands between).                               *)
NoLostUpdate ==
  \A t \in InFlight :
    LET committed == user_position[tx[t].position] IN
    /\ tx[t].pc = "ready" =>
         tx[t].work.deposited_amount = committed.deposited_amount + tx[t].moved
    /\ tx[t].user # tx[t].position.owner => tx[t].work = committed

(* A routed movement is approved when it takes effect, not only when it    *)
(* was asked for: a transaction that changes a position when it commits is *)
(* its owner's, and the entry it went through is then still Approved, for  *)
(* the template and for the mint of the position's own configuration,      *)
(* although several instructions, their calls and governance lie between   *)
(* the check of the entry and the commit (dispatcher lib.rs:304-325).      *)
RoutedMovesAreApproved ==
  [][\A position \in DOMAIN user_position :
       user_position'[position] # user_position[position] /\ tx' # tx =>
         \E t \in InFlight :
           LET e == entries'[tx[t].entry] IN
           /\ tx[t].position = position /\ tx[t].user = position.owner
           /\ e.status = "Approved" /\ e.adapter_program_id = Template
           /\ e.supported_mint = position.config.mint]_vars
=============================================================================
