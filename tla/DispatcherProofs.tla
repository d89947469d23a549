-------------------------- MODULE DispatcherProofs --------------------------
(***************************************************************************)
(* The dispatcher's properties for every number of users, transactions,    *)
(* programs, mints and every width of a u64.  The inductive invariant says *)
(* of each transaction in flight what its working copy, its instruction    *)
(* and its announcements have to do with the accounts it has locked; the   *)
(* locks make it stable under every other actor.                           *)
(***************************************************************************)
EXTENDS Dispatcher, TLAPS

Configurations == [mint: Mints, version: Versions]
Positions == [config: Configurations, owner: Users]

-----------------------------------------------------------------------------
(* The inductive invariant.                                                *)

(* The three fields of a position agree and it is its owner's. *)
Balanced(position, address) ==
  /\ position.shares = position.deposited_amount
  /\ position.last_value = position.deposited_amount
  /\ position.owner = address.owner

SharedOK ==
  /\ DOMAIN entries \subseteq R!Addresses
  /\ adapter_config \in [DOMAIN adapter_config -> T!AdapterConfig]
  /\ DOMAIN adapter_config \subseteq Configurations
  /\ user_position \in [DOMAIN user_position -> T!UserPosition]
  /\ DOMAIN user_position \subseteq Positions
  /\ DOMAIN announced = DOMAIN user_position
  /\ announced = [a \in DOMAIN user_position |-> user_position[a].deposited_amount]
  /\ \A a \in DOMAIN user_position : Balanced(user_position[a], a)

(* What the call under way has put into the copy and no event has said yet. *)
Outstanding(r) == IF r.pc = "returned" THEN Moved(r.ix) ELSE 0

(* The copy against the committed position it was taken from. *)
Accounted(r, committed) ==
  /\ r.work.deposited_amount = committed.deposited_amount + r.moved + Outstanding(r)
  /\ r.user # r.position.owner => r.work = committed

(* An instruction in progress relies on an entry that still allows it. *)
Relied(r, e) ==
  r.pc \in {"calling", "returned"} =>
    /\ e.status = "Approved"
    /\ e.adapter_program_id = r.ix.program
    /\ e.supported_mint = r.ix.mint
    /\ r.ix \in Instruction /\ r.done < MaxIx /\ ~r.quote.made

(* The answer of a query, and the announcement made from it. *)
Answered(r, e) ==
  /\ r.pc = "returned" /\ r.ix.op = "current_value" /\ r.ix.program = Template =>
       r.data.value = r.work.deposited_amount
  /\ r.quote.made =>
       /\ r.quote.source = r.quote.program
       /\ r.quote.program = e.adapter_program_id
       /\ r.quote.program = Template => r.quote.value = r.work.deposited_amount

(* A transaction in flight, over given entries and position accounts. *)
TransactionOK(r, es, positions) ==
  /\ r \in Running
  /\ r.entry \in DOMAIN es
  /\ r.position \in DOMAIN positions
  /\ Balanced(r.work, r.position)
  /\ Accounted(r, positions[r.position])
  /\ Relied(r, es[r.entry])
  /\ Answered(r, es[r.entry])

Exclusive ==
  \A s, t \in InFlight : s # t => tx[s].position # tx[t].position

IInv ==
  /\ SharedOK
  /\ tx = [t \in Txs |-> tx[t]]
  /\ \A t \in Txs : tx[t] = Idle \/ TransactionOK(tx[t], entries, user_position)
  /\ Exclusive

-----------------------------------------------------------------------------
(* What the invariant gives: the five properties of the component.         *)

LEMMA InvariantSuffices ==
  ASSUME IInv
  PROVE  /\ TypeOK /\ CallsApprovedAdapter /\ BooksBalance
         /\ QuoteIsTheAdapters /\ NoLostUpdate
<1>1. tx \in [Txs -> {Idle} \cup Running]
  BY DEF IInv, TransactionOK
<1>2. \A t \in InFlight : TransactionOK(tx[t], entries, user_position)
  BY DEF IInv, InFlight, Idle
<1>3. \A a \in DOMAIN user_position :
        /\ user_position[a].deposited_amount \in 0 .. MaxU64
        /\ announced[a] = user_position[a].deposited_amount
  BY DEF IInv, SharedOK, T!UserPosition, T!Amounts
<1>4. TypeOK
  BY <1>1, <1>3 DEF TypeOK, IInv, SharedOK
<1>5. CallsApprovedAdapter
  BY <1>2 DEF CallsApprovedAdapter, TransactionOK, Relied
<1>6. BooksBalance
  BY <1>3 DEF BooksBalance, IInv, SharedOK, Balanced
<1>7. QuoteIsTheAdapters
  BY <1>2 DEF QuoteIsTheAdapters, TransactionOK, Answered
<1>8. NoLostUpdate
  <2> SUFFICES ASSUME NEW t \in InFlight
               PROVE  LET committed == user_position[tx[t].position] IN
                      /\ tx[t].pc = "ready" =>
                           tx[t].work.deposited_amount
                             = committed.deposited_amount + tx[t].moved
                      /\ tx[t].user # tx[t].position.owner => tx[t].work = committed
    BY DEF NoLostUpdate
  <2>1. /\ Accounted(tx[t], user_position[tx[t].position])
        /\ tx[t] \in Running /\ tx[t].position \in DOMAIN user_position
    BY <1>2 DEF TransactionOK
  <2>2. /\ user_position[tx[t].position].deposited_amount \in Int
        /\ tx[t].moved \in Int
    BY <2>1, <1>3 DEF Running
  <2> QED
    BY <2>1, <2>2 DEF Accounted, Outstanding
<1> QED
  BY <1>4, <1>5, <1>6, <1>7, <1>8

-----------------------------------------------------------------------------
(* The initial state.                                                      *)

LEMMA InvariantInit == Init => IInv
<1> SUFFICES ASSUME Init PROVE IInv
  OBVIOUS
<1>1. /\ DOMAIN entries = {} /\ DOMAIN user_position = {} /\ DOMAIN adapter_config = {}
      /\ DOMAIN announced = {}
  BY DEF Init, R!Init, T!TemplateInit
<1>2. /\ adapter_config = [a \in {} |-> {}] /\ user_position = [a \in {} |-> {}]
      /\ announced = [a \in {} |-> {}]
  BY DEF Init, T!TemplateInit
<1>3. SharedOK
  BY <1>1, <1>2 DEF SharedOK
<1>4. tx = [t \in Txs |-> Idle]
  BY DEF Init
<1>5. InFlight = {}
  BY <1>4 DEF InFlight, Idle
<1> QED
  BY <1>3, <1>4, <1>5 DEF IInv, Exclusive

-----------------------------------------------------------------------------
(* Steps of one transaction.  Everything but tx stands still, so it is     *)
(* enough that the transaction's next record is sound and keeps its locks. *)

LEMMA AdvanceKeeps ==
  ASSUME IInv, NEW t \in InFlight, NEW next, Advance(t, next),
         TransactionOK(next, entries, user_position),
         next.position = tx[t].position
  PROVE  IInv'
<1>1. /\ UNCHANGED <<entries, adapter_config, user_position, announced>>
      /\ tx' = [tx EXCEPT ![t] = next]
  BY DEF Advance, registryVars, templateVars
<1>2. SharedOK'
  BY <1>1 DEF IInv, SharedOK
<1>3. /\ tx' = [s \in Txs |-> tx'[s]]
      /\ \A s \in Txs : tx'[s] = IF s = t THEN next ELSE tx[s]
  BY <1>1 DEF IInv, InFlight
<1>4. \A s \in Txs : tx'[s] = Idle \/ TransactionOK(tx'[s], entries', user_position')
  BY <1>1, <1>3 DEF IInv
<1>5. /\ InFlight' \subseteq InFlight
      /\ \A s \in InFlight' : tx'[s].position = tx[s].position
  BY <1>3 DEF InFlight
<1>6. Exclusive'
  BY <1>5 DEF Exclusive, IInv
<1> QED
  BY <1>2, <1>3, <1>4, <1>6 DEF IInv

LEMMA AbortKeeps ==
  ASSUME IInv, NEW t \in InFlight, Abort(t)
  PROVE  IInv'
<1>1. /\ UNCHANGED <<entries, adapter_config, user_position, announced>>
      /\ tx' = [tx EXCEPT ![t] = Idle]
  BY DEF Abort, registryVars, templateVars
<1>2. SharedOK'
  BY <1>1 DEF IInv, SharedOK
<1>3. /\ tx' = [s \in Txs |-> tx'[s]]
      /\ \A s \in Txs : tx'[s] = IF s = t THEN Idle ELSE tx[s]
  BY <1>1 DEF IInv, InFlight
<1>4. \A s \in Txs : tx'[s] = Idle \/ TransactionOK(tx'[s], entries', user_position')
  BY <1>1, <1>3 DEF IInv
<1>5. /\ InFlight' \subseteq InFlight
      /\ \A s \in InFlight' : tx'[s].position = tx[s].position
  BY <1>3 DEF InFlight, Idle
<1>6. Exclusive'
  BY <1>5 DEF Exclusive, IInv
<1> QED
  BY <1>2, <1>3, <1>4, <1>6 DEF IInv

LEMMA Blanks ==
  /\ NoData \in ReturnData /\ NoQuote \in Quote
  /\ NoData = [set |-> FALSE, program |-> Template, length |-> 0, value |-> 0]
  /\ ~NoQuote.made
BY DispatcherConstants DEF NoData, NoQuote, ReturnData, Quote, Lengths

LEMMA BeginKeeps ==
  ASSUME IInv, NEW t \in Txs, NEW user \in Users, NEW address, NEW position,
         Begin(t, user, address, position)
  PROVE  IInv'
<1> DEFINE next ==
      [pc |-> "ready", user |-> user, entry |-> address, position |-> position,
       work |-> user_position[position], ix |-> NoInstruction, data |-> NoData,
       moved |-> 0, quote |-> NoQuote, done |-> 0]
<1>1. /\ t \notin InFlight /\ address \in DOMAIN entries
      /\ position \in DOMAIN user_position /\ ~WriteLocked(position)
      /\ tx' = [tx EXCEPT ![t] = next]
      /\ UNCHANGED <<entries, adapter_config, user_position, announced>>
  BY DEF Begin, registryVars, templateVars
<1>2. /\ user_position[position] \in T!UserPosition
      /\ Balanced(user_position[position], position)
      /\ position \in Positions /\ address \in R!Addresses
  BY <1>1 DEF IInv, SharedOK
<1>3. next \in Running
  BY <1>1, <1>2, Blanks, DispatcherConstants DEF Running, Positions, Configurations
<1>4. user_position[position].deposited_amount \in Int
  BY <1>2 DEF T!UserPosition, T!Amounts
<1>5. TransactionOK(next, entries, user_position)
  <2>1. /\ Balanced(next.work, next.position)
        /\ Accounted(next, user_position[next.position])
    BY <1>2, <1>4 DEF Accounted, Outstanding
  <2>2. Relied(next, entries[next.entry]) /\ Answered(next, entries[next.entry])
    BY Blanks DEF Relied, Answered
  <2> QED
    BY <1>1, <1>3, <2>1, <2>2 DEF TransactionOK
<1>6. SharedOK'
  BY <1>1 DEF IInv, SharedOK
<1>7. next.position = position /\ next.pc = "ready"
  OBVIOUS
<1> HIDE DEF next
<1>8. /\ tx' = [s \in Txs |-> tx'[s]]
      /\ \A s \in Txs : tx'[s] = IF s = t THEN next ELSE tx[s]
  BY <1>1 DEF IInv
<1>9. \A s \in Txs : tx'[s] = Idle \/ TransactionOK(tx'[s], entries', user_position')
  BY <1>1, <1>5, <1>8 DEF IInv
<1>10. Exclusive'
  <2> SUFFICES ASSUME NEW q \in InFlight', NEW s \in InFlight', q # s
               PROVE  tx'[q].position # tx'[s].position
    BY DEF Exclusive
  <2>1. CASE q = t
    BY <2>1, <1>1, <1>7, <1>8 DEF InFlight, WriteLocked
  <2>2. CASE s = t
    BY <2>2, <1>1, <1>7, <1>8 DEF InFlight, WriteLocked
  <2>3. CASE q # t /\ s # t
    BY <2>3, <1>8 DEF InFlight, IInv, Exclusive
  <2> QED
    BY <2>1, <2>2, <2>3
<1> QED
  BY <1>6, <1>8, <1>9, <1>10 DEF IInv

LEMMA EnterKeeps ==
  ASSUME IInv, NEW t \in InFlight, NEW ix \in Instruction, Enter(t, ix)
  PROVE  IInv'
<1>1. CASE ~Accepts(t, ix)
  BY <1>1, AbortKeeps DEF Enter
<1>2. CASE Accepts(t, ix)
  <2> DEFINE r == tx[t]
             next == [r EXCEPT !.pc = "calling", !.ix = ix, !.data = NoData,
                               !.quote = NoQuote]
  <2>1. Advance(t, next) /\ r.pc = "ready" /\ r.done < MaxIx
    BY <1>2 DEF Enter
  <2>2. TransactionOK(r, entries, user_position)
    BY DEF IInv, InFlight, Idle
  <2>3. /\ entries[r.entry].status = "Approved"
        /\ ix.program = entries[r.entry].adapter_program_id
        /\ ix.mint = entries[r.entry].supported_mint
    BY <1>2 DEF Accepts, validate_adapter_entry
  <2>4. r \in Running
    BY <2>2 DEF TransactionOK
  <2> HIDE DEF r
  <2>5. next \in Running
    BY <2>4, Blanks DEF Running
  <2>6. /\ next.pc = "calling" /\ next.ix = ix /\ next.quote = NoQuote
        /\ next.user = r.user /\ next.entry = r.entry /\ next.position = r.position
        /\ next.work = r.work /\ next.moved = r.moved /\ next.done = r.done
    BY <2>4 DEF Running
  <2> HIDE DEF next
  <2>7. TransactionOK(next, entries, user_position)
    <3>1. Balanced(next.work, next.position)
      BY <2>2, <2>6 DEF TransactionOK
    <3>2. Accounted(next, user_position[next.position])
      BY <2>1, <2>2, <2>6 DEF TransactionOK, Accounted, Outstanding
    <3>3. Relied(next, entries[next.entry])
      BY <2>1, <2>3, <2>6, Blanks DEF Relied
    <3>4. Answered(next, entries[next.entry])
      BY <2>6, Blanks DEF Answered
    <3> QED
      BY <2>2, <2>5, <2>6, <3>1, <3>2, <3>3, <3>4 DEF TransactionOK
  <2> QED
    BY <2>1, <2>6, <2>7, AdvanceKeeps DEF r
<1> QED
  BY <1>1, <1>2

(* The template's results on a position whose fields agree. *)
LEMMA DepositEffect ==
  ASSUME NEW p \in T!UserPosition, NEW a, NEW amount \in 0 .. MaxU64, Balanced(p, a),
         p.deposited_amount + amount <= MaxU64
  PROVE  /\ T!AfterDeposit(p, amount) \in T!UserPosition
         /\ Balanced(T!AfterDeposit(p, amount), a)
         /\ T!AfterDeposit(p, amount).deposited_amount = p.deposited_amount + amount
<1> DEFINE n == p.deposited_amount + amount
<1>1. /\ p.deposited_amount \in 0 .. MaxU64 /\ p.shares = p.deposited_amount
      /\ p.last_value = p.deposited_amount /\ p.owner \in Users /\ p.owner = a.owner
  BY DEF T!UserPosition, T!Amounts, Balanced
<1>2. n \in 0 .. MaxU64
  BY <1>1, DispatcherConstants
<1>3. T!AfterDeposit(p, amount)
        = [p EXCEPT !.deposited_amount = n, !.shares = n, !.last_value = n]
  BY <1>1 DEF T!AfterDeposit
<1> HIDE DEF n
<1>4. /\ [p EXCEPT !.deposited_amount = n, !.shares = n, !.last_value = n]
           \in T!UserPosition
      /\ Balanced([p EXCEPT !.deposited_amount = n, !.shares = n, !.last_value = n], a)
      /\ [p EXCEPT !.deposited_amount = n, !.shares = n, !.last_value = n].deposited_amount
           = n
  BY <1>1, <1>2 DEF T!UserPosition, T!Amounts, Balanced
<1> QED
  BY <1>3, <1>4 DEF n

LEMMA WithdrawEffect ==
  ASSUME NEW p \in T!UserPosition, NEW a, NEW amount \in 0 .. MaxU64, Balanced(p, a),
         amount <= p.deposited_amount
  PROVE  /\ T!AfterWithdraw(p, amount) \in T!UserPosition
         /\ Balanced(T!AfterWithdraw(p, amount), a)
         /\ T!AfterWithdraw(p, amount).deposited_amount = p.deposited_amount - amount
<1> DEFINE n == p.deposited_amount - amount
<1>1. /\ p.deposited_amount \in 0 .. MaxU64 /\ p.shares = p.deposited_amount
      /\ p.last_value = p.deposited_amount /\ p.owner \in Users /\ p.owner = a.owner
  BY DEF T!UserPosition, T!Amounts, Balanced
<1>2. n \in 0 .. MaxU64
  BY <1>1, DispatcherConstants
<1>3. T!AfterWithdraw(p, amount)
        = [p EXCEPT !.deposited_amount = n, !.shares = n, !.last_value = n]
  BY <1>1 DEF T!AfterWithdraw
<1> HIDE DEF n
<1>4. /\ [p EXCEPT !.deposited_amount = n, !.shares = n, !.last_value = n]
           \in T!UserPosition
      /\ Balanced([p EXCEPT !.deposited_amount = n, !.shares = n, !.last_value = n], a)
      /\ [p EXCEPT !.deposited_amount = n, !.shares = n, !.last_value = n].deposited_amount
           = n
  BY <1>1, <1>2 DEF T!UserPosition, T!Amounts, Balanced
<1> QED
  BY <1>3, <1>4 DEF n

(* A call that returns with a new copy of the position and its data. *)
Returned(r, work, data) ==
  [r EXCEPT !.pc = "returned", !.work = work, !.data = data]

LEMMA ReturnKeeps ==
  ASSUME IInv, NEW t \in InFlight, NEW work, NEW data \in ReturnData,
         Advance(t, Returned(tx[t], work, data)),
         tx[t].pc = "calling",
         work \in T!UserPosition, Balanced(work, tx[t].position),
         work.deposited_amount = tx[t].work.deposited_amount + Moved(tx[t].ix),
         tx[t].user # tx[t].position.owner => work = tx[t].work,
         tx[t].ix.op = "current_value" /\ tx[t].ix.program = Template =>
           data.value = work.deposited_amount
  PROVE  IInv'
<1> DEFINE r == tx[t]
           next == Returned(r, work, data)
<1>1. TransactionOK(r, entries, user_position)
  BY DEF IInv, InFlight, Idle
<1>2. r \in Running
  BY <1>1 DEF TransactionOK
<1>3. Advance(t, next) /\ r.pc = "calling"
  OBVIOUS
<1>4. /\ work.deposited_amount = r.work.deposited_amount + Moved(r.ix)
      /\ r.user # r.position.owner => work = r.work
      /\ r.ix.op = "current_value" /\ r.ix.program = Template =>
           data.value = work.deposited_amount
      /\ Balanced(work, r.position)
  OBVIOUS
<1>5. /\ r.moved \in Int /\ r.work.deposited_amount \in Int
      /\ user_position[r.position].deposited_amount \in Int
  BY <1>1, <1>2 DEF Running, IInv, SharedOK, T!UserPosition, T!Amounts, TransactionOK
<1> HIDE DEF r
<1>6. r.ix \in Instruction /\ r.done < MaxIx /\ ~r.quote.made
  BY <1>1, <1>3 DEF TransactionOK, Relied
<1>7. Moved(r.ix) \in Int
  BY <1>6, DispatcherConstants DEF Moved, Instruction
<1>8. next \in Running
  BY <1>2 DEF Running, Returned
<1>9. /\ next.pc = "returned" /\ next.ix = r.ix /\ next.quote = r.quote
      /\ next.user = r.user /\ next.entry = r.entry /\ next.position = r.position
      /\ next.work = work /\ next.moved = r.moved /\ next.done = r.done
      /\ next.data = data
  BY <1>2 DEF Running, Returned
<1> HIDE DEF next
<1>10. TransactionOK(next, entries, user_position)
  <2>1. Accounted(next, user_position[next.position])
    BY <1>1, <1>3, <1>4, <1>5, <1>7, <1>9 DEF TransactionOK, Accounted, Outstanding
  <2>2. Relied(next, entries[next.entry])
    BY <1>1, <1>3, <1>9 DEF TransactionOK, Relied
  <2>3. Answered(next, entries[next.entry])
    BY <1>4, <1>6, <1>9 DEF Answered
  <2> QED
    BY <1>1, <1>4, <1>8, <1>9, <2>1, <2>2, <2>3 DEF TransactionOK
<1> QED
  BY <1>3, <1>9, <1>10, AdvanceKeeps DEF r

LEMMA CallTemplateKeeps ==
  ASSUME IInv, NEW t \in InFlight, CallTemplate(t)
  PROVE  IInv'
<1> DEFINE r == tx[t]
<1>1. TransactionOK(r, entries, user_position)
  BY DEF IInv, InFlight, Idle
<1>2. /\ r \in Running /\ r.pc = "calling" /\ r.ix.program = Template
      /\ r.ix \in Instruction
  BY <1>1 DEF TransactionOK, Relied, CallTemplate
<1>3. /\ r.work \in T!UserPosition /\ Balanced(r.work, r.position)
      /\ r.ix.amount \in 0 .. MaxU64 /\ r.data \in ReturnData
      /\ r.ix.op \in {"deposit", "withdraw", "current_value"}
  BY <1>1, <1>2 DEF TransactionOK, Running, Instruction, Operations
<1>4. r.work.deposited_amount \in 0 .. MaxU64
  BY <1>3 DEF T!UserPosition, T!Amounts
<1>5. CASE ~TemplateAllows(t)
  BY <1>5, AbortKeeps DEF CallTemplate
<1>6. CASE TemplateAllows(t)
  <2>1. Advance(t, TemplateResult(t))
    BY <1>6 DEF CallTemplate
  <2>2. r.user = r.position.owner
    BY <1>3, <1>6 DEF TemplateAllows, T!DepositAllowed, T!WithdrawAllowed,
       T!CurrentValueAllowed, T!validate_owner, Balanced
  <2>3. CASE r.ix.op = "deposit"
    <3> DEFINE work == T!AfterDeposit(r.work, r.ix.amount)
    <3>1. r.work.deposited_amount + r.ix.amount <= MaxU64
      BY <1>6, <2>3 DEF TemplateAllows, T!DepositAllowed
    <3>2. /\ work \in T!UserPosition /\ Balanced(work, r.position)
          /\ work.deposited_amount = r.work.deposited_amount + Moved(r.ix)
      BY <1>2, <1>3, <2>3, <3>1, DepositEffect DEF Moved
    <3>3. TemplateResult(t) = [r EXCEPT !.pc = "returned", !.work = work]
      BY <2>3 DEF TemplateResult
    <3> HIDE DEF work
    <3>4. TemplateResult(t) = Returned(r, work, r.data)
      BY <1>2, <3>3 DEF Running, Returned
    <3> QED
      BY <1>2, <1>3, <2>1, <2>2, <2>3, <3>2, <3>4, ReturnKeeps
  <2>4. CASE r.ix.op = "withdraw"
    <3> DEFINE work == T!AfterWithdraw(r.work, r.ix.amount)
    <3>1. r.ix.amount <= r.work.deposited_amount
      BY <1>6, <2>4 DEF TemplateAllows, T!WithdrawAllowed
    <3>2. /\ work \in T!UserPosition /\ Balanced(work, r.position)
          /\ work.deposited_amount = r.work.deposited_amount - r.ix.amount
      BY <1>3, <3>1, WithdrawEffect
    <3>3. work.deposited_amount = r.work.deposited_amount + Moved(r.ix)
      BY <1>2, <1>3, <1>4, <2>4, <3>2, DispatcherConstants DEF Moved
    <3>4. TemplateResult(t) = [r EXCEPT !.pc = "returned", !.work = work]
      BY <2>4 DEF TemplateResult
    <3> HIDE DEF work
    <3>5. TemplateResult(t) = Returned(r, work, r.data)
      BY <1>2, <3>4 DEF Running, Returned
    <3> QED
      BY <1>2, <1>3, <2>1, <2>2, <2>4, <3>2, <3>3, <3>5, ReturnKeeps
  <2>5. CASE r.ix.op = "current_value"
    <3> DEFINE data == [set |-> TRUE, program |-> Template, length |-> 8,
                        value |-> T!current_value(r.work)]
    <3>1. data.value = r.work.deposited_amount
      BY <1>3 DEF T!current_value, Balanced
    <3>2. data \in ReturnData
      BY <1>4, <3>1, DispatcherConstants DEF ReturnData, Lengths
    <3>3. r.work.deposited_amount = r.work.deposited_amount + Moved(r.ix)
      BY <1>4, <2>5, DispatcherConstants DEF Moved
    <3>4. TemplateResult(t) = [r EXCEPT !.pc = "returned", !.data = data]
      BY <2>5 DEF TemplateResult
    <3> HIDE DEF data
    <3>5. TemplateResult(t) = Returned(r, r.work, data)
      BY <1>2, <3>4 DEF Running, Returned
    <3> QED
      BY <1>2, <1>3, <2>1, <2>2, <3>1, <3>2, <3>3, <3>5, ReturnKeeps
  <2> QED
    BY <1>3, <2>3, <2>4, <2>5
<1> QED
  BY <1>5, <1>6

LEMMA CallOtherKeeps ==
  ASSUME IInv, NEW t \in InFlight, CallOther(t)
  PROVE  IInv'
<1> DEFINE r == tx[t]
<1>1. TransactionOK(r, entries, user_position)
  BY DEF IInv, InFlight, Idle
<1>2. /\ r \in Running /\ r.pc = "calling" /\ r.ix.program # Template
      /\ r.ix \in Instruction
  BY <1>1 DEF TransactionOK, Relied, CallOther
<1>3. /\ r.work \in T!UserPosition /\ Balanced(r.work, r.position)
      /\ r.data \in ReturnData
  BY <1>1, <1>2 DEF TransactionOK, Running
<1>4. r.work.deposited_amount = r.work.deposited_amount + Moved(r.ix)
  BY <1>2, <1>3, DispatcherConstants DEF T!UserPosition, T!Amounts, Moved
<1>5. CASE Abort(t)
  BY <1>5, AbortKeeps
<1>6. ASSUME NEW data \in ReturnData,
             Advance(t, Returned(r, r.work, data))
      PROVE  IInv'
  BY <1>2, <1>3, <1>4, <1>6, ReturnKeeps
<1>7. CASE Advance(t, [r EXCEPT !.pc = "returned"])
  <2>1. [r EXCEPT !.pc = "returned"] = Returned(r, r.work, r.data)
    BY <1>2 DEF Running, Returned
  <2> QED
    BY <1>3, <1>6, <1>7, <2>1
<1>8. ASSUME NEW program \in Programs, NEW length \in Lengths,
             Advance(t, [r EXCEPT !.pc = "returned",
                           !.data = [set |-> TRUE, program |-> program,
                                     length |-> length, value |-> MaxU64]])
      PROVE  IInv'
  <2> DEFINE data == [set |-> TRUE, program |-> program, length |-> length,
                      value |-> MaxU64]
  <2>1. data \in ReturnData
    BY DispatcherConstants DEF ReturnData, Lengths
  <2>2. Advance(t, [r EXCEPT !.pc = "returned", !.data = data])
    BY <1>8
  <2> HIDE DEF data
  <2>3. [r EXCEPT !.pc = "returned", !.data = data] = Returned(r, r.work, data)
    BY <1>2 DEF Running, Returned
  <2> QED
    BY <1>6, <2>1, <2>2, <2>3
<1> QED
  BY <1>5, <1>7, <1>8 DEF CallOther

(* The end of an instruction, with the announcement it leaves. *)
Finished(r, quote) ==
  [r EXCEPT !.pc = "ready", !.done = @ + 1, !.moved = @ + Moved(r.ix),
            !.ix = NoInstruction, !.data = NoData, !.quote = quote]

LEMMA FinishedKeeps ==
  ASSUME IInv, NEW t \in InFlight, NEW quote \in Quote,
         Advance(t, Finished(tx[t], quote)), tx[t].pc = "returned",
         quote.made =>
           /\ quote.source = quote.program
           /\ quote.program = entries[tx[t].entry].adapter_program_id
           /\ quote.program = Template => quote.value = tx[t].work.deposited_amount
  PROVE  IInv'
<1> DEFINE r == tx[t]
           next == Finished(r, quote)
<1>1. TransactionOK(r, entries, user_position)
  BY DEF IInv, InFlight, Idle
<1>2. r \in Running
  BY <1>1 DEF TransactionOK
<1>3. Advance(t, next) /\ r.pc = "returned"
  OBVIOUS
<1>4. quote.made =>
        /\ quote.source = quote.program
        /\ quote.program = entries[r.entry].adapter_program_id
        /\ quote.program = Template => quote.value = r.work.deposited_amount
  OBVIOUS
<1>5. r.ix \in Instruction /\ r.done < MaxIx
  BY <1>1, <1>3 DEF TransactionOK, Relied
<1>6. /\ r.moved \in Int /\ r.done \in 0 .. MaxIx /\ r.work.deposited_amount \in Int
      /\ user_position[r.position].deposited_amount \in Int
  BY <1>1, <1>2 DEF Running, IInv, SharedOK, T!UserPosition, T!Amounts, TransactionOK
<1> HIDE DEF r
<1>7. Moved(r.ix) \in Int
  BY <1>5, DispatcherConstants DEF Moved, Instruction
<1>8. r.done + 1 \in 0 .. MaxIx /\ r.moved + Moved(r.ix) \in Int
  BY <1>5, <1>6, <1>7, DispatcherConstants
<1>9. next \in Running
  BY <1>2, <1>8, Blanks DEF Running, Finished
<1>10. /\ next.pc = "ready" /\ next.quote = quote /\ next.moved = r.moved + Moved(r.ix)
       /\ next.user = r.user /\ next.entry = r.entry /\ next.position = r.position
       /\ next.work = r.work
  BY <1>2 DEF Running, Finished
<1> HIDE DEF next
<1>11. TransactionOK(next, entries, user_position)
  <2>1. Accounted(next, user_position[next.position])
    BY <1>1, <1>3, <1>6, <1>7, <1>10 DEF TransactionOK, Accounted, Outstanding
  <2>2. Relied(next, entries[next.entry]) /\ Answered(next, entries[next.entry])
    BY <1>4, <1>10 DEF Relied, Answered
  <2> QED
    BY <1>1, <1>9, <1>10, <2>1, <2>2 DEF TransactionOK
<1> QED
  BY <1>3, <1>10, <1>11, AdvanceKeeps DEF r

LEMMA FinishKeeps ==
  ASSUME IInv, NEW t \in InFlight, Finish(t)
  PROVE  IInv'
<1> DEFINE r == tx[t]
<1>1. TransactionOK(r, entries, user_position)
  BY DEF IInv, InFlight, Idle
<1>2. /\ r \in Running /\ r.pc = "returned" /\ ~r.quote.made
      /\ r.ix.program = entries[r.entry].adapter_program_id
  BY <1>1 DEF TransactionOK, Relied, Finish
<1>3. r.quote \in Quote /\ r.data \in ReturnData
  BY <1>2 DEF Running
<1>4. CASE r.ix.op # "current_value"
  <2>1. Advance(t, [r EXCEPT !.pc = "ready", !.done = @ + 1, !.moved = @ + Moved(r.ix),
                             !.ix = NoInstruction, !.data = NoData])
    BY <1>4 DEF Finish
  <2>2. [r EXCEPT !.pc = "ready", !.done = @ + 1, !.moved = @ + Moved(r.ix),
                  !.ix = NoInstruction, !.data = NoData] = Finished(r, r.quote)
    BY <1>2 DEF Running, Finished
  <2> QED
    BY <1>2, <1>3, <2>1, <2>2, FinishedKeeps
<1>5. CASE r.ix.op = "current_value" /\ ReturnAccepted(r.data, r.ix.program)
  <2> DEFINE quote == [program |-> r.ix.program, value |-> r.data.value,
                       source |-> r.data.program, made |-> TRUE]
  <2>1. r.data.program = r.ix.program
    BY <1>5 DEF ReturnAccepted
  <2>2. quote \in Quote
    BY <1>3, <2>1 DEF Quote, ReturnData
  <2>3. r.ix.program = Template => r.data.value = r.work.deposited_amount
    BY <1>1, <1>2, <1>5 DEF TransactionOK, Answered
  <2>4. /\ quote.source = quote.program
        /\ quote.program = entries[r.entry].adapter_program_id
        /\ quote.program = Template => quote.value = r.work.deposited_amount
    BY <1>2, <2>1, <2>3
  <2>5. Advance(t, [[r EXCEPT !.pc = "ready", !.done = @ + 1, !.moved = @ + Moved(r.ix),
                              !.ix = NoInstruction, !.data = NoData] EXCEPT !.quote = quote])
    BY <1>5 DEF Finish
  <2> HIDE DEF quote
  <2>6. [[r EXCEPT !.pc = "ready", !.done = @ + 1, !.moved = @ + Moved(r.ix),
                   !.ix = NoInstruction, !.data = NoData] EXCEPT !.quote = quote]
          = Finished(r, quote)
    BY <1>2 DEF Running, Finished
  <2> QED
    BY <1>2, <2>2, <2>4, <2>5, <2>6, FinishedKeeps
<1>6. CASE r.ix.op = "current_value" /\ ~ReturnAccepted(r.data, r.ix.program)
  BY <1>6, AbortKeeps DEF Finish
<1> QED
  BY <1>4, <1>5, <1>6

-----------------------------------------------------------------------------
(* Steps that write shared accounts.  A transaction in flight does not     *)
(* notice them: the entry it reads and the position it writes are locked.  *)

LEMMA Undisturbed ==
  ASSUME NEW r, NEW es, NEW es2, NEW ps, NEW ps2, TransactionOK(r, es, ps),
         DOMAIN es \subseteq DOMAIN es2, es2[r.entry] = es[r.entry],
         DOMAIN ps \subseteq DOMAIN ps2, ps2[r.position] = ps[r.position]
  PROVE  TransactionOK(r, es2, ps2)
BY DEF TransactionOK

LEMMA CommitKeeps ==
  ASSUME IInv, NEW t \in InFlight, Commit(t)
  PROVE  IInv'
<1> DEFINE r == tx[t]
<1>1. TransactionOK(r, entries, user_position)
  BY DEF IInv, InFlight, Idle
<1>2. /\ r \in Running /\ r.pc = "ready" /\ r.position \in DOMAIN user_position
      /\ r.work \in T!UserPosition /\ Balanced(r.work, r.position)
      /\ Accounted(r, user_position[r.position])
  BY <1>1 DEF TransactionOK, Running, Commit
<1>3. /\ UNCHANGED <<entries, adapter_config>>
      /\ tx' = [tx EXCEPT ![t] = Idle]
      /\ user_position' = [user_position EXCEPT ![r.position] = r.work]
      /\ announced' = [announced EXCEPT ![r.position] = @ + r.moved]
  BY DEF Commit, registryVars
<1>4. announced[r.position] + r.moved = r.work.deposited_amount
  <2>1. announced[r.position] = user_position[r.position].deposited_amount
    BY <1>2 DEF IInv, SharedOK
  <2>2. user_position[r.position].deposited_amount \in Int /\ r.moved \in Int
    BY <1>2 DEF IInv, SharedOK, T!UserPosition, T!Amounts, Running
  <2> QED
    BY <1>2, <2>1, <2>2 DEF Accounted, Outstanding
<1> HIDE DEF r
<1>5. /\ DOMAIN user_position' = DOMAIN user_position
      /\ DOMAIN announced' = DOMAIN user_position
      /\ \A a \in DOMAIN user_position :
           /\ user_position'[a] = IF a = r.position THEN r.work ELSE user_position[a]
           /\ announced'[a] = user_position'[a].deposited_amount
  BY <1>3, <1>4 DEF IInv, SharedOK
<1>6. SharedOK'
  <2>1. user_position' \in [DOMAIN user_position' -> T!UserPosition]
    BY <1>2, <1>3 DEF IInv, SharedOK
  <2>2. announced' = [a \in DOMAIN user_position' |-> user_position'[a].deposited_amount]
    BY <1>3, <1>5 DEF IInv, SharedOK
  <2>3. \A a \in DOMAIN user_position' : Balanced(user_position'[a], a)
    BY <1>2, <1>5 DEF IInv, SharedOK
  <2> QED
    BY <1>3, <1>5, <2>1, <2>2, <2>3 DEF IInv, SharedOK
<1>7. /\ tx' = [s \in Txs |-> tx'[s]]
      /\ \A s \in Txs : tx'[s] = IF s = t THEN Idle ELSE tx[s]
  BY <1>3 DEF IInv, InFlight
<1>8. /\ InFlight' \subseteq InFlight \ {t}
      /\ \A s \in InFlight' : tx'[s] = tx[s]
  BY <1>7 DEF InFlight, Idle
<1>9. ASSUME NEW s \in Txs
      PROVE  tx'[s] = Idle \/ TransactionOK(tx'[s], entries', user_position')
  <2>1. CASE s = t \/ tx[s] = Idle
    BY <1>7, <2>1
  <2>2. CASE s # t /\ tx[s] # Idle
    <3>1. TransactionOK(tx[s], entries, user_position)
      BY <2>2 DEF IInv
    <3>2. s \in InFlight
      BY <3>1 DEF InFlight, TransactionOK, Running
    <3>3. tx[s].position # r.position /\ tx[s].position \in DOMAIN user_position
      BY <2>2, <3>1, <3>2 DEF IInv, Exclusive, r, TransactionOK
    <3>4. /\ entries'[tx[s].entry] = entries[tx[s].entry]
          /\ DOMAIN entries \subseteq DOMAIN entries'
          /\ DOMAIN user_position \subseteq DOMAIN user_position'
          /\ user_position'[tx[s].position] = user_position[tx[s].position]
      BY <1>3, <1>5, <3>3
    <3>5. TransactionOK(tx[s], entries', user_position')
      BY <3>1, <3>4, Undisturbed
    <3> QED
      BY <1>7, <2>2, <3>5
  <2> QED
    BY <2>1, <2>2
<1>10. Exclusive'
  BY <1>8 DEF Exclusive, IInv
<1> QED
  BY <1>6, <1>7, <1>9, <1>10 DEF IInv

(* Steps that leave every transaction alone. *)
LEMMA OthersKeep ==
  ASSUME IInv, UNCHANGED tx, SharedOK',
         DOMAIN entries \subseteq DOMAIN entries',
         DOMAIN user_position \subseteq DOMAIN user_position',
         \A t \in InFlight :
           /\ entries'[tx[t].entry] = entries[tx[t].entry]
           /\ user_position'[tx[t].position] = user_position[tx[t].position]
  PROVE  IInv'
<1>1. ASSUME NEW t \in Txs
      PROVE  tx[t] = Idle \/ TransactionOK(tx[t], entries', user_position')
  <2>1. CASE tx[t] # Idle
    <3>1. TransactionOK(tx[t], entries, user_position)
      BY <2>1 DEF IInv
    <3>2. t \in InFlight
      BY <3>1 DEF InFlight, TransactionOK, Running
    <3> QED
      BY <3>1, <3>2, Undisturbed
  <2> QED
    BY <2>1
<1>2. InFlight' = InFlight /\ Exclusive'
  BY DEF InFlight, Exclusive, IInv
<1> QED
  BY <1>1, <1>2 DEF IInv

(* No registry instruction closes an entry or invents an address. *)
LEMMA EntriesGrow ==
  ASSUME R!Next, DOMAIN entries \subseteq R!Addresses
  PROVE  DOMAIN entries \subseteq DOMAIN entries' /\ DOMAIN entries' \subseteq R!Addresses
<1>1. CASE UNCHANGED entries
  BY <1>1
<1>2. ASSUME NEW signer, NEW address, NEW from, NEW to, NEW kind,
             R!ChangeStatus(signer, address, from, to, kind)
      PROVE  DOMAIN entries' = DOMAIN entries
  BY <1>2 DEF R!ChangeStatus
<1>3. ASSUME NEW signer, NEW address, NEW uri, R!update_adapter_metadata(signer, address, uri)
      PROVE  DOMAIN entries' = DOMAIN entries
  BY <1>3 DEF R!update_adapter_metadata
<1>4. ASSUME NEW signer, R!Govern(signer)
      PROVE  DOMAIN entries' = DOMAIN entries
  BY <1>2, <1>3, <1>4 DEF R!Govern, R!approve_adapter, R!pause_adapter,
     R!unpause_adapter, R!deprecate_adapter
<1>5. ASSUME NEW signer, R!Propose(signer)
      PROVE  DOMAIN entries \subseteq DOMAIN entries' /\ DOMAIN entries' \subseteq R!Addresses
  <2>1. PICK program \in Programs, name \in ProtocolNames, version \in Versions,
             mint \in Mints, uri \in MetadataUris :
             R!propose_adapter(signer, program, name, version, mint, uri)
    BY <1>5 DEF R!Propose
  <2>2. R!EntryAddress(program, mint, version) \in R!Addresses
    BY DEF R!Addresses, R!EntryAddress
  <2>3. DOMAIN entries' = DOMAIN entries \cup {R!EntryAddress(program, mint, version)}
    BY <2>1 DEF R!propose_adapter
  <2> QED
    BY <2>2, <2>3
<1>6. ASSUME NEW signer, R!initialize_registry(signer)
      PROVE  UNCHANGED entries
  BY <1>6 DEF R!initialize_registry
<1>7. ASSUME NEW signer, NEW key, R!transfer_governance(signer, key)
      PROVE  UNCHANGED entries
  BY <1>7 DEF R!transfer_governance
<1>8. CASE R!AdvanceSlot
  BY <1>8 DEF R!AdvanceSlot
<1> QED
  BY <1>1, <1>4, <1>5, <1>6, <1>7, <1>8 DEF R!Next

LEMMA GovernanceKeeps ==
  ASSUME IInv, Governance
  PROVE  IInv'
<1>1. /\ R!Next /\ UNCHANGED <<adapter_config, user_position, tx, announced>>
      /\ \A address \in DOMAIN entries :
           ReadLocked(address) => entries'[address] = entries[address]
  BY DEF Governance, templateVars
<1>2. DOMAIN entries \subseteq DOMAIN entries' /\ DOMAIN entries' \subseteq R!Addresses
  BY <1>1, EntriesGrow DEF IInv, SharedOK
<1>3. SharedOK'
  BY <1>1, <1>2 DEF IInv, SharedOK
<1>4. \A t \in InFlight : tx[t].entry \in DOMAIN entries /\ ReadLocked(tx[t].entry)
  BY DEF IInv, TransactionOK, InFlight, Idle, ReadLocked
<1> QED
  BY <1>1, <1>2, <1>3, <1>4, OthersKeep

LEMMA DirectKeeps ==
  ASSUME IInv, NEW user \in Users, NEW position \in DOMAIN user_position,
         NEW mint \in Mints, NEW amount \in 0 .. MaxU64,
         Direct(user, position, mint, amount)
  PROVE  IInv'
<1> DEFINE p == user_position[position]
           Becomes(work) ==
             /\ user_position' = [user_position EXCEPT ![position] = work]
             /\ announced' = [announced EXCEPT ![position] = work.deposited_amount]
<1>1. /\ ~WriteLocked(position) /\ UNCHANGED <<entries, adapter_config, tx>>
  BY DEF Direct, registryVars
<1>2. /\ p \in T!UserPosition /\ Balanced(p, position)
      /\ announced[position] = p.deposited_amount
  BY DEF IInv, SharedOK
<1>3. \E work \in T!UserPosition : Balanced(work, position) /\ Becomes(work)
  <2>1. ASSUME T!DepositAllowed(p, adapter_config[position.config], user, mint, amount),
               user_position' = [user_position EXCEPT ![position] = T!AfterDeposit(p, amount)],
               announced' = [announced EXCEPT ![position] = @ + amount]
        PROVE  \E work \in T!UserPosition : Balanced(work, position) /\ Becomes(work)
    <3>1. p.deposited_amount + amount <= MaxU64
      BY <2>1 DEF T!DepositAllowed
    <3>2. /\ T!AfterDeposit(p, amount) \in T!UserPosition
          /\ Balanced(T!AfterDeposit(p, amount), position)
          /\ T!AfterDeposit(p, amount).deposited_amount = p.deposited_amount + amount
      BY <1>2, <3>1, DepositEffect
    <3> QED
      BY <1>2, <2>1, <3>2
  <2>2. ASSUME T!WithdrawAllowed(p, adapter_config[position.config], user, mint, amount),
               user_position' = [user_position EXCEPT ![position] = T!AfterWithdraw(p, amount)],
               announced' = [announced EXCEPT ![position] = @ - amount]
        PROVE  \E work \in T!UserPosition : Balanced(work, position) /\ Becomes(work)
    <3>1. amount <= p.deposited_amount
      BY <2>2 DEF T!WithdrawAllowed
    <3>2. /\ T!AfterWithdraw(p, amount) \in T!UserPosition
          /\ Balanced(T!AfterWithdraw(p, amount), position)
          /\ T!AfterWithdraw(p, amount).deposited_amount = p.deposited_amount - amount
      BY <1>2, <3>1, WithdrawEffect
    <3> QED
      BY <1>2, <2>2, <3>2
  <2> QED
    BY <2>1, <2>2 DEF Direct
<1>4. PICK work \in T!UserPosition : Balanced(work, position) /\ Becomes(work)
  BY <1>3
<1>5. /\ DOMAIN user_position' = DOMAIN user_position
      /\ \A a \in DOMAIN user_position :
           user_position'[a] = IF a = position THEN work ELSE user_position[a]
  BY <1>4
<1>6. SharedOK'
  <2>1. user_position' \in [DOMAIN user_position' -> T!UserPosition]
    BY <1>4 DEF IInv, SharedOK
  <2>2. announced' = [a \in DOMAIN user_position' |-> user_position'[a].deposited_amount]
    BY <1>4, <1>5 DEF IInv, SharedOK
  <2>3. \A a \in DOMAIN user_position' : Balanced(user_position'[a], a)
    BY <1>4, <1>5 DEF IInv, SharedOK
  <2> QED
    BY <1>1, <1>5, <2>1, <2>2, <2>3 DEF IInv, SharedOK
<1>7. \A t \in InFlight :
        tx[t].position # position /\ tx[t].position \in DOMAIN user_position
  BY <1>1 DEF WriteLocked, IInv, TransactionOK, InFlight, Idle
<1> QED
  BY <1>1, <1>5, <1>6, <1>7, OthersKeep

LEMMA SetUpAdapterKeeps ==
  ASSUME IInv, NEW mint \in Mints, NEW version \in Versions, SetUpAdapter(mint, version)
  PROVE  IInv'
<1> DEFINE address == [mint |-> mint, version |-> version]
           account == [supported_mint |-> mint, version |-> version]
<1>1. /\ UNCHANGED <<entries, user_position, tx, announced>>
      /\ adapter_config' = [a \in DOMAIN adapter_config \cup {address} |->
                              IF a = address THEN account ELSE adapter_config[a]]
  BY DEF SetUpAdapter, T!initialize_adapter, T!ConfigAddress, registryVars
<1>2. address \in Configurations /\ account \in T!AdapterConfig
  BY DEF Configurations, T!AdapterConfig
<1> HIDE DEF address, account
<1>3. adapter_config' \in [DOMAIN adapter_config' -> T!AdapterConfig]
  BY <1>1, <1>2 DEF IInv, SharedOK
<1>4. SharedOK'
  BY <1>1, <1>2, <1>3 DEF IInv, SharedOK
<1> QED
  BY <1>1, <1>4, OthersKeep

LEMMA OpenPositionKeeps ==
  ASSUME IInv, NEW user \in Users, NEW configuration, OpenPosition(user, configuration)
  PROVE  IInv'
<1> DEFINE address == T!PositionAddress(configuration, user)
           account == T!EmptyPosition(user)
<1>1. /\ UNCHANGED <<entries, adapter_config, tx>>
      /\ configuration \in DOMAIN adapter_config /\ address \notin DOMAIN user_position
      /\ user_position' = [a \in DOMAIN user_position \cup {address} |->
                             IF a = address THEN account ELSE user_position[a]]
      /\ announced' = [a \in DOMAIN announced \cup {address} |->
                         IF a \in DOMAIN announced THEN announced[a] ELSE 0]
  BY DEF OpenPosition, T!initialize_position, registryVars
<1>2. /\ address \in Positions /\ account \in T!UserPosition
      /\ account.deposited_amount = 0 /\ Balanced(account, address)
  BY <1>1, DispatcherConstants DEF IInv, SharedOK, Positions, T!PositionAddress,
     T!EmptyPosition, T!UserPosition, T!Amounts, Balanced
<1> HIDE DEF address, account
<1>3. user_position' \in [DOMAIN user_position' -> T!UserPosition]
  BY <1>1, <1>2 DEF IInv, SharedOK
<1>4. announced' = [a \in DOMAIN user_position' |-> user_position'[a].deposited_amount]
  BY <1>1, <1>2 DEF IInv, SharedOK
<1>5. \A a \in DOMAIN user_position' : Balanced(user_position'[a], a)
  BY <1>1, <1>2 DEF IInv, SharedOK
<1>6. SharedOK'
  BY <1>1, <1>2, <1>3, <1>4, <1>5 DEF IInv, SharedOK
<1>7. \A t \in InFlight : tx[t].position \in DOMAIN user_position
  BY DEF IInv, TransactionOK, InFlight, Idle
<1>8. DOMAIN user_position \subseteq DOMAIN user_position'
  BY <1>1
<1>9. \A t \in InFlight : user_position'[tx[t].position] = user_position[tx[t].position]
  BY <1>1, <1>7
<1> QED
  BY <1>1, <1>6, <1>8, <1>9, OthersKeep

-----------------------------------------------------------------------------
(* The theorems.                                                           *)

LEMMA InvariantStep == IInv /\ [Next]_vars => IInv'
<1> SUFFICES ASSUME IInv, [Next]_vars PROVE IInv'
  OBVIOUS
<1>1. CASE UNCHANGED vars
  <2>1. UNCHANGED <<entries, adapter_config, user_position, tx, announced>>
    BY <1>1 DEF vars, registryVars, templateVars
  <2>2. SharedOK'
    BY <2>1 DEF IInv, SharedOK
  <2> QED
    BY <2>1, <2>2, OthersKeep
<1>2. CASE Governance
  BY <1>2, GovernanceKeeps
<1>3. ASSUME NEW t \in Txs, Route(t)
      PROVE  IInv'
  <2>1. ASSUME NEW user \in Users, NEW address, NEW position,
               Begin(t, user, address, position)
        PROVE  IInv'
    BY <2>1, BeginKeeps
  <2>2. ASSUME NEW ix \in Instruction, Enter(t, ix)
        PROVE  IInv'
    <3>1. t \in InFlight
      BY <2>2 DEF InFlight, Enter
    <3> QED BY <2>2, <3>1, EnterKeeps
  <2>3. CASE CallTemplate(t)
    BY <2>3, CallTemplateKeeps DEF InFlight, CallTemplate
  <2>4. CASE CallOther(t)
    <3>1. t \in InFlight
      BY <2>4 DEF InFlight, CallOther
    <3> QED BY <2>4, <3>1, CallOtherKeeps
  <2>5. CASE Finish(t)
    <3>1. t \in InFlight
      BY <2>5 DEF InFlight, Finish
    <3> QED BY <2>5, <3>1, FinishKeeps
  <2>6. CASE Commit(t)
    BY <2>6, CommitKeeps DEF InFlight, Commit
  <2> QED
    BY <1>3, <2>1, <2>2, <2>3, <2>4, <2>5, <2>6 DEF Route
<1>4. ASSUME NEW mint \in Mints, NEW version \in Versions, SetUpAdapter(mint, version)
      PROVE  IInv'
  BY <1>4, SetUpAdapterKeeps
<1>5. ASSUME NEW user \in Users, NEW configuration, OpenPosition(user, configuration)
      PROVE  IInv'
  BY <1>5, OpenPositionKeeps
<1>6. ASSUME NEW user \in Users, NEW position \in DOMAIN user_position,
             NEW mint \in Mints, NEW amount \in 0 .. MaxU64,
             Direct(user, position, mint, amount)
      PROVE  IInv'
  BY <1>6, DirectKeeps
<1> QED
  BY <1>1, <1>2, <1>3, <1>4, <1>5, <1>6 DEF Next

THEOREM InvariantHolds == Spec => []IInv
BY InvariantInit, InvariantStep, PTL DEF Spec

(* Working copies and accounts keep their types: the checked arithmetic of *)
(* the template never lets an amount leave the range of a u64.             *)
THEOREM TypeCorrect == Spec => []TypeOK
BY InvariantHolds, InvariantSuffices, PTL

(* Whatever governance does and however transactions interleave, a call    *)
(* under way is to the approved entry's program and mint.                  *)
THEOREM CallsApproved == Spec => []CallsApprovedAdapter
BY InvariantHolds, InvariantSuffices, PTL

(* Positions hold exactly what committed events say, for any number of     *)
(* users, transactions, instructions and aborts.                           *)
THEOREM BooksCorrect == Spec => []BooksBalance
BY InvariantHolds, InvariantSuffices, PTL

(* An announced value is the called adapter's own.                         *)
THEOREM QuoteCorrect == Spec => []QuoteIsTheAdapters
BY InvariantHolds, InvariantSuffices, PTL

(* No committed update is overwritten, and nobody moves another's position. *)
THEOREM UpdatesKept == Spec => []NoLostUpdate
BY InvariantHolds, InvariantSuffices, PTL

-----------------------------------------------------------------------------
(* The registry beside the dispatcher.                                     *)

(* Transactions in flight only delay governance: what the registry does    *)
(* beside them is what it does alone, so that all that is proved of it     *)
(* holds here (dispatcher lib.rs:178-219 lists the entry read-only).       *)
THEOREM RegistryBesideDispatcher == Spec => R!Spec
<1>1. Init => R!Init
  BY DEF Init
<1>2. ASSUME [Next]_vars
      PROVE  [R!Next]_(R!vars)
  <2>1. CASE Governance
    BY <2>1 DEF Governance
  <2>2. CASE UNCHANGED vars
    BY <2>2 DEF vars, registryVars, R!vars
  <2>3. ASSUME NEW t \in Txs, Route(t)
        PROVE  UNCHANGED registryVars
    BY <2>3 DEF Route, Begin, Enter, CallTemplate, CallOther, Finish, Commit, Advance, Abort
  <2>4. ASSUME NEW user, NEW position, NEW mint, NEW version, NEW amount, NEW configuration,
               \/ SetUpAdapter(mint, version) \/ OpenPosition(user, configuration)
               \/ Direct(user, position, mint, amount)
        PROVE  UNCHANGED registryVars
    BY <2>4 DEF SetUpAdapter, OpenPosition, Direct
  <2>5. UNCHANGED registryVars => UNCHANGED R!vars
    BY DEF registryVars, R!vars
  <2> QED BY <1>2, <2>1, <2>2, <2>3, <2>4, <2>5 DEF Next
<1> QED BY <1>1, <1>2, PTL DEF Spec, R!Spec

Retired(a) == a \in DOMAIN entries /\ entries[a].status = "Deprecated"

Called(a) == \E t \in InFlight : tx[t].entry = a /\ tx[t].pc \in {"calling", "returned"}

(* What makes a status stay when another field is updated. *)
HaveStatus == \A a \in DOMAIN entries : "status" \in DOMAIN entries[a]

LEMMA RetiredStays ==
  ASSUME HaveStatus, [R!Next]_(R!vars), NEW a
  PROVE  HaveStatus' /\ (Retired(a) => Retired(a)')
<1>1. CASE UNCHANGED entries
  BY <1>1 DEF HaveStatus, Retired
<1>2. ASSUME NEW signer, NEW address, NEW from, NEW to, NEW kind, "Deprecated" \notin from,
             R!ChangeStatus(signer, address, from, to, kind)
      PROVE  HaveStatus' /\ (Retired(a) => Retired(a)')
  <2>1. /\ address \in DOMAIN entries /\ entries[address].status \in from
        /\ entries' = [entries EXCEPT ![address] = R!WithStatus(entries[address], to)]
    BY <1>2 DEF R!ChangeStatus
  <2>2. DOMAIN R!WithStatus(entries[address], to) = DOMAIN entries[address]
    BY DEF R!WithStatus
  <2> QED BY <1>2, <2>1, <2>2 DEF HaveStatus, Retired
<1>3. ASSUME NEW signer, NEW address, NEW uri, R!update_adapter_metadata(signer, address, uri)
      PROVE  HaveStatus' /\ (Retired(a) => Retired(a)')
  <2>1. /\ address \in DOMAIN entries
        /\ entries' = [entries EXCEPT ![address] = R!WithMetadata(entries[address], uri)]
    BY <1>3 DEF R!update_adapter_metadata
  <2>2. /\ DOMAIN R!WithMetadata(entries[address], uri) = DOMAIN entries[address]
        /\ "status" \in DOMAIN entries[address] =>
             R!WithMetadata(entries[address], uri).status = entries[address].status
    BY DEF R!WithMetadata
  <2> QED BY <2>1, <2>2 DEF HaveStatus, Retired
<1>4. ASSUME NEW signer, R!Govern(signer)
      PROVE  HaveStatus' /\ (Retired(a) => Retired(a)')
  <2>1. PICK address : \/ R!approve_adapter(signer, address) \/ R!pause_adapter(signer, address)
                       \/ R!unpause_adapter(signer, address)
                       \/ R!deprecate_adapter(signer, address)
                       \/ \E uri : R!update_adapter_metadata(signer, address, uri)
    BY <1>4 DEF R!Govern
  <2> QED BY <1>2, <1>3, <2>1
          DEF R!approve_adapter, R!pause_adapter, R!unpause_adapter, R!deprecate_adapter
<1>5. ASSUME NEW signer, R!Propose(signer)
      PROVE  HaveStatus' /\ (Retired(a) => Retired(a)')
  <2>1. PICK program \in Programs, name \in ProtocolNames, version \in Versions,
             mint \in Mints, uri \in MetadataUris :
             R!propose_adapter(signer, program, name, version, mint, uri)
    BY <1>5 DEF R!Propose
  <2> DEFINE address == R!EntryAddress(program, mint, version)
             fresh == [adapter_program_id |-> program, protocol_name |-> name,
                       adapter_version |-> version, supported_mint |-> mint,
                       status |-> "Pending", metadata_uri |-> uri,
                       created_slot |-> slot, updated_slot |-> slot]
  <2>2. /\ address \notin DOMAIN entries
        /\ entries' = [b \in DOMAIN entries \cup {address} |->
                         IF b = address THEN fresh ELSE entries[b]]
    BY <2>1 DEF R!propose_adapter, R!EntryVacant
  <2>3. "status" \in DOMAIN fresh
    OBVIOUS
  <2> HIDE DEF address, fresh
  <2> QED BY <2>2, <2>3 DEF HaveStatus, Retired
<1>6. ASSUME NEW signer, NEW key,
             R!initialize_registry(signer) \/ R!transfer_governance(signer, key)
      PROVE  UNCHANGED entries
  BY <1>6 DEF R!initialize_registry, R!transfer_governance
<1>7. R!AdvanceSlot \/ UNCHANGED R!vars => UNCHANGED entries
  BY DEF R!AdvanceSlot, R!vars
<1> QED BY <1>1, <1>4, <1>5, <1>6, <1>7 DEF R!Next

(* Once governance has retired an entry, no instruction ever calls its     *)
(* adapter through it again, whoever governs and whatever was in flight    *)
(* (docs/SPEC.md:138, dispatcher lib.rs:304-325).                          *)
THEOREM RetiredIsNeverCalled ==
  ASSUME NEW CONSTANT a
  PROVE  Spec => [](Retired(a) => [](Retired(a) /\ ~ Called(a)))
<1>1. R!Init => HaveStatus
  BY DEF R!Init, HaveStatus
<1>2. HaveStatus /\ [R!Next]_(R!vars) => HaveStatus' /\ (Retired(a) => Retired(a)')
  BY RetiredStays
<1>3. CallsApprovedAdapter /\ Retired(a) => ~ Called(a)
  BY DEF CallsApprovedAdapter, Retired, Called
<1> QED BY <1>1, <1>2, <1>3, CallsApproved, RegistryBesideDispatcher, PTL DEF R!Spec

-----------------------------------------------------------------------------
(* What takes effect through the dispatcher was approved.  The invariant   *)
(* needs what the handlers never check together: that a configuration      *)
(* account carries the mint its address was derived from, that a position  *)
(* belongs to a configuration that exists, and that a copy which differs   *)
(* from the committed position went through an approved entry.             *)

Named ==
  /\ \A c \in DOMAIN adapter_config : adapter_config[c].supported_mint = c.mint
  /\ \A p \in DOMAIN user_position : p.config \in DOMAIN adapter_config

(* A copy that was moved, over given entries and position accounts. *)
Backed(r, es, positions) ==
  r.work # positions[r.position] =>
    /\ r.user = r.position.owner
    /\ es[r.entry].status = "Approved"
    /\ es[r.entry].adapter_program_id = Template
    /\ es[r.entry].supported_mint = r.position.config.mint

Routes == Named /\ \A t \in InFlight : Backed(tx[t], entries, user_position)

LEMMA BackedStays ==
  ASSUME NEW r, NEW next, NEW es, NEW es2, NEW ps, NEW ps2, Backed(r, es, ps),
         next.user = r.user, next.entry = r.entry, next.position = r.position,
         next.work = r.work, es2[r.entry] = es[r.entry],
         ps2[r.position] = ps[r.position]
  PROVE  Backed(next, es2, ps2)
BY DEF Backed

LEMMA AdvanceBacks ==
  ASSUME IInv, Routes, NEW t \in InFlight, NEW next, Advance(t, next),
         next = Idle \/ Backed(next, entries, user_position)
  PROVE  Routes'
<1>1. /\ UNCHANGED <<entries, adapter_config, user_position>>
      /\ tx' = [tx EXCEPT ![t] = next]
  BY DEF Advance, registryVars, templateVars
<1>2. \A s \in Txs : tx'[s] = IF s = t THEN next ELSE tx[s]
  BY <1>1 DEF IInv, InFlight
<1>3. Named'
  BY <1>1 DEF Routes, Named
<1>4. ASSUME NEW s \in InFlight'
      PROVE  Backed(tx'[s], entries', user_position')
  <2>1. CASE s = t
    BY <1>1, <1>2, <1>4, <2>1 DEF InFlight, Idle
  <2>2. CASE s # t
    BY <1>1, <1>2, <1>4, <2>2 DEF InFlight, Routes
  <2> QED BY <2>1, <2>2
<1> QED BY <1>3, <1>4 DEF Routes

LEMMA AbortBacks ==
  ASSUME IInv, Routes, NEW t \in InFlight, Abort(t)
  PROVE  Routes'
BY AdvanceBacks DEF Abort, Advance

(* The steps of an instruction that leave the copy alone. *)
LEMMA InstructionBacks ==
  ASSUME IInv, Routes, NEW t \in InFlight, CallOther(t) \/ Finish(t)
  PROVE  Routes'
<1> DEFINE r == tx[t]
<1>1. r \in Running /\ Backed(r, entries, user_position)
  BY DEF IInv, TransactionOK, InFlight, Idle, Routes
<1>2. ASSUME NEW next, Advance(t, next),
             next.user = r.user, next.entry = r.entry, next.position = r.position,
             next.work = r.work
      PROVE  Routes'
  BY <1>1, <1>2, BackedStays, AdvanceBacks
<1>3. CASE CallOther(t)
  <2>1. CASE Abort(t)
    BY <2>1, AbortBacks
  <2>2. ASSUME NEW data, Advance(t, [r EXCEPT !.pc = "returned", !.data = data])
        PROVE  Routes'
    <3> DEFINE next == [r EXCEPT !.pc = "returned", !.data = data]
    <3>1. /\ next.user = r.user /\ next.entry = r.entry
          /\ next.position = r.position /\ next.work = r.work
      BY <1>1 DEF Running
    <3> QED BY <1>2, <2>2, <3>1
  <2>3. CASE Advance(t, [r EXCEPT !.pc = "returned"])
    <3> DEFINE next == [r EXCEPT !.pc = "returned"]
    <3>1. /\ next.user = r.user /\ next.entry = r.entry
          /\ next.position = r.position /\ next.work = r.work
      BY <1>1 DEF Running
    <3> QED BY <1>2, <2>3, <3>1
  <2> QED BY <1>3, <2>1, <2>2, <2>3 DEF CallOther
<1>4. CASE Finish(t)
  <2> DEFINE next == [r EXCEPT !.pc = "ready", !.done = @ + 1, !.moved = @ + Moved(r.ix),
                               !.ix = NoInstruction, !.data = NoData]
             quoted == [next EXCEPT !.quote =
                          [program |-> r.ix.program, value |-> r.data.value,
                           source |-> r.data.program, made |-> TRUE]]
  <2>1. /\ next.user = r.user /\ next.entry = r.entry
        /\ next.position = r.position /\ next.work = r.work
    BY <1>1 DEF Running
  <2>2. /\ quoted.user = r.user /\ quoted.entry = r.entry
        /\ quoted.position = r.position /\ quoted.work = r.work
    BY <1>1 DEF Running
  <2>3. Advance(t, next) \/ Advance(t, quoted) \/ Abort(t)
    BY <1>4 DEF Finish
  <2> HIDE DEF next, quoted
  <2> QED BY <1>2, <2>1, <2>2, <2>3, AbortBacks
<1> QED BY <1>3, <1>4

LEMMA EnterBacks ==
  ASSUME IInv, Routes, NEW t \in InFlight, NEW ix, Enter(t, ix)
  PROVE  Routes'
<1> DEFINE r == tx[t]
           next == [r EXCEPT !.pc = "calling", !.ix = ix, !.data = NoData,
                             !.quote = NoQuote]
<1>1. r \in Running /\ Backed(r, entries, user_position)
  BY DEF IInv, TransactionOK, InFlight, Idle, Routes
<1>2. Advance(t, next) \/ Abort(t)
  BY DEF Enter
<1>3. /\ next.user = r.user /\ next.entry = r.entry
      /\ next.position = r.position /\ next.work = r.work
  BY <1>1 DEF Running
<1> HIDE DEF next
<1>4. Backed(next, entries, user_position)
  BY <1>1, <1>3, BackedStays
<1> QED BY <1>2, <1>4, AdvanceBacks, AbortBacks

(* The only step that moves a copy: the template has checked the mint      *)
(* against the configuration of the position and the signer against its    *)
(* owner, the dispatcher the same mint against the entry.                  *)
LEMMA CallTemplateBacks ==
  ASSUME IInv, Routes, NEW t \in InFlight, CallTemplate(t)
  PROVE  Routes'
<1> DEFINE r == tx[t]
           next == TemplateResult(t)
<1>1. /\ TransactionOK(r, entries, user_position)
      /\ Backed(r, entries, user_position)
  BY DEF IInv, InFlight, Idle, Routes
<1>2. r \in Running /\ r.pc = "calling" /\ r.ix.program = Template
  BY <1>1 DEF TransactionOK, CallTemplate
<1>3. CASE ~TemplateAllows(t)
  BY <1>3, AbortBacks DEF CallTemplate
<1>4. CASE TemplateAllows(t)
  <2>1. Advance(t, next)
    BY <1>4 DEF CallTemplate
  <2>2. /\ entries[r.entry].status = "Approved"
        /\ entries[r.entry].adapter_program_id = Template
        /\ entries[r.entry].supported_mint = r.ix.mint
    BY <1>1, <1>2 DEF TransactionOK, Relied
  <2>3. /\ r.ix.mint = adapter_config[r.position.config].supported_mint
        /\ r.user = r.work.owner
    BY <1>4 DEF TemplateAllows, T!DepositAllowed, T!WithdrawAllowed,
       T!CurrentValueAllowed, T!validate_mint, T!validate_owner
  <2>4. r.position.config \in DOMAIN adapter_config
    BY <1>1 DEF TransactionOK, Routes, Named
  <2>5. r.ix.mint = r.position.config.mint /\ r.user = r.position.owner
    BY <1>1, <2>3, <2>4 DEF TransactionOK, Balanced, Routes, Named
  <2>6. next.user = r.user /\ next.entry = r.entry /\ next.position = r.position
    BY <1>2 DEF TemplateResult, Running
  <2> HIDE DEF next
  <2>7. Backed(next, entries, user_position)
    BY <2>2, <2>5, <2>6 DEF Backed
  <2> QED BY <2>1, <2>7, AdvanceBacks
<1> QED BY <1>3, <1>4

LEMMA BeginBacks ==
  ASSUME IInv, Routes, NEW t \in Txs, NEW user, NEW address, NEW position,
         Begin(t, user, address, position)
  PROVE  Routes'
<1> DEFINE next ==
      [pc |-> "ready", user |-> user, entry |-> address, position |-> position,
       work |-> user_position[position], ix |-> NoInstruction, data |-> NoData,
       moved |-> 0, quote |-> NoQuote, done |-> 0]
<1>1. /\ tx' = [tx EXCEPT ![t] = next]
      /\ UNCHANGED <<entries, adapter_config, user_position>>
  BY DEF Begin, registryVars, templateVars
<1>2. Backed(next, entries, user_position)
  BY DEF Backed
<1> HIDE DEF next
<1>3. \A s \in Txs : tx'[s] = IF s = t THEN next ELSE tx[s]
  BY <1>1 DEF IInv
<1>4. Named'
  BY <1>1 DEF Routes, Named
<1>5. ASSUME NEW s \in InFlight'
      PROVE  Backed(tx'[s], entries', user_position')
  <2>1. CASE s = t
    BY <1>1, <1>2, <1>3, <1>5, <2>1 DEF InFlight
  <2>2. CASE s # t
    BY <1>1, <1>3, <1>5, <2>2 DEF InFlight, Routes
  <2> QED BY <2>1, <2>2
<1> QED BY <1>4, <1>5 DEF Routes

LEMMA CommitBacks ==
  ASSUME IInv, Routes, NEW t \in InFlight, Commit(t)
  PROVE  Routes'
<1>1. /\ UNCHANGED <<entries, adapter_config>>
      /\ tx' = [tx EXCEPT ![t] = Idle]
      /\ user_position' = [user_position EXCEPT ![tx[t].position] = tx[t].work]
  BY DEF Commit, registryVars
<1>2. \A s \in Txs : tx'[s] = IF s = t THEN Idle ELSE tx[s]
  BY <1>1 DEF IInv, InFlight
<1>3. Named'
  BY <1>1 DEF Routes, Named
<1>4. ASSUME NEW s \in InFlight'
      PROVE  Backed(tx'[s], entries', user_position')
  <2>1. s # t /\ s \in InFlight /\ tx'[s] = tx[s]
    BY <1>2, <1>4 DEF InFlight, Idle
  <2>2. tx[s].position # tx[t].position
    BY <2>1 DEF IInv, Exclusive
  <2>3. user_position'[tx[s].position] = user_position[tx[s].position]
    BY <1>1, <2>2
  <2>4. Backed(tx[s], entries, user_position)
    BY <2>1 DEF Routes
  <2>5. entries'[tx[s].entry] = entries[tx[s].entry]
    BY <1>1
  <2>6. Backed(tx[s], entries', user_position')
    BY <2>3, <2>4, <2>5, BackedStays
  <2> QED BY <2>1, <2>6
<1> QED BY <1>3, <1>4 DEF Routes

(* Steps that leave every transaction alone. *)
LEMMA OthersBack ==
  ASSUME Routes, UNCHANGED tx, Named',
         \A t \in InFlight :
           /\ entries'[tx[t].entry] = entries[tx[t].entry]
           /\ user_position'[tx[t].position] = user_position[tx[t].position]
  PROVE  Routes'
<1>1. ASSUME NEW t \in InFlight
      PROVE  Backed(tx[t], entries', user_position')
  <2>1. Backed(tx[t], entries, user_position)
    BY DEF Routes
  <2> QED BY <2>1, BackedStays
<1>2. InFlight' = InFlight
  BY DEF InFlight
<1> QED BY <1>1, <1>2 DEF Routes

LEMMA RoutesStep == IInv /\ Routes /\ [Next]_vars => Routes'
<1> SUFFICES ASSUME IInv, Routes, [Next]_vars PROVE Routes'
  OBVIOUS
<1>0. \A t \in InFlight :
        /\ tx[t].entry \in DOMAIN entries /\ ReadLocked(tx[t].entry)
        /\ tx[t].position \in DOMAIN user_position /\ WriteLocked(tx[t].position)
  BY DEF IInv, TransactionOK, InFlight, Idle, ReadLocked, WriteLocked
<1>1. CASE UNCHANGED vars
  <2>1. UNCHANGED <<entries, adapter_config, user_position, tx>>
    BY <1>1 DEF vars, registryVars, templateVars
  <2>2. Named'
    BY <2>1 DEF Routes, Named
  <2> QED BY <2>1, <2>2, OthersBack
<1>2. CASE Governance
  <2>1. /\ UNCHANGED <<adapter_config, user_position, tx>>
        /\ \A address \in DOMAIN entries :
             ReadLocked(address) => entries'[address] = entries[address]
    BY <1>2 DEF Governance, templateVars
  <2>2. Named'
    BY <2>1 DEF Routes, Named
  <2> QED BY <1>0, <2>1, <2>2, OthersBack
<1>3. ASSUME NEW t \in Txs, Route(t)
      PROVE  Routes'
  <2>1. ASSUME NEW user, NEW address, NEW position, Begin(t, user, address, position)
        PROVE  Routes'
    BY <2>1, BeginBacks
  <2>2. ASSUME NEW ix, Enter(t, ix)
        PROVE  Routes'
    <3>1. t \in InFlight
      BY <2>2 DEF InFlight, Enter
    <3> QED BY <2>2, <3>1, EnterBacks
  <2>3. CASE CallTemplate(t)
    BY <2>3, CallTemplateBacks DEF InFlight, CallTemplate
  <2>4. CASE CallOther(t)
    <3>1. t \in InFlight
      BY <2>4 DEF InFlight, CallOther
    <3> QED BY <2>4, <3>1, InstructionBacks
  <2>5. CASE Finish(t)
    <3>1. t \in InFlight
      BY <2>5 DEF InFlight, Finish
    <3> QED BY <2>5, <3>1, InstructionBacks
  <2>6. CASE Commit(t)
    BY <2>6, CommitBacks DEF InFlight, Commit
  <2> QED BY <1>3, <2>1, <2>2, <2>3, <2>4, <2>5, <2>6 DEF Route
<1>4. ASSUME NEW mint, NEW version, SetUpAdapter(mint, version)
      PROVE  Routes'
  <2> DEFINE address == [mint |-> mint, version |-> version]
             account == [supported_mint |-> mint, version |-> version]
  <2>1. /\ UNCHANGED <<entries, user_position, tx>>
        /\ adapter_config' = [a \in DOMAIN adapter_config \cup {address} |->
                                IF a = address THEN account ELSE adapter_config[a]]
    BY <1>4 DEF SetUpAdapter, T!initialize_adapter, T!ConfigAddress, registryVars
  <2>2. account.supported_mint = address.mint
    OBVIOUS
  <2> HIDE DEF address, account
  <2>3. Named'
    BY <2>1, <2>2 DEF Routes, Named
  <2> QED BY <2>1, <2>3, OthersBack
<1>5. ASSUME NEW user, NEW configuration, OpenPosition(user, configuration)
      PROVE  Routes'
  <2> DEFINE address == [config |-> configuration, owner |-> user]
  <2>1. /\ UNCHANGED <<entries, adapter_config, tx>>
        /\ configuration \in DOMAIN adapter_config /\ address \notin DOMAIN user_position
        /\ user_position' = [a \in DOMAIN user_position \cup {address} |->
                               IF a = address THEN T!EmptyPosition(user)
                               ELSE user_position[a]]
    BY <1>5 DEF OpenPosition, T!initialize_position, T!PositionAddress, registryVars
  <2>2. address.config = configuration
    OBVIOUS
  <2> HIDE DEF address
  <2>3. Named'
    BY <2>1, <2>2 DEF Routes, Named
  <2>4. \A p \in DOMAIN user_position : user_position'[p] = user_position[p]
    BY <2>1
  <2> QED BY <1>0, <2>1, <2>3, <2>4, OthersBack
<1>6. ASSUME NEW user, NEW position \in DOMAIN user_position, NEW mint, NEW amount,
             Direct(user, position, mint, amount)
      PROVE  Routes'
  <2>1. /\ ~WriteLocked(position) /\ UNCHANGED <<entries, adapter_config, tx>>
    BY <1>6 DEF Direct, registryVars
  <2>2. PICK work : user_position' = [user_position EXCEPT ![position] = work]
    BY <1>6 DEF Direct
  <2>3. Named'
    BY <2>1, <2>2 DEF Routes, Named
  <2>4. \A t \in InFlight : user_position'[tx[t].position] = user_position[tx[t].position]
    BY <1>0, <2>1, <2>2
  <2> QED BY <2>1, <2>3, <2>4, OthersBack
<1> QED BY <1>1, <1>2, <1>3, <1>4, <1>5, <1>6 DEF Next

(* Only a commit writes both the accounts and the transactions in flight. *)
LEMMA RoutedChange ==
  ASSUME IInv, Routes, [Next]_vars, NEW position \in DOMAIN user_position,
         user_position'[position] # user_position[position], tx' # tx
  PROVE  \E t \in InFlight :
           LET e == entries'[tx[t].entry] IN
           /\ tx[t].position = position /\ tx[t].user = position.owner
           /\ e.status = "Approved" /\ e.adapter_program_id = Template
           /\ e.supported_mint = position.config.mint
<1>1. PICK t \in Txs : Route(t)
  <2>1. UNCHANGED vars => UNCHANGED tx
    BY DEF vars
  <2>2. Governance => UNCHANGED tx
    BY DEF Governance
  <2>3. ASSUME NEW user, NEW pos, NEW mint, NEW version, NEW amount, NEW configuration,
               \/ SetUpAdapter(mint, version) \/ OpenPosition(user, configuration)
               \/ Direct(user, pos, mint, amount)
        PROVE  UNCHANGED tx
    BY <2>3 DEF SetUpAdapter, OpenPosition, Direct
  <2> QED BY <2>1, <2>2, <2>3 DEF Next
<1>2. Commit(t)
  <2>1. ASSUME NEW next, Advance(t, next) \/ Abort(t)
        PROVE  UNCHANGED user_position
    BY <2>1 DEF Advance, Abort, templateVars
  <2>2. ASSUME NEW user, NEW address, NEW pos, Begin(t, user, address, pos)
        PROVE  UNCHANGED user_position
    BY <2>2 DEF Begin, templateVars
  <2>3. ASSUME NEW ix, Enter(t, ix)
        PROVE  UNCHANGED user_position
    BY <2>1, <2>3 DEF Enter
  <2>4. CallTemplate(t) \/ CallOther(t) \/ Finish(t) => UNCHANGED user_position
    BY <2>1 DEF CallTemplate, CallOther, Finish
  <2> QED BY <1>1, <2>2, <2>3, <2>4 DEF Route
<1>3. t \in InFlight /\ entries' = entries
  BY <1>2 DEF Commit, InFlight, registryVars
<1>4. position = tx[t].position /\ tx[t].work # user_position[position]
  BY <1>2 DEF Commit
<1>5. Backed(tx[t], entries, user_position)
  BY <1>3 DEF Routes
<1> QED BY <1>3, <1>4, <1>5 DEF Backed

(* What a commit changes through the dispatcher is its owner's and went    *)
(* through an entry that is approved at the commit, for the template and   *)
(* for the mint of the position's configuration.                           *)
THEOREM RoutedMovesApproved == Spec => RoutedMovesAreApproved
<1>1. Init => Routes
  BY DEF Init, T!TemplateInit, Routes, Named, InFlight, Idle
<1>2. IInv /\ Routes /\ [Next]_vars =>
        [\A position \in DOMAIN user_position :
           user_position'[position] # user_position[position] /\ tx' # tx =>
             \E t \in InFlight :
               LET e == entries'[tx[t].entry] IN
               /\ tx[t].position = position /\ tx[t].user = position.owner
               /\ e.status = "Approved" /\ e.adapter_program_id = Template
               /\ e.supported_mint = position.config.mint]_vars
  BY RoutedChange
<1> QED BY <1>1, <1>2, RoutesStep, InvariantHolds, PTL DEF Spec, RoutedMovesAreApproved
=============================================================================
