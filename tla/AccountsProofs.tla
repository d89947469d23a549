--------------------------- MODULE AccountsProofs ---------------------------
(***************************************************************************)
(* What holds of the accounts of every protocol adapter: a step of one is  *)
(* one of six kinds, which keep the accounts well-formed, and implement    *)
(* the promise of YieldAdapter.  And the arithmetic of quotients, which    *)
(* all conversions between shares and amounts rest on.                     *)
(***************************************************************************)
EXTENDS AdapterAccounts, TLAPS

-----------------------------------------------------------------------------
(* Arithmetic.                                                             *)

(* Multiplying by a natural number keeps the order. *)
LEMMA ProductsOrdered ==
  ASSUME NEW x \in Int, NEW y \in Int, NEW d \in Nat, x <= y
  PROVE  x * d <= y * d
OBVIOUS

(* A floored quotient. *)
LEMMA Floored ==
  ASSUME NEW a \in Nat, NEW d \in Nat \ {0}
  PROVE  a \div d \in Nat /\ (a \div d) * d <= a /\ a < (a \div d + 1) * d
OBVIOUS

(* A quotient rounded up. *)
LEMMA RoundedUp ==
  ASSUME NEW a \in Nat, NEW d \in Nat \ {0}
  PROVE  /\ (a + d - 1) \div d \in Nat
         /\ a <= ((a + d - 1) \div d) * d /\ ((a + d - 1) \div d) * d < a + d
OBVIOUS

-----------------------------------------------------------------------------
(* The accounts.                                                           *)

(* A position is the one of its address. *)
OwnersMatch == \A p \in DOMAIN position : position[p].owner = p.owner

AccountsInv(places) == AccountsTypeOK(places) /\ OwnersMatch

(* What an instruction of an adapter does to the accounts, and what goes   *)
(* on elsewhere.                                                           *)
Moved(p) ==
  \E signer \in Users, amount \in Nat \ {0}, shares \in U64, value \in U64 :
    /\ signer = position[p].owner
    /\ \/ RecordDeposit(p, signer, amount, shares, value)
       \/ RecordWithdraw(p, signer, amount, shares, value)

Told(p) ==
  \E signer \in Users, shares \in U64, value \in U64 :
    signer = position[p].owner /\ Report(p, signer, shares, value)

AccountStep(places) ==
  \/ Elsewhere
  \/ \E mint \in Mints, program \in Programs, version \in Versions :
       CreateConfig(mint, program, version)
  \/ \E owner \in Users, configuration \in DOMAIN config, place \in places :
       CreatePosition(owner, configuration, place)
  \/ \E p \in DOMAIN position : Moved(p) \/ Told(p)

(* Accounts are never closed nor moved to another place. *)
AccountsPersist ==
  /\ \A a \in DOMAIN config : a \in DOMAIN config' /\ config'[a] = config[a]
  /\ \A p \in DOMAIN position : p \in DOMAIN position' /\ position'[p].place = position[p].place

(* Initially there are no accounts. *)
LEMMA AccountsInit ==
  ASSUME NEW places, NoAccounts
  PROVE  AccountsInv(places)
BY DEF NoAccounts, AccountsInv, AccountsTypeOK, OwnersMatch, Event

LEMMA AccountsStutter ==
  ASSUME NEW CONSTANT places, AccountsInv(places), UNCHANGED <<config, position, event>>
  PROVE  AccountsInv(places)'
BY DEF AccountsInv, AccountsTypeOK, OwnersMatch, Event

LEMMA ElsewhereKeeps ==
  ASSUME NEW CONSTANT places, AccountsInv(places), Elsewhere
  PROVE  AccountsInv(places)' /\ AccountsPersist
BY DEF Elsewhere, Silent, AccountsInv, AccountsTypeOK, OwnersMatch, Event, AccountsPersist

LEMMA CreateConfigKeeps ==
  ASSUME NEW CONSTANT places, AccountsInv(places),
         NEW mint \in Mints, NEW program \in Programs, NEW version \in Versions,
         CreateConfig(mint, program, version)
  PROVE  AccountsInv(places)' /\ AccountsPersist
<1> DEFINE address == ConfigAddress(mint, version)
           entry == [supported_mint |-> mint, version |-> version,
                     protocol_program_id |-> program]
<1>1. /\ config' = [a \in DOMAIN config \cup {address} |->
                      IF a = address THEN entry ELSE config[a]]
      /\ address \notin DOMAIN config
      /\ event' = NoEvent /\ position' = position
  BY DEF CreateConfig, Silent
<1>2. /\ entry \in [supported_mint: Mints, version: Versions, protocol_program_id: Programs]
      /\ address \in ConfigAddresses
  BY DEF ConfigAddress, ConfigAddresses
<1> HIDE DEF address, entry
<1>3. \A a \in DOMAIN config : a \in DOMAIN config' /\ config'[a] = config[a]
  BY <1>1
<1>4. config' \in [DOMAIN config' ->
         [supported_mint: Mints, version: Versions, protocol_program_id: Programs]]
  BY <1>1, <1>2 DEF AccountsInv, AccountsTypeOK
<1>5. /\ DOMAIN config' \subseteq ConfigAddresses
      /\ DOMAIN position' \subseteq [config: DOMAIN config', owner: Users]
  BY <1>1, <1>2, <1>3 DEF AccountsInv, AccountsTypeOK
<1> QED
  BY <1>1, <1>3, <1>4, <1>5
  DEF AccountsInv, AccountsTypeOK, OwnersMatch, Event, AccountsPersist

LEMMA CreatePositionKeeps ==
  ASSUME NEW CONSTANT places, AccountsInv(places),
         NEW owner \in Users, NEW configuration \in DOMAIN config, NEW place \in places,
         CreatePosition(owner, configuration, place)
  PROVE  AccountsInv(places)' /\ AccountsPersist
<1> DEFINE address == PositionAddress(configuration, owner)
           entry == [owner |-> owner, place |-> place,
                     deposited_amount |-> 0, shares |-> 0, last_value |-> 0]
<1>1. /\ position' = [a \in DOMAIN position \cup {address} |->
                        IF a = address THEN entry ELSE position[a]]
      /\ address \notin DOMAIN position
      /\ event' = NoEvent /\ config' = config
  BY DEF CreatePosition, Silent
<1>2. 0 \in U64
  BY AccountsConstants DEF U64
<1>3. /\ entry \in [owner: Users, place: places, deposited_amount: U64,
                    shares: U64, last_value: U64]
      /\ entry.owner = address.owner
      /\ address \in [config: DOMAIN config, owner: Users]
  BY <1>2 DEF PositionAddress
<1> HIDE DEF address, entry
<1>4. position' \in [DOMAIN position' ->
         [owner: Users, place: places, deposited_amount: U64, shares: U64, last_value: U64]]
  BY <1>1, <1>3 DEF AccountsInv, AccountsTypeOK
<1>5. DOMAIN position' \subseteq [config: DOMAIN config', owner: Users]
  BY <1>1, <1>3 DEF AccountsInv, AccountsTypeOK
<1>6. OwnersMatch'
  BY <1>1, <1>3 DEF AccountsInv, OwnersMatch
<1> QED
  BY <1>1, <1>4, <1>5, <1>6 DEF AccountsInv, AccountsTypeOK, Event, AccountsPersist

LEMMA RecordKeeps ==
  ASSUME NEW CONSTANT places, AccountsInv(places), NEW p \in DOMAIN position,
         NEW signer \in Users, NEW kind \in {"deposit", "withdraw"}, NEW amount \in Nat,
         NEW deposited, NEW shares, NEW value,
         Record(p, signer, kind, amount, deposited, shares, value)
  PROVE  /\ AccountsInv(places)' /\ AccountsPersist
         /\ DOMAIN position' = DOMAIN position
<1> DEFINE entry == [position[p] EXCEPT !.deposited_amount = deposited,
                                        !.shares = shares, !.last_value = value]
<1>1. /\ deposited \in U64 /\ shares \in U64 /\ value \in U64
      /\ position' = [position EXCEPT ![p].deposited_amount = deposited,
                                      ![p].shares = shares, ![p].last_value = value]
      /\ event' = [kind |-> kind, position |-> p, signer |-> signer,
                   amount |-> amount, shares |-> shares, value |-> value]
      /\ config' = config
  BY DEF Record, Fits
<1>2. position \in [DOMAIN position ->
        [owner: Users, place: places, deposited_amount: U64, shares: U64, last_value: U64]]
  BY DEF AccountsInv, AccountsTypeOK
<1>3. position' = [position EXCEPT ![p] = entry]
  BY <1>1, <1>2
<1>4. /\ entry \in [owner: Users, place: places, deposited_amount: U64,
                    shares: U64, last_value: U64]
      /\ entry.owner = position[p].owner /\ entry.place = position[p].place
  BY <1>1, <1>2
<1> HIDE DEF entry
<1>5. /\ DOMAIN position' = DOMAIN position
      /\ position' \in [DOMAIN position' ->
           [owner: Users, place: places, deposited_amount: U64, shares: U64, last_value: U64]]
      /\ \A q \in DOMAIN position : /\ position'[q].owner = position[q].owner
                                    /\ position'[q].place = position[q].place
  BY <1>2, <1>3, <1>4
<1>6. event' \in Event'
  BY <1>1, <1>5 DEF Event
<1> QED
  BY <1>1, <1>5, <1>6 DEF AccountsInv, AccountsTypeOK, OwnersMatch, AccountsPersist

(* What a movement leaves behind. *)
LEMMA RecordWrites ==
  ASSUME NEW CONSTANT places, AccountsInv(places), NEW p \in DOMAIN position,
         NEW signer, NEW kind, NEW amount, NEW deposited, NEW shares, NEW value,
         Record(p, signer, kind, amount, deposited, shares, value)
  PROVE  /\ DOMAIN position' = DOMAIN position
         /\ position'[p].deposited_amount = deposited /\ position'[p].place = position[p].place
         /\ \A q \in DOMAIN position : q # p => position'[q] = position[q]
         /\ event' = [kind |-> kind, position |-> p, signer |-> signer,
                      amount |-> amount, shares |-> shares, value |-> value]
<1>1. position' = [position EXCEPT ![p].deposited_amount = deposited,
                                   ![p].shares = shares, ![p].last_value = value]
  BY DEF Record
<1>2. position \in [DOMAIN position ->
        [owner: Users, place: places, deposited_amount: U64, shares: U64, last_value: U64]]
  BY DEF AccountsInv, AccountsTypeOK
<1> QED BY <1>1, <1>2 DEF Record

(* What a movement books. *)
LEMMA RecordBooks ==
  ASSUME NEW CONSTANT places, AccountsInv(places), NEW p \in DOMAIN position,
         NEW signer, NEW kind, NEW amount, NEW deposited, NEW shares, NEW value,
         Record(p, signer, kind, amount, deposited, shares, value)
  PROVE  Booked' = [Booked EXCEPT ![p] = deposited]
<1>1. /\ DOMAIN position' = DOMAIN position
      /\ position'[p].deposited_amount = deposited
      /\ \A q \in DOMAIN position : q # p => position'[q] = position[q]
  BY RecordWrites
<1> QED BY <1>1 DEF Booked

LEMMA MovedKeeps ==
  ASSUME NEW CONSTANT places, AccountsInv(places), NEW p \in DOMAIN position, Moved(p)
  PROVE  AccountsInv(places)' /\ AccountsPersist
BY RecordKeeps DEF Moved, RecordDeposit, RecordWithdraw

LEMMA ToldKeeps ==
  ASSUME NEW CONSTANT places, AccountsInv(places), NEW p \in DOMAIN position, Told(p)
  PROVE  AccountsInv(places)' /\ AccountsPersist
<1> PICK signer \in Users, shares \in U64, value \in U64 : Report(p, signer, shares, value)
  BY DEF Told
<1>1. event' = [kind |-> "value", position |-> p, signer |-> signer,
                amount |-> 0, shares |-> shares, value |-> value]
      /\ UNCHANGED <<config, position>>
  BY DEF Report
<1>2. event' \in Event'
  BY <1>1 DEF Event
<1> QED BY <1>1, <1>2 DEF AccountsInv, AccountsTypeOK, OwnersMatch, AccountsPersist

(* What is recorded fits its field. *)
LEMMA RecordedIsMoved ==
  ASSUME NEW p \in DOMAIN position, NEW signer \in Users, signer = position[p].owner,
         NEW amount \in Nat \ {0}, NEW shares, NEW value,
         \/ RecordDeposit(p, signer, amount, shares, value)
         \/ RecordWithdraw(p, signer, amount, shares, value)
  PROVE  Moved(p)
<1>1. shares \in U64 /\ value \in U64
  BY DEF RecordDeposit, RecordWithdraw, Record, Fits
<1> QED BY <1>1 DEF Moved

LEMMA ReportedIsTold ==
  ASSUME NEW p \in DOMAIN position, NEW signer \in Users, signer = position[p].owner,
         NEW shares, NEW value, Report(p, signer, shares, value)
  PROVE  Told(p)
<1>1. shares \in U64 /\ value \in U64
  BY DEF Report, Fits
<1> QED BY <1>1 DEF Told

(* Every step keeps the accounts well-formed, and where they are. *)
LEMMA AccountStepKeeps ==
  ASSUME NEW CONSTANT places, AccountsInv(places), AccountStep(places)
  PROVE  AccountsInv(places)' /\ AccountsPersist
BY ElsewhereKeeps, CreateConfigKeeps, CreatePositionKeeps, MovedKeeps, ToldKeeps
DEF AccountStep

-----------------------------------------------------------------------------
(* The refinement.                                                         *)

LEMMA AccountsInitMaps ==
  ASSUME NoAccounts
  PROVE  Abstract!Init
<1>1. DOMAIN position = {} /\ event.kind = "none"
  BY DEF NoAccounts, NoEvent
<1>2. Booked = [p \in {} |-> 0]
  BY <1>1 DEF Booked
<1> QED BY <1>1, <1>2 DEF Abstract!Init

LEMMA CreatePositionMaps ==
  ASSUME NEW owner \in Users, NEW configuration, NEW place,
         CreatePosition(owner, configuration, place)
  PROVE  Abstract!Open(PositionAddress(configuration, owner))
<1> DEFINE address == PositionAddress(configuration, owner)
           entry == [owner |-> owner, place |-> place,
                     deposited_amount |-> 0, shares |-> 0, last_value |-> 0]
<1>1. /\ address \notin DOMAIN position
      /\ position' = [p \in DOMAIN position \cup {address} |->
                        IF p = address THEN entry ELSE position[p]]
      /\ event' = NoEvent
  BY DEF CreatePosition, Silent
<1>2. entry.deposited_amount = 0
  OBVIOUS
<1> HIDE DEF address, entry
<1>3. Booked' = [p \in DOMAIN position \cup {address} |->
                   IF p = address THEN 0 ELSE Booked[p]]
  BY <1>1, <1>2 DEF Booked
<1>4. DOMAIN Booked = DOMAIN position
  BY DEF Booked
<1>5. Abstract!Open(address)
  BY <1>1, <1>3, <1>4 DEF Abstract!Open, NoEvent
<1> QED BY <1>5 DEF address

LEMMA MovedMaps ==
  ASSUME NEW CONSTANT places, AccountsInv(places), NEW p \in DOMAIN position, Moved(p)
  PROVE  Abstract!Deposit(p) \/ Abstract!Withdraw(p)
<1> PICK signer \in Users, amount \in Nat \ {0}, shares \in U64, value \in U64 :
      /\ signer = position[p].owner
      /\ \/ RecordDeposit(p, signer, amount, shares, value)
         \/ RecordWithdraw(p, signer, amount, shares, value)
  BY DEF Moved
<1>1. signer = p.owner
  BY DEF AccountsInv, OwnersMatch
<1>2. DOMAIN Booked = DOMAIN position /\ Booked[p] = position[p].deposited_amount
  BY DEF Booked
<1>3. CASE RecordDeposit(p, signer, amount, shares, value)
  <2>1. Booked' = [Booked EXCEPT ![p] = position[p].deposited_amount + amount]
    BY <1>3, RecordBooks DEF RecordDeposit
  <2>2. /\ position[p].deposited_amount + amount <= MaxU64
        /\ event'.kind = "deposit" /\ event'.position = p /\ event'.signer = signer
        /\ event'.amount = amount
    BY <1>3, AccountsConstants DEF RecordDeposit, Record, Fits, U64
  <2> QED BY <1>1, <1>2, <2>1, <2>2 DEF Abstract!Deposit, Abstract!ByOwner
<1>4. CASE RecordWithdraw(p, signer, amount, shares, value)
  <2> DEFINE left == IF Settles THEN Saturated(position[p].deposited_amount, amount)
                     ELSE position[p].deposited_amount
  <2>1. Record(p, signer, "withdraw", amount, left, shares, value)
    BY <1>4 DEF RecordWithdraw
  <2>2. Booked' = [Booked EXCEPT ![p] = left]
    BY <2>1, RecordBooks
  <2>3. /\ event'.kind = "withdraw" /\ event'.position = p /\ event'.signer = signer
        /\ event'.amount = amount
    BY <2>1 DEF Record
  <2> QED
    BY <1>1, <1>2, <2>2, <2>3
    DEF Abstract!Withdraw, Abstract!ByOwner, Abstract!Less, Saturated
<1> QED BY <1>3, <1>4

LEMMA ToldMaps ==
  ASSUME NEW CONSTANT places, AccountsInv(places), NEW p \in DOMAIN position, Told(p)
  PROVE  Abstract!Query(p)
BY DEF Told, Report, AccountsInv, OwnersMatch, Booked, Abstract!Query, Abstract!ByOwner

(* Every step of an adapter is a step of the promise. *)
LEMMA AccountStepMaps ==
  ASSUME NEW CONSTANT places, AccountsInv(places), AccountStep(places)
  PROVE  Abstract!Next
<1>1. CASE Elsewhere
  BY <1>1 DEF Elsewhere, Silent, NoEvent, Booked, Abstract!Elsewhere, Abstract!Next
<1>2. ASSUME NEW mint \in Mints, NEW program \in Programs, NEW version \in Versions,
             CreateConfig(mint, program, version)
      PROVE  Abstract!Next
  BY <1>2 DEF CreateConfig, Silent, NoEvent, Booked, Abstract!Elsewhere, Abstract!Next
<1>3. ASSUME NEW owner \in Users, NEW configuration \in DOMAIN config, NEW place \in places,
             CreatePosition(owner, configuration, place)
      PROVE  Abstract!Next
  <2>1. Abstract!Open(PositionAddress(configuration, owner))
    BY <1>3, CreatePositionMaps
  <2>2. PositionAddress(configuration, owner) \in Positions
    BY DEF AccountsInv, AccountsTypeOK, PositionAddress, Positions
  <2> QED BY <2>1, <2>2 DEF Abstract!Next
<1>4. ASSUME NEW p \in DOMAIN position, Moved(p) \/ Told(p)
      PROVE  Abstract!Next
  <2>1. p \in Positions
    BY DEF AccountsInv, AccountsTypeOK, Positions
  <2>2. Abstract!Deposit(p) \/ Abstract!Withdraw(p) \/ Abstract!Query(p)
    BY <1>4, MovedMaps, ToldMaps
  <2> QED BY <2>1, <2>2 DEF Abstract!Next
<1> QED BY <1>1, <1>2, <1>3, <1>4 DEF AccountStep
=============================================================================
