--------------------------- MODULE RegistryProofs ---------------------------
(***************************************************************************)
(* Proofs about the adapter registry, for every set of keys, programs,     *)
(* mints, versions and texts and every bound on the counter and the clock, *)
(* and about the scripts that deploy and verify it.                        *)
(***************************************************************************)
EXTENDS Deployment, FiniteSetTheorems, TLAPS

-----------------------------------------------------------------------------
(* What each instruction does to the accounts, without its event.          *)

(* The entry a proposal creates. *)
Fresh(adapter, name, version, mint, uri) ==
  [adapter_program_id |-> adapter, protocol_name |-> name,
   adapter_version |-> version, supported_mint |-> mint,
   status |-> "Pending", metadata_uri |-> uri,
   created_slot |-> slot, updated_slot |-> slot]

LEMMA StatusEffect ==
  ASSUME NEW signer, NEW address, NEW from, NEW to, NEW kind,
         ChangeStatus(signer, address, from, to, kind)
  PROVE  /\ Governs(signer)
         /\ address \in DOMAIN entries
         /\ entries[address].status \in from
         /\ entries' = [entries EXCEPT ![address] = WithStatus(entries[address], to)]
         /\ config' = config /\ slot' = slot
BY DEF ChangeStatus

LEMMA MetadataEffect ==
  ASSUME NEW signer, NEW address, NEW uri,
         update_adapter_metadata(signer, address, uri)
  PROVE  /\ Governs(signer)
         /\ address \in DOMAIN entries
         /\ validate_metadata_uri(uri)
         /\ entries' = [entries EXCEPT ![address] = WithMetadata(entries[address], uri)]
         /\ config' = config /\ slot' = slot
BY DEF update_adapter_metadata

LEMMA TransferEffect ==
  ASSUME NEW signer, NEW key, transfer_governance(signer, key)
  PROVE  /\ Governs(signer)
         /\ key # DefaultPubkey
         /\ config' = [config EXCEPT !.governance_authority = key]
         /\ entries' = entries /\ slot' = slot
BY DEF transfer_governance

LEMMA InitializeEffect ==
  ASSUME NEW signer, initialize_registry(signer)
  PROVE  /\ ~config.initialized
         /\ config' = [initialized |-> TRUE, governance_authority |-> signer,
                       adapter_count |-> 0]
         /\ entries' = entries /\ slot' = slot
BY DEF initialize_registry

(* The five status and metadata instructions come down to two shapes. *)
LEMMA GovernCases ==
  ASSUME NEW signer, Govern(signer)
  PROVE  \E address \in DOMAIN entries :
           \/ \E from \in SUBSET AdapterStatus, to \in AdapterStatus : \E kind :
                /\ ChangeStatus(signer, address, from, to, kind)
                /\ kind \in DOMAIN StatusAnnouncedBy /\ StatusAnnouncedBy[kind] = to
           \/ \E uri \in MetadataUris : update_adapter_metadata(signer, address, uri)
<1>1. PICK address \in DOMAIN entries :
        \/ approve_adapter(signer, address)
        \/ pause_adapter(signer, address)
        \/ unpause_adapter(signer, address)
        \/ deprecate_adapter(signer, address)
        \/ \E uri \in MetadataUris : update_adapter_metadata(signer, address, uri)
  BY DEF Govern
<1> DEFINE Shape == \E from \in SUBSET AdapterStatus, to \in AdapterStatus : \E kind :
                      /\ ChangeStatus(signer, address, from, to, kind)
                      /\ kind \in DOMAIN StatusAnnouncedBy /\ StatusAnnouncedBy[kind] = to
<1>2. CASE approve_adapter(signer, address)
  <2>1. ChangeStatus(signer, address, {"Pending"}, "Approved", "AdapterApproved")
    BY <1>2 DEF approve_adapter
  <2>2. {"Pending"} \in SUBSET AdapterStatus /\ "Approved" \in AdapterStatus
    BY DEF AdapterStatus
  <2>3. /\ "AdapterApproved" \in DOMAIN StatusAnnouncedBy
        /\ StatusAnnouncedBy["AdapterApproved"] = "Approved"
    BY DEF StatusAnnouncedBy
  <2>4. Shape
    BY <2>1, <2>2, <2>3
  <2>5. QED
    BY <2>4
<1>3. CASE pause_adapter(signer, address)
  <2>1. ChangeStatus(signer, address, {"Approved"}, "Paused", "AdapterPaused")
    BY <1>3 DEF pause_adapter
  <2>2. {"Approved"} \in SUBSET AdapterStatus /\ "Paused" \in AdapterStatus
    BY DEF AdapterStatus
  <2>3. /\ "AdapterPaused" \in DOMAIN StatusAnnouncedBy
        /\ StatusAnnouncedBy["AdapterPaused"] = "Paused"
    BY DEF StatusAnnouncedBy
  <2>4. Shape
    BY <2>1, <2>2, <2>3
  <2>5. QED
    BY <2>4
<1>4. CASE unpause_adapter(signer, address)
  <2>1. ChangeStatus(signer, address, {"Paused"}, "Approved", "AdapterUnpaused")
    BY <1>4 DEF unpause_adapter
  <2>2. {"Paused"} \in SUBSET AdapterStatus /\ "Approved" \in AdapterStatus
    BY DEF AdapterStatus
  <2>3. /\ "AdapterUnpaused" \in DOMAIN StatusAnnouncedBy
        /\ StatusAnnouncedBy["AdapterUnpaused"] = "Approved"
    BY DEF StatusAnnouncedBy
  <2>4. Shape
    BY <2>1, <2>2, <2>3
  <2>5. QED
    BY <2>4
<1>5. CASE deprecate_adapter(signer, address)
  <2>1. ChangeStatus(signer, address, AdapterStatus \ {"Deprecated"}, "Deprecated",
                     "AdapterDeprecated")
    BY <1>5 DEF deprecate_adapter
  <2>2. /\ AdapterStatus \ {"Deprecated"} \in SUBSET AdapterStatus
        /\ "Deprecated" \in AdapterStatus
    BY DEF AdapterStatus
  <2>3. /\ "AdapterDeprecated" \in DOMAIN StatusAnnouncedBy
        /\ StatusAnnouncedBy["AdapterDeprecated"] = "Deprecated"
    BY DEF StatusAnnouncedBy
  <2>4. Shape
    BY <2>1, <2>2, <2>3
  <2>5. QED
    BY <2>4
<1>6. CASE \E uri \in MetadataUris : update_adapter_metadata(signer, address, uri)
  BY <1>6
<1>7. QED
  BY <1>1, <1>2, <1>3, <1>4, <1>5, <1>6

-----------------------------------------------------------------------------
(* A step is one of six kinds of instruction, or leaves everything alone.  *)
LEMMA StepCases ==
  ASSUME [Next]_vars
  PROVE  \/ AdvanceSlot
         \/ \E signer \in Signers : initialize_registry(signer)
         \/ \E signer \in Signers : Propose(signer)
         \/ \E signer \in Signers : Govern(signer)
         \/ \E signer \in Signers : \E key \in Pubkeys : transfer_governance(signer, key)
         \/ UNCHANGED vars
BY DEF Next

LEMMA Bounds == MaxCount \in Nat /\ MaxSlot \in Nat /\ DefaultPubkey \in Pubkeys
BY RegistryConstants

ConfigType ==
  [initialized: BOOLEAN, governance_authority: Pubkeys, adapter_count: 0 .. MaxCount]

(* The accounts always hold values of their types: no instruction stores a *)
(* count beyond its width, a slot of the future or an unoffered address.   *)
THEOREM TypeCorrect == Spec => []TypeOK
<1>1. Init => TypeOK
  BY RegistryConstants DEF Init, TypeOK
<1>2. TypeOK /\ [Next]_vars => TypeOK'
  <2> SUFFICES ASSUME TypeOK, [Next]_vars
               PROVE  TypeOK'
    OBVIOUS
  <2>c. config \in ConfigType
    BY DEF TypeOK, ConfigType
  <2>e. /\ entries \in [DOMAIN entries -> AdapterEntry]
        /\ DOMAIN entries \subseteq Addresses
    BY DEF TypeOK
  <2>s. slot \in 0 .. MaxSlot
    BY DEF TypeOK
  <2>p. /\ config' \in ConfigType
        /\ entries' \in [DOMAIN entries' -> AdapterEntry]
        /\ DOMAIN entries' \subseteq Addresses
        /\ slot' \in 0 .. MaxSlot
        => TypeOK'
    BY DEF TypeOK, ConfigType
  <2>1. CASE AdvanceSlot
    <3>1. slot' \in 0 .. MaxSlot
      BY <2>1, <2>s, Bounds DEF AdvanceSlot
    <3>2. QED
      BY <3>1, <2>c, <2>e, <2>p, <2>1 DEF AdvanceSlot
  <2>2. ASSUME NEW signer \in Signers, initialize_registry(signer)
        PROVE  TypeOK'
    <3>1. config' = [initialized |-> TRUE, governance_authority |-> signer,
                     adapter_count |-> 0]
          /\ entries' = entries /\ slot' = slot
      BY <2>2, InitializeEffect
    <3>2. config' \in ConfigType
      BY <3>1, Bounds DEF ConfigType, Signers
    <3>3. QED
      BY <3>1, <3>2, <2>e, <2>s, <2>p
  <2>3. ASSUME NEW signer \in Signers, NEW adapter \in Programs,
               NEW name \in ProtocolNames, NEW version \in Versions,
               NEW mint \in Mints, NEW uri \in MetadataUris,
               propose_adapter(signer, adapter, name, version, mint, uri)
        PROVE  TypeOK'
    <3> DEFINE address == EntryAddress(adapter, mint, version)
               fresh == Fresh(adapter, name, version, mint, uri)
    <3>1. address \in Addresses
      BY DEF EntryAddress, Addresses
    <3>2. fresh \in AdapterEntry
      BY <2>s DEF AdapterEntry, AdapterStatus, Fresh
    <3>3. /\ entries' = [a \in DOMAIN entries \cup {address} |->
                           IF a = address THEN fresh ELSE entries[a]]
          /\ slot' = slot
          /\ config.adapter_count < MaxCount
          /\ config' = [config EXCEPT !.adapter_count = @ + 1]
      BY <2>3 DEF propose_adapter, CountFits, Fresh
    <3> HIDE DEF fresh, address
    <3>4. config' \in ConfigType
      BY <3>3, <2>c, Bounds DEF ConfigType
    <3>5. QED
      BY <3>1, <3>2, <3>3, <3>4, <2>e, <2>s, <2>p
  <2>4. ASSUME NEW signer, NEW address, NEW from, NEW to \in AdapterStatus, NEW kind,
               ChangeStatus(signer, address, from, to, kind)
        PROVE  TypeOK'
    <3>1. /\ address \in DOMAIN entries
          /\ entries' = [entries EXCEPT ![address] = WithStatus(entries[address], to)]
          /\ config' = config /\ slot' = slot
      BY <2>4, StatusEffect
    <3>2. entries[address] \in AdapterEntry
      BY <3>1, <2>e
    <3>3. WithStatus(entries[address], to) \in AdapterEntry
      BY <3>2, <2>s DEF WithStatus, AdapterEntry
    <3>4. QED
      BY <3>1, <3>3, <2>c, <2>e, <2>s, <2>p
  <2>5. ASSUME NEW signer, NEW address, NEW uri \in MetadataUris,
               update_adapter_metadata(signer, address, uri)
        PROVE  TypeOK'
    <3>1. /\ address \in DOMAIN entries
          /\ entries' = [entries EXCEPT ![address] = WithMetadata(entries[address], uri)]
          /\ config' = config /\ slot' = slot
      BY <2>5, MetadataEffect
    <3>2. entries[address] \in AdapterEntry
      BY <3>1, <2>e
    <3>3. WithMetadata(entries[address], uri) \in AdapterEntry
      BY <3>2, <2>s DEF WithMetadata, AdapterEntry
    <3>4. QED
      BY <3>1, <3>3, <2>c, <2>e, <2>s, <2>p
  <2>6. ASSUME NEW signer, NEW key \in Pubkeys, transfer_governance(signer, key)
        PROVE  TypeOK'
    <3>1. /\ config' = [config EXCEPT !.governance_authority = key]
          /\ entries' = entries /\ slot' = slot
      BY <2>6, TransferEffect
    <3>2. config' \in ConfigType
      BY <3>1, <2>c DEF ConfigType
    <3>3. QED
      BY <3>1, <3>2, <2>e, <2>s, <2>p
  <2>7. CASE UNCHANGED vars
    BY <2>c, <2>e, <2>s, <2>p, <2>7 DEF vars
  <2>8. ASSUME NEW signer \in Signers, Govern(signer)
        PROVE  TypeOK'
    BY <2>4, <2>5, <2>8, GovernCases
  <2>9. QED
    BY <2>1, <2>2, <2>3, <2>6, <2>7, <2>8 DEF Next, Propose
<1>3. QED
  BY <1>1, <1>2, PTL DEF Spec

-----------------------------------------------------------------------------
(* The inductive invariant.  The count needs the set of entries to be      *)
(* finite, and the counter to be zero until the registry is initialised,   *)
(* because initialize_registry writes a zero.                              *)

CountInv ==
  /\ CountMatchesEntries
  /\ IsFiniteSet(DOMAIN entries)
  /\ ~config.initialized => config.adapter_count = 0

LEMMA CountInductive ==
  ASSUME TypeOK, CountInv, [Next]_vars
  PROVE  CountInv'
<1>0. /\ config.adapter_count = Cardinality(DOMAIN entries)
      /\ config.initialized <=> config.governance_authority # DefaultPubkey
      /\ IsFiniteSet(DOMAIN entries)
      /\ ~config.initialized => config.adapter_count = 0
  BY DEF CountInv, CountMatchesEntries
<1>t. config \in ConfigType
  BY DEF TypeOK, ConfigType
<1>p. /\ config'.adapter_count = Cardinality(DOMAIN entries')
      /\ config'.initialized <=> config'.governance_authority # DefaultPubkey
      /\ IsFiniteSet(DOMAIN entries')
      /\ ~config'.initialized => config'.adapter_count = 0
      => CountInv'
  BY DEF CountInv, CountMatchesEntries
<1>1. CASE AdvanceSlot
  BY <1>0, <1>p, <1>1 DEF AdvanceSlot
<1>2. ASSUME NEW signer \in Signers, initialize_registry(signer)
      PROVE  CountInv'
  <2>1. /\ config' = [initialized |-> TRUE, governance_authority |-> signer,
                      adapter_count |-> 0]
        /\ entries' = entries /\ ~config.initialized
    BY <1>2, InitializeEffect
  <2>2. signer # DefaultPubkey
    BY DEF Signers
  <2>3. QED
    <3>1. Cardinality(DOMAIN entries) = 0
      BY <2>1, <1>0
    <3>2. QED
      BY <2>1, <2>2, <3>1, <1>0, <1>p
<1>3. ASSUME NEW signer \in Signers, Propose(signer)
      PROVE  CountInv'
  <2>1. PICK adapter \in Programs, name \in ProtocolNames, version \in Versions,
             mint \in Mints, uri \in MetadataUris :
             propose_adapter(signer, adapter, name, version, mint, uri)
    BY <1>3 DEF Propose
  <2> DEFINE address == EntryAddress(adapter, mint, version)
  <2>2. /\ address \notin DOMAIN entries
        /\ entries' = [a \in DOMAIN entries \cup {address} |->
                         IF a = address
                         THEN Fresh(adapter, name, version, mint, uri)
                         ELSE entries[a]]
        /\ config' = [config EXCEPT !.adapter_count = @ + 1]
        /\ Governs(signer)
    BY <2>1 DEF propose_adapter, EntryVacant, Fresh
  <2> HIDE DEF address
  <2>3. /\ IsFiniteSet(DOMAIN entries')
        /\ Cardinality(DOMAIN entries') = Cardinality(DOMAIN entries) + 1
    <3>1. DOMAIN entries' = DOMAIN entries \cup {address}
      BY <2>2
    <3>2. QED
      BY <3>1, <2>2, <1>0, FS_AddElement
  <2>4. /\ config'.adapter_count = config.adapter_count + 1
        /\ config'.initialized = config.initialized
        /\ config'.governance_authority = config.governance_authority
        /\ config.initialized
    BY <2>2, <1>t DEF ConfigType, Governs
  <2>5. QED
    BY <2>3, <2>4, <1>0, <1>p
<1>4. ASSUME NEW signer \in Signers, Govern(signer)
      PROVE  CountInv'
  <2>1. PICK address \in DOMAIN entries :
           \/ \E from \in SUBSET AdapterStatus, to \in AdapterStatus : \E kind :
                ChangeStatus(signer, address, from, to, kind)
           \/ \E uri \in MetadataUris : update_adapter_metadata(signer, address, uri)
    BY <1>4, GovernCases
  <2>2. config' = config /\ DOMAIN entries' = DOMAIN entries
    <3>1. ASSUME NEW from, NEW to, NEW kind, ChangeStatus(signer, address, from, to, kind)
          PROVE  config' = config /\ DOMAIN entries' = DOMAIN entries
      BY <3>1, StatusEffect
    <3>2. ASSUME NEW uri, update_adapter_metadata(signer, address, uri)
          PROVE  config' = config /\ DOMAIN entries' = DOMAIN entries
      BY <3>2, MetadataEffect
    <3>3. QED
      BY <2>1, <3>1, <3>2
  <2>3. QED
    BY <2>2, <1>0, <1>p
<1>5. ASSUME NEW signer \in Signers, NEW key \in Pubkeys, transfer_governance(signer, key)
      PROVE  CountInv'
  <2>1. /\ config' = [config EXCEPT !.governance_authority = key]
        /\ entries' = entries /\ key # DefaultPubkey /\ Governs(signer)
    BY <1>5, TransferEffect
  <2>2. /\ config'.adapter_count = config.adapter_count
        /\ config'.initialized = config.initialized
        /\ config'.governance_authority = key
        /\ config.initialized
    BY <2>1, <1>t DEF ConfigType, Governs
  <2>3. QED
    BY <2>1, <2>2, <1>0, <1>p
<1>6. CASE UNCHANGED vars
  BY <1>0, <1>p, <1>6 DEF vars
<1>7. QED
  BY <1>1, <1>2, <1>3, <1>4, <1>5, <1>6, StepCases

LEMMA CountInit == Init => CountInv
<1> SUFFICES ASSUME Init PROVE CountInv
  OBVIOUS
<1>1. DOMAIN entries = {}
  BY DEF Init
<1>2. config = [initialized |-> FALSE, governance_authority |-> DefaultPubkey,
                adapter_count |-> 0]
  BY DEF Init
<1>3. QED
  BY <1>1, <1>2, FS_EmptySet DEF CountInv, CountMatchesEntries

(* adapter_count is the number of entry accounts, whatever the sequence of *)
(* proposals, rejected repeats and overflow rejections.                    *)
THEOREM CountCorrect == Spec => []CountMatchesEntries
<1>1. Init => CountInv
  BY CountInit
<1>2. TypeOK /\ CountInv /\ [Next]_vars => CountInv'
  BY CountInductive
<1>3. CountInv => CountMatchesEntries
  BY DEF CountInv
<1>4. QED
  BY <1>1, <1>2, <1>3, TypeCorrect, PTL DEF Spec

-----------------------------------------------------------------------------
(* Well-formed entries.  That an entry fits its account is not inductive:  *)
(* a metadata update keeps the name it finds, so the invariant bounds each *)
(* text on its own.                                                        *)

EntryInv(a, e) ==
  /\ a = EntryAddress(e.adapter_program_id, e.supported_mint, e.adapter_version)
  /\ e.adapter_program_id # DefaultPubkey /\ e.supported_mint # DefaultPubkey
  /\ e.protocol_name.bytes <= MAX_PROTOCOL_NAME_LEN
  /\ e.metadata_uri.bytes <= MAX_METADATA_URI_LEN

EntriesInv == \A a \in DOMAIN entries : EntryInv(a, entries[a])

LEMMA UpdatedEntry ==
  ASSUME NEW e \in AdapterEntry, NEW to, NEW uri
  PROVE  /\ \A a : EntryInv(a, e) => EntryInv(a, WithStatus(e, to))
         /\ \A a : EntryInv(a, e) /\ validate_metadata_uri(uri)
                   => EntryInv(a, WithMetadata(e, uri))
<1>1. /\ WithStatus(e, to).adapter_program_id = e.adapter_program_id
      /\ WithStatus(e, to).supported_mint = e.supported_mint
      /\ WithStatus(e, to).adapter_version = e.adapter_version
      /\ WithStatus(e, to).protocol_name = e.protocol_name
      /\ WithStatus(e, to).metadata_uri = e.metadata_uri
  BY DEF WithStatus, AdapterEntry
<1>2. /\ WithMetadata(e, uri).adapter_program_id = e.adapter_program_id
      /\ WithMetadata(e, uri).supported_mint = e.supported_mint
      /\ WithMetadata(e, uri).adapter_version = e.adapter_version
      /\ WithMetadata(e, uri).protocol_name = e.protocol_name
      /\ WithMetadata(e, uri).metadata_uri = uri
  BY DEF WithMetadata, AdapterEntry
<1>3. QED
  BY <1>1, <1>2 DEF EntryInv, validate_metadata_uri

LEMMA EntriesInductive ==
  ASSUME TypeOK, EntriesInv, [Next]_vars
  PROVE  EntriesInv'
<1>1. CASE AdvanceSlot \/ UNCHANGED vars
  BY <1>1 DEF AdvanceSlot, vars, EntriesInv, EntryInv
<1>2. CASE \/ \E signer \in Signers : initialize_registry(signer)
           \/ \E signer \in Signers : \E key \in Pubkeys : transfer_governance(signer, key)
  <2>1. entries' = entries
    BY <1>2, InitializeEffect, TransferEffect
  <2>2. QED
    BY <2>1 DEF EntriesInv, EntryInv
<1>3. ASSUME NEW signer \in Signers, Propose(signer)
      PROVE  EntriesInv'
  <2>1. PICK adapter \in Programs, name \in ProtocolNames, version \in Versions,
             mint \in Mints, uri \in MetadataUris :
             propose_adapter(signer, adapter, name, version, mint, uri)
    BY <1>3 DEF Propose
  <2> DEFINE address == EntryAddress(adapter, mint, version)
             fresh == Fresh(adapter, name, version, mint, uri)
  <2>2. entries' = [a \in DOMAIN entries \cup {address} |->
                      IF a = address THEN fresh ELSE entries[a]]
    BY <2>1 DEF propose_adapter, Fresh
  <2>3. validate_adapter_inputs(adapter, name, mint, uri)
    BY <2>1 DEF propose_adapter
  <2>4. EntryInv(address, fresh)
    BY <2>3 DEF EntryInv, Fresh, validate_adapter_inputs, validate_protocol_name,
       validate_metadata_uri
  <2> HIDE DEF address, fresh
  <2>5. \A a \in DOMAIN entries' : EntryInv(a, entries'[a])
    BY <2>2, <2>4 DEF EntriesInv
  <2>6. QED
    BY <2>5 DEF EntriesInv, EntryInv
<1>4. ASSUME NEW signer \in Signers, Govern(signer)
      PROVE  EntriesInv'
  <2>1. PICK address \in DOMAIN entries :
           \/ \E from \in SUBSET AdapterStatus, to \in AdapterStatus : \E kind :
                ChangeStatus(signer, address, from, to, kind)
           \/ \E uri \in MetadataUris : update_adapter_metadata(signer, address, uri)
    BY <1>4, GovernCases
  <2>2. entries[address] \in AdapterEntry /\ EntryInv(address, entries[address])
    BY DEF TypeOK, EntriesInv
  <2>3. ASSUME NEW e, EntryInv(address, e), entries' = [entries EXCEPT ![address] = e]
        PROVE  EntriesInv'
    <3>1. \A a \in DOMAIN entries' : EntryInv(a, entries'[a])
      BY <2>3 DEF EntriesInv
    <3>2. QED
      BY <3>1 DEF EntriesInv, EntryInv
  <2>4. ASSUME NEW from, NEW to, NEW kind, ChangeStatus(signer, address, from, to, kind)
        PROVE  EntriesInv'
    <3>1. entries' = [entries EXCEPT ![address] = WithStatus(entries[address], to)]
      BY <2>4, StatusEffect
    <3>2. EntryInv(address, WithStatus(entries[address], to))
      BY <2>2, UpdatedEntry
    <3>3. QED
      BY <3>1, <3>2, <2>3
  <2>5. ASSUME NEW uri, update_adapter_metadata(signer, address, uri)
        PROVE  EntriesInv'
    <3>1. /\ entries' = [entries EXCEPT ![address] = WithMetadata(entries[address], uri)]
          /\ validate_metadata_uri(uri)
      BY <2>5, MetadataEffect
    <3>2. EntryInv(address, WithMetadata(entries[address], uri))
      BY <2>2, <3>1, UpdatedEntry
    <3>3. QED
      BY <3>1, <3>2, <2>3
  <2>6. QED
    BY <2>1, <2>4, <2>5
<1>5. QED
  BY <1>1, <1>2, <1>3, <1>4, StepCases

(* Every entry sits at the address its own fields derive, and fits the     *)
(* space its account was created with, after any metadata updates.         *)
THEOREM WellFormedCorrect == Spec => []EntriesWellFormed
<1>1. Init => EntriesInv
  BY DEF Init, EntriesInv
<1>2. TypeOK /\ EntriesInv /\ [Next]_vars => EntriesInv'
  BY EntriesInductive
<1>3. TypeOK /\ EntriesInv => EntriesWellFormed
  <2> SUFFICES ASSUME TypeOK, EntriesInv, NEW a \in DOMAIN entries
               PROVE  /\ a = EntryAddress(entries[a].adapter_program_id,
                               entries[a].supported_mint, entries[a].adapter_version)
                      /\ entries[a].adapter_program_id # DefaultPubkey
                      /\ entries[a].supported_mint # DefaultPubkey
                      /\ SerializedBytes(entries[a]) <= EntrySpace
    BY DEF EntriesWellFormed
  <2>1. EntryInv(a, entries[a])
    BY DEF EntriesInv
  <2>2. /\ entries[a].protocol_name \in ProtocolNames
        /\ entries[a].metadata_uri \in MetadataUris
    BY DEF TypeOK, AdapterEntry
  <2>3. entries[a].protocol_name.bytes \in Nat /\ entries[a].metadata_uri.bytes \in Nat
    <3>1. ProtocolNames \subseteq Text /\ MetadataUris \subseteq Text
      BY RegistryConstants
    <3>2. \A x \in Text : x.bytes \in Nat
      BY DEF Text
    <3>3. QED
      BY ONLY <2>2, <3>1, <3>2
  <2>4. SerializedBytes(entries[a]) <= EntrySpace
    BY <2>1, <2>3 DEF EntryInv, SerializedBytes, EntrySpace, FixedBytes,
       MAX_PROTOCOL_NAME_LEN, MAX_METADATA_URI_LEN
  <2>5. QED
    BY <2>1, <2>4 DEF EntryInv
<1>4. QED
  BY <1>1, <1>2, <1>3, TypeCorrect, PTL DEF Spec

-----------------------------------------------------------------------------
(* The clock and the slots an entry and the last event carry.              *)

(* created_slot <= updated_slot <= now for every entry, and the last event *)
(* about an entry carries that entry's updated_slot.                       *)
SlotsOrdered ==
  /\ \A a \in DOMAIN entries :
       /\ entries[a].created_slot <= entries[a].updated_slot
       /\ entries[a].updated_slot <= slot
  /\ "adapter_entry" \in DOMAIN event =>
       /\ event.adapter_entry \in DOMAIN entries
       /\ event.slot = entries[event.adapter_entry].updated_slot

EntrySlots(e) == e.created_slot <= e.updated_slot /\ e.updated_slot <= slot

EventSlot ==
  "adapter_entry" \in DOMAIN event =>
    /\ event.adapter_entry \in DOMAIN entries
    /\ event.slot = entries[event.adapter_entry].updated_slot

LEMMA SlotsInductive ==
  ASSUME TypeOK, SlotsOrdered, [Next]_vars
  PROVE  SlotsOrdered'
<1>s. slot \in Nat /\ slot' \in Nat /\ slot <= slot'
  <2>1. slot \in Nat
    BY Bounds DEF TypeOK
  <2>2. slot' = slot \/ slot' = slot + 1
    <3>1. CASE AdvanceSlot
      BY <3>1 DEF AdvanceSlot
    <3>2. ASSUME NEW signer \in Signers, Propose(signer)
          PROVE  slot' = slot
      BY <3>2 DEF Propose, propose_adapter
    <3>3. ASSUME NEW signer \in Signers, Govern(signer)
          PROVE  slot' = slot
      BY <3>3, GovernCases, StatusEffect, MetadataEffect
    <3>4. ASSUME NEW signer \in Signers, NEW key,
                 initialize_registry(signer) \/ transfer_governance(signer, key)
          PROVE  slot' = slot
      BY <3>4, InitializeEffect, TransferEffect
    <3>5. CASE UNCHANGED vars
      BY <3>5 DEF vars
    <3>6. QED
      BY <3>1, <3>2, <3>3, <3>4, <3>5, StepCases
  <2>3. QED
    BY <2>1, <2>2
<1>t. \A a \in DOMAIN entries :
        /\ entries[a] \in AdapterEntry
        /\ entries[a].updated_slot \in Nat /\ entries[a].created_slot \in Nat
        /\ EntrySlots(entries[a])
  BY Bounds DEF TypeOK, SlotsOrdered, AdapterEntry, EntrySlots
<1>p. (\A a \in DOMAIN entries' : EntrySlots(entries[a])') /\ EventSlot' => SlotsOrdered'
  BY DEF SlotsOrdered, EntrySlots, EventSlot
<1>e. EventSlot
  BY DEF SlotsOrdered, EventSlot
<1>k. ASSUME entries' = entries
      PROVE  \A a \in DOMAIN entries' : EntrySlots(entries[a])'
  BY <1>k, <1>s, <1>t DEF EntrySlots
<1>1. CASE AdvanceSlot \/ UNCHANGED vars
  <2>1. entries' = entries /\ event' = event
    BY <1>1 DEF AdvanceSlot, vars
  <2>2. EventSlot'
    BY <2>1, <1>e DEF EventSlot
  <2>3. QED
    BY <2>1, <2>2, <1>k, <1>p
<1>2. ASSUME NEW signer \in Signers, NEW key,
             initialize_registry(signer) \/ transfer_governance(signer, key)
      PROVE  SlotsOrdered'
  <2>1. entries' = entries
    BY <1>2, InitializeEffect, TransferEffect
  <2>2. "adapter_entry" \notin DOMAIN event'
    BY <1>2 DEF initialize_registry, transfer_governance, emit
  <2>3. QED
    BY <2>1, <2>2, <1>k, <1>p DEF EventSlot
(* An entry written in this slot is in order, and so are all the others.   *)
<1>3. ASSUME NEW address, NEW e,
             DOMAIN entries' = DOMAIN entries \cup {address}, entries'[address] = e,
             \A a \in DOMAIN entries \ {address} : entries'[a] = entries[a],
             slot' = slot, e.updated_slot = slot,
             e.created_slot \in Nat, e.created_slot <= slot,
             event'.adapter_entry = address, event'.slot = slot
      PROVE  SlotsOrdered'
  <2>1. \A a \in DOMAIN entries' : EntrySlots(entries[a])'
    BY <1>3, <1>s, <1>t DEF EntrySlots
  <2>2. EventSlot'
    BY <1>3 DEF EventSlot
  <2>3. QED
    BY <2>1, <2>2, <1>p
<1>4. ASSUME NEW signer \in Signers, Propose(signer)
      PROVE  SlotsOrdered'
  <2>1. PICK adapter \in Programs, name \in ProtocolNames, version \in Versions,
             mint \in Mints, uri \in MetadataUris :
             propose_adapter(signer, adapter, name, version, mint, uri)
    BY <1>4 DEF Propose
  <2> DEFINE address == EntryAddress(adapter, mint, version)
             fresh == Fresh(adapter, name, version, mint, uri)
  <2>2. /\ entries' = [a \in DOMAIN entries \cup {address} |->
                         IF a = address THEN fresh ELSE entries[a]]
        /\ slot' = slot
    BY <2>1 DEF propose_adapter, Fresh
  <2>3. event'.adapter_entry = address /\ event'.slot = slot
    BY <2>1 DEF propose_adapter, emit
  <2>4. fresh.updated_slot = slot /\ fresh.created_slot = slot
    BY DEF Fresh
  <2> HIDE DEF address, fresh
  <2>5. /\ DOMAIN entries' = DOMAIN entries \cup {address}
        /\ entries'[address] = fresh
        /\ \A a \in DOMAIN entries \ {address} : entries'[a] = entries[a]
    BY <2>2
  <2>6. QED
    BY <2>2, <2>3, <2>4, <2>5, <1>s, <1>3
<1>5. ASSUME NEW signer \in Signers, Govern(signer)
      PROVE  SlotsOrdered'
  <2>1. ASSUME NEW address \in DOMAIN entries, NEW from, NEW to, NEW kind,
               ChangeStatus(signer, address, from, to, kind)
        PROVE  SlotsOrdered'
    <3> DEFINE e == WithStatus(entries[address], to)
    <3>1. entries' = [entries EXCEPT ![address] = e] /\ slot' = slot
      BY <2>1, StatusEffect
    <3>2. event' = EntryEvent(kind, signer, address)
      BY <2>1 DEF ChangeStatus, emit
    <3>3. event'.adapter_entry = address /\ event'.slot = slot
      BY <3>2 DEF EntryEvent
    <3>4. e.updated_slot = slot /\ e.created_slot = entries[address].created_slot
      BY <1>t DEF WithStatus, AdapterEntry
    <3> HIDE DEF e
    <3>5. /\ DOMAIN entries' = DOMAIN entries \cup {address}
          /\ entries'[address] = e
          /\ \A a \in DOMAIN entries \ {address} : entries'[a] = entries[a]
      BY <3>1
    <3>6. entries[address].created_slot \in Nat /\ entries[address].created_slot <= slot
      BY <1>s, <1>t DEF EntrySlots
    <3>7. QED
      BY <3>1, <3>3, <3>4, <3>5, <3>6, <1>3
  <2>2. ASSUME NEW address \in DOMAIN entries, NEW uri,
               update_adapter_metadata(signer, address, uri)
        PROVE  SlotsOrdered'
    <3> DEFINE e == WithMetadata(entries[address], uri)
    <3>1. entries' = [entries EXCEPT ![address] = e] /\ slot' = slot
      BY <2>2, MetadataEffect
    <3>2. event'.adapter_entry = address /\ event'.slot = slot
      BY <2>2 DEF update_adapter_metadata, emit
    <3>3. e.updated_slot = slot /\ e.created_slot = entries[address].created_slot
      BY <1>t DEF WithMetadata, AdapterEntry
    <3> HIDE DEF e
    <3>4. /\ DOMAIN entries' = DOMAIN entries \cup {address}
          /\ entries'[address] = e
          /\ \A a \in DOMAIN entries \ {address} : entries'[a] = entries[a]
      BY <3>1
    <3>5. entries[address].created_slot \in Nat /\ entries[address].created_slot <= slot
      BY <1>s, <1>t DEF EntrySlots
    <3>6. QED
      BY <3>1, <3>2, <3>3, <3>4, <3>5, <1>3
  <2>3. QED
    BY <2>1, <2>2, <1>5, GovernCases
<1>6. QED
  BY <1>1, <1>2, <1>4, <1>5, StepCases

(* Slots never run backwards, and the last event about an entry carries    *)
(* that entry's own updated_slot.                                          *)
THEOREM SlotsCorrect == Spec => []SlotsOrdered
<1>1. Init => SlotsOrdered
  BY DEF Init, SlotsOrdered, NoEvent
<1>2. TypeOK /\ SlotsOrdered /\ [Next]_vars => SlotsOrdered'
  BY SlotsInductive
<1>3. QED
  BY <1>1, <1>2, TypeCorrect, PTL DEF Spec

-----------------------------------------------------------------------------
(* The events are complete.  One lemma per event kind says what a reader   *)
(* concludes from it; the invariant needs no strengthening beyond types.   *)

(* The entries with one of them replaced. *)
Replaced(known, address, e) == [known EXCEPT ![address] = e]

LEMMA ReplayInitialize ==
  ASSUME NEW authority, NEW known, NEW signer
  PROVE  LET e == [kind |-> "RegistryInitialized", governance_authority |-> signer] IN
         AuthorityAfter(authority, e) = signer /\ EntriesAfter(known, e) = known
BY DEF AuthorityAfter, EntriesAfter, StatusAnnouncedBy

LEMMA ReplayTransfer ==
  ASSUME NEW authority, NEW known, NEW signer, NEW key
  PROVE  LET e == [kind |-> "GovernanceTransferred", governance_authority |-> signer,
                   new_governance_authority |-> key] IN
         AuthorityAfter(authority, e) = key /\ EntriesAfter(known, e) = known
BY DEF AuthorityAfter, EntriesAfter, StatusAnnouncedBy

LEMMA ReplayStatus ==
  ASSUME NEW authority, NEW known, NEW signer, NEW address,
         NEW kind \in DOMAIN StatusAnnouncedBy
  PROVE  LET e == EntryEvent(kind, signer, address) IN
         /\ AuthorityAfter(authority, e) = authority
         /\ EntriesAfter(known, e) =
              Replaced(known, address, WithStatus(known[address], StatusAnnouncedBy[kind]))
<1> DEFINE e == EntryEvent(kind, signer, address)
<1>1. e.kind \in {"AdapterApproved", "AdapterPaused", "AdapterUnpaused", "AdapterDeprecated"}
   BY DEF EntryEvent, StatusAnnouncedBy
<1>2. e.kind = kind /\ e.adapter_entry = address /\ e.slot = slot
   BY DEF EntryEvent
<1> HIDE DEF e
<1>3. AuthorityAfter(authority, e) = authority
   BY <1>1 DEF AuthorityAfter
<1>4. EntriesAfter(known, e) =
         [known EXCEPT ![e.adapter_entry] =
            [@ EXCEPT !.status = StatusAnnouncedBy[e.kind], !.updated_slot = e.slot]]
   BY <1>1, <1>2 DEF EntriesAfter
<1>5. QED BY <1>2, <1>3, <1>4 DEF e, WithStatus, Replaced

LEMMA ReplayMetadata ==
  ASSUME NEW authority, NEW known, NEW signer, NEW address, NEW uri, NEW old
  PROVE  LET e == [kind |-> "AdapterMetadataUpdated", governance_authority |-> signer,
           adapter_entry |-> address,
           previous_metadata_uri |-> old,
           metadata_uri |-> uri, slot |-> slot] IN
         /\ AuthorityAfter(authority, e) = authority
         /\ EntriesAfter(known, e) =
              Replaced(known, address, WithMetadata(known[address], uri))
<1> DEFINE e == [kind |-> "AdapterMetadataUpdated", governance_authority |-> signer,
           adapter_entry |-> address,
           previous_metadata_uri |-> old,
           metadata_uri |-> uri, slot |-> slot]
<1>1. /\ e.kind = "AdapterMetadataUpdated" /\ e.adapter_entry = address
      /\ e.metadata_uri = uri /\ e.slot = slot
  OBVIOUS
<1> HIDE DEF e
<1>2. AuthorityAfter(authority, e) = authority
  BY <1>1 DEF AuthorityAfter
<1>3. EntriesAfter(known, e) =
         [known EXCEPT ![e.adapter_entry] =
            [@ EXCEPT !.metadata_uri = e.metadata_uri, !.updated_slot = e.slot]]
  BY <1>1 DEF EntriesAfter, StatusAnnouncedBy
<1>4. QED
  BY <1>1, <1>2, <1>3 DEF e, WithMetadata, Replaced

LEMMA ReplayPropose ==
  ASSUME NEW authority, NEW known, NEW signer, NEW address,
         NEW adapter, NEW name, NEW version, NEW mint, NEW uri
  PROVE  LET e == [kind |-> "AdapterProposed", governance_authority |-> signer,
           adapter_entry |-> address, adapter_program_id |-> adapter,
           protocol_name |-> name, adapter_version |-> version,
           supported_mint |-> mint, metadata_uri |-> uri, slot |-> slot] IN
         /\ AuthorityAfter(authority, e) = authority
         /\ EntriesAfter(known, e) =
              [a \in DOMAIN known \cup {address} |->
                 IF a = address THEN Fresh(adapter, name, version, mint, uri) ELSE known[a]]
<1> DEFINE e == [kind |-> "AdapterProposed", governance_authority |-> signer,
           adapter_entry |-> address, adapter_program_id |-> adapter,
           protocol_name |-> name, adapter_version |-> version,
           supported_mint |-> mint, metadata_uri |-> uri, slot |-> slot]
<1>1. /\ e.kind = "AdapterProposed" /\ e.adapter_entry = address
      /\ e.adapter_program_id = adapter /\ e.protocol_name = name
      /\ e.adapter_version = version /\ e.supported_mint = mint
      /\ e.metadata_uri = uri /\ e.slot = slot
  OBVIOUS
<1> HIDE DEF e
<1>2. AuthorityAfter(authority, e) = authority
  BY <1>1 DEF AuthorityAfter
<1>3. EntryAnnouncedBy(e) = Fresh(adapter, name, version, mint, uri)
  BY <1>1 DEF EntryAnnouncedBy, Fresh
<1>4. EntriesAfter(known, e) =
        [a \in DOMAIN known \cup {e.adapter_entry} |->
            IF a = e.adapter_entry THEN EntryAnnouncedBy(e) ELSE known[a]]
  BY <1>1 DEF EntriesAfter, StatusAnnouncedBy
<1>5. QED
  BY <1>1, <1>2, <1>3, <1>4 DEF e

LEMMA ReplayInductive ==
  ASSUME TypeOK, ReplayMatchesChain, [Next]_vars
  PROVE  ReplayMatchesChain'
<1>t. config \in ConfigType
  BY DEF TypeOK, ConfigType
<1>0. /\ replayed.authority = config.governance_authority
      /\ replayed.entries = entries
  BY DEF ReplayMatchesChain
<1>p. ASSUME NEW e, emit(e),
             AuthorityAfter(replayed.authority, e) = config'.governance_authority,
             EntriesAfter(replayed.entries, e) = entries'
      PROVE  ReplayMatchesChain'
  BY <1>p DEF emit, ReplayMatchesChain
<1>1. CASE AdvanceSlot
  BY <1>1 DEF AdvanceSlot, ReplayMatchesChain
<1>2. ASSUME NEW signer \in Signers, initialize_registry(signer)
      PROVE  ReplayMatchesChain'
  <2> DEFINE e == [kind |-> "RegistryInitialized", governance_authority |-> signer]
  <2>1. emit(e)
    BY <1>2 DEF initialize_registry
  <2>2. config'.governance_authority = signer /\ entries' = entries
    BY <1>2, InitializeEffect
  <2>3. /\ AuthorityAfter(replayed.authority, e) = signer
        /\ EntriesAfter(replayed.entries, e) = replayed.entries
    BY ReplayInitialize
  <2> HIDE DEF e
  <2>4. QED
    BY <2>1, <2>2, <2>3, <1>0, <1>p
<1>3. ASSUME NEW signer \in Signers, Propose(signer)
      PROVE  ReplayMatchesChain'
  <2>1. PICK adapter \in Programs, name \in ProtocolNames, version \in Versions,
             mint \in Mints, uri \in MetadataUris :
             propose_adapter(signer, adapter, name, version, mint, uri)
    BY <1>3 DEF Propose
  <2> DEFINE address == EntryAddress(adapter, mint, version)
             e == [kind |-> "AdapterProposed", governance_authority |-> signer,
                   adapter_entry |-> address, adapter_program_id |-> adapter,
                   protocol_name |-> name, adapter_version |-> version,
                   supported_mint |-> mint, metadata_uri |-> uri, slot |-> slot]
  <2>2. emit(e)
    BY <2>1 DEF propose_adapter
  <2>3. entries' = [a \in DOMAIN entries \cup {address} |->
                     IF a = address THEN Fresh(adapter, name, version, mint, uri)
                     ELSE entries[a]]
    BY <2>1 DEF propose_adapter, Fresh
  <2>4. config' = [config EXCEPT !.adapter_count = @ + 1]
    BY <2>1 DEF propose_adapter
  <2>5. config'.governance_authority = config.governance_authority
    BY <2>4, <1>t DEF ConfigType
  <2> HIDE DEF address
  <2>6. /\ AuthorityAfter(replayed.authority, e) = replayed.authority
        /\ EntriesAfter(replayed.entries, e) =
              [a \in DOMAIN replayed.entries \cup {address} |->
                 IF a = address THEN Fresh(adapter, name, version, mint, uri)
                 ELSE replayed.entries[a]]
    BY ReplayPropose
  <2> HIDE DEF e
  <2>7. QED
    BY <2>2, <2>3, <2>5, <2>6, <1>0, <1>p
<1>4. ASSUME NEW signer \in Signers, Govern(signer)
      PROVE  ReplayMatchesChain'
  <2>1. ASSUME NEW address, NEW from, NEW kind \in DOMAIN StatusAnnouncedBy,
               ChangeStatus(signer, address, from, StatusAnnouncedBy[kind], kind)
        PROVE  ReplayMatchesChain'
    <3> DEFINE e == EntryEvent(kind, signer, address)
    <3>1. emit(e)
      BY <2>1 DEF ChangeStatus
    <3>2. /\ config' = config
          /\ entries' = [entries EXCEPT ![address] =
                           WithStatus(entries[address], StatusAnnouncedBy[kind])]
      BY <2>1, StatusEffect
    <3>3. /\ AuthorityAfter(replayed.authority, e) = replayed.authority
          /\ EntriesAfter(replayed.entries, e) =
                Replaced(replayed.entries, address,
                         WithStatus(replayed.entries[address], StatusAnnouncedBy[kind]))
      BY ReplayStatus
    <3> HIDE DEF e
    <3>4. QED
      BY <3>1, <3>2, <3>3, <1>0, <1>p DEF Replaced
  <2>2. ASSUME NEW address, NEW uri, update_adapter_metadata(signer, address, uri)
        PROVE  ReplayMatchesChain'
    <3> DEFINE e == [kind |-> "AdapterMetadataUpdated", governance_authority |-> signer,
                     adapter_entry |-> address,
                     previous_metadata_uri |-> entries[address].metadata_uri,
                     metadata_uri |-> uri, slot |-> slot]
    <3>1. emit(e)
      BY <2>2 DEF update_adapter_metadata
    <3>2. /\ config' = config
          /\ entries' = [entries EXCEPT ![address] = WithMetadata(entries[address], uri)]
      BY <2>2, MetadataEffect
    <3>3. /\ AuthorityAfter(replayed.authority, e) = replayed.authority
          /\ EntriesAfter(replayed.entries, e) =
                Replaced(replayed.entries, address, WithMetadata(replayed.entries[address], uri))
      BY ReplayMetadata
    <3> HIDE DEF e
    <3>4. QED
      BY <3>1, <3>2, <3>3, <1>0, <1>p DEF Replaced
  <2>3. QED
    BY <2>1, <2>2, <1>4, GovernCases
<1>5. ASSUME NEW signer \in Signers, NEW key \in Pubkeys, transfer_governance(signer, key)
      PROVE  ReplayMatchesChain'
  <2> DEFINE e == [kind |-> "GovernanceTransferred", governance_authority |-> signer,
                   new_governance_authority |-> key]
  <2>1. emit(e)
    BY <1>5 DEF transfer_governance
  <2>2. /\ config' = [config EXCEPT !.governance_authority = key]
        /\ entries' = entries
    BY <1>5, TransferEffect
  <2>3. config'.governance_authority = key
    BY <2>2, <1>t DEF ConfigType
  <2>4. /\ AuthorityAfter(replayed.authority, e) = key
        /\ EntriesAfter(replayed.entries, e) = replayed.entries
    BY ReplayTransfer
  <2> HIDE DEF e
  <2>5. QED
    BY <2>1, <2>2, <2>3, <2>4, <1>0, <1>p
<1>6. CASE UNCHANGED vars
  BY <1>6 DEF vars, ReplayMatchesChain
<1>7. QED
  BY <1>1, <1>2, <1>3, <1>4, <1>5, <1>6, StepCases

(* A reader of the events alone knows the authority and every entry.      *)
THEOREM ReplayCorrect == Spec => []ReplayMatchesChain
<1>1. Init => ReplayMatchesChain
  BY DEF Init, ReplayMatchesChain
<1>2. TypeOK /\ ReplayMatchesChain /\ [Next]_vars => ReplayMatchesChain'
  BY ReplayInductive
<1>3. QED
  BY <1>1, <1>2, TypeCorrect, PTL DEF Spec

-----------------------------------------------------------------------------
(* Refinement.  The mapping is the one of Registry!Abstract: the governor  *)
(* is the authority of the configuration, the actor the signer the event   *)
(* names, and the sets are read off the statuses.                          *)

LEMMA AllowlistInit == Init => Abstract!Init
<1> SUFFICES ASSUME Init PROVE Abstract!Init
  OBVIOUS
<1>1. /\ config = [initialized |-> FALSE, governance_authority |-> DefaultPubkey,
                   adapter_count |-> 0]
      /\ event = NoEvent
      /\ DOMAIN entries = {}
  BY DEF Init
<1>2. WithState("Approved") = {} /\ WithState("Deprecated") = {}
  BY <1>1 DEF WithState
<1>3. QED
  BY <1>1, <1>2 DEF Abstract!Init, NoEvent

(* Whoever passes Governs is the governor of the allowlist, and is not the *)
(* key of nobody once the registry is initialised.                         *)
LEMMA GovernorActs ==
  ASSUME CountInv, NEW signer, Governs(signer), NEW e, emit(e),
         e.governance_authority = signer
  PROVE  Abstract!ByGovernor
BY DEF CountInv, CountMatchesEntries, Governs, emit, Abstract!ByGovernor

(* A status change moves one address between the sets and no other.        *)
LEMMA StatusMoves ==
  ASSUME TypeOK, NEW signer, NEW address, NEW from, NEW to \in AdapterStatus, NEW kind,
         ChangeStatus(signer, address, from, to, kind)
  PROVE  /\ DOMAIN entries' = DOMAIN entries
         /\ WithState(to)' = WithState(to) \cup {address}
         /\ \A other \in AdapterStatus \ {to} :
              WithState(other)' = WithState(other) \ {address}
<1>1. /\ address \in DOMAIN entries
      /\ entries' = [entries EXCEPT ![address] = WithStatus(entries[address], to)]
  BY StatusEffect
<1>2. entries[address] \in AdapterEntry
  BY <1>1 DEF TypeOK
<1>3. WithStatus(entries[address], to).status = to
  BY <1>2 DEF WithStatus, AdapterEntry
<1>4. \A a \in DOMAIN entries : a # address => entries'[a] = entries[a]
  BY <1>1 DEF TypeOK
<1>5. entries'[address].status = to
  BY <1>1, <1>3
<1>6. DOMAIN entries' = DOMAIN entries
  BY <1>1
<1>7. QED
  BY <1>1, <1>4, <1>5, <1>6 DEF WithState

LEMMA AllowlistGovern ==
  ASSUME TypeOK, CountInv, NEW signer \in Signers, Govern(signer)
  PROVE  Abstract!Next
<1>0. ASSUME NEW address, NEW from, NEW to, NEW kind,
             ChangeStatus(signer, address, from, to, kind)
      PROVE  /\ Abstract!ByGovernor
             /\ address \in DOMAIN entries /\ address \in Addresses
             /\ entries[address].status \in from
             /\ config' = config
  <2> DEFINE e == EntryEvent(kind, signer, address)
  <2>1. Governs(signer) /\ emit(e)
    BY <1>0 DEF ChangeStatus
  <2>2. e.governance_authority = signer
    BY DEF EntryEvent
  <2> HIDE DEF e
  <2>3. Abstract!ByGovernor
    BY <2>1, <2>2, GovernorActs
  <2>4. /\ address \in DOMAIN entries /\ entries[address].status \in from /\ config' = config
    BY <1>0, StatusEffect
  <2>5. QED
    BY <2>3, <2>4 DEF TypeOK
<1>s. /\ "Approved" \in AdapterStatus /\ "Paused" \in AdapterStatus
      /\ "Deprecated" \in AdapterStatus
  BY DEF AdapterStatus
<1>1. ASSUME NEW address, approve_adapter(signer, address)
      PROVE  Abstract!Next
  <2>1. ChangeStatus(signer, address, {"Pending"}, "Approved", "AdapterApproved")
    BY <1>1 DEF approve_adapter
  <2>2. /\ DOMAIN entries' = DOMAIN entries
        /\ WithState("Approved")' = WithState("Approved") \cup {address}
        /\ WithState("Deprecated")' = WithState("Deprecated") \ {address}
    <3>1. "Approved" \in AdapterStatus /\ "Deprecated" \in AdapterStatus \ {"Approved"}
      BY <1>s
    <3> QED BY <2>1, <3>1, StatusMoves
  <2>3. address \in DOMAIN entries \ WithState("Deprecated")
    BY <2>1, <1>0 DEF WithState
  <2>4. Abstract!Admit(address)
    BY <2>1, <2>2, <2>3, <1>0 DEF Abstract!Admit
  <2>5. QED
    BY <2>1, <2>4, <1>0 DEF Abstract!Next
<1>2. ASSUME NEW address, pause_adapter(signer, address)
      PROVE  Abstract!Next
  <2>1. ChangeStatus(signer, address, {"Approved"}, "Paused", "AdapterPaused")
    BY <1>2 DEF pause_adapter
  <2>2. /\ "Paused" \in AdapterStatus
        /\ "Approved" \in AdapterStatus \ {"Paused"}
        /\ "Deprecated" \in AdapterStatus \ {"Paused"}
    BY <1>s
  <2>3. /\ DOMAIN entries' = DOMAIN entries
        /\ WithState("Paused")' = WithState("Paused") \cup {address}
        /\ WithState("Approved")' = WithState("Approved") \ {address}
        /\ WithState("Deprecated")' = WithState("Deprecated") \ {address}
    BY <2>1, <2>2, StatusMoves
  <2>4. address \in WithState("Approved") /\ address \notin WithState("Deprecated")
    BY <2>1, <1>0 DEF WithState
  <2>5. Abstract!Suspend(address)
    BY <2>1, <2>2, <2>3, <2>4, <1>0 DEF Abstract!Suspend
  <2>6. QED
    BY <2>1, <2>5, <1>0 DEF Abstract!Next
<1>3. ASSUME NEW address, unpause_adapter(signer, address)
      PROVE  Abstract!Next
  <2>1. ChangeStatus(signer, address, {"Paused"}, "Approved", "AdapterUnpaused")
    BY <1>3 DEF unpause_adapter
  <2>2. /\ DOMAIN entries' = DOMAIN entries
        /\ WithState("Approved")' = WithState("Approved") \cup {address}
        /\ WithState("Deprecated")' = WithState("Deprecated") \ {address}
    <3>1. "Approved" \in AdapterStatus /\ "Deprecated" \in AdapterStatus \ {"Approved"}
      BY <1>s
    <3> QED BY <2>1, <3>1, StatusMoves
  <2>3. address \in DOMAIN entries \ WithState("Deprecated")
    BY <2>1, <1>0 DEF WithState
  <2>4. Abstract!Admit(address)
    BY <2>1, <2>2, <2>3, <1>0 DEF Abstract!Admit
  <2>5. QED
    BY <2>1, <2>4, <1>0 DEF Abstract!Next
<1>4. ASSUME NEW address, deprecate_adapter(signer, address)
      PROVE  Abstract!Next
  <2>1. ChangeStatus(signer, address, AdapterStatus \ {"Deprecated"}, "Deprecated",
                     "AdapterDeprecated")
    BY <1>4 DEF deprecate_adapter
  <2>2. /\ DOMAIN entries' = DOMAIN entries
        /\ WithState("Approved")' = WithState("Approved") \ {address}
        /\ WithState("Deprecated")' = WithState("Deprecated") \cup {address}
    <3>1. "Deprecated" \in AdapterStatus /\ "Approved" \in AdapterStatus \ {"Deprecated"}
      BY <1>s
    <3> QED BY <2>1, <3>1, StatusMoves
  <2>3. address \in DOMAIN entries \ WithState("Deprecated")
    BY <2>1, <1>0 DEF WithState
  <2>4. Abstract!Retire(address)
    BY <2>1, <2>2, <2>3, <1>0 DEF Abstract!Retire
  <2>5. QED
    BY <2>1, <2>4, <1>0 DEF Abstract!Next
<1>5. ASSUME NEW address, NEW uri, update_adapter_metadata(signer, address, uri)
      PROVE  Abstract!Next
  <2> DEFINE e == [kind |-> "AdapterMetadataUpdated", governance_authority |-> signer,
                   adapter_entry |-> address,
                   previous_metadata_uri |-> entries[address].metadata_uri,
                   metadata_uri |-> uri, slot |-> slot]
  <2>1. Governs(signer) /\ emit(e)
    BY <1>5 DEF update_adapter_metadata
  <2>2. e.governance_authority = signer
    OBVIOUS
  <2> HIDE DEF e
  <2>3. Abstract!ByGovernor
    BY <2>1, <2>2, GovernorActs
  <2>4. /\ address \in DOMAIN entries /\ config' = config
        /\ entries' = [entries EXCEPT ![address] = WithMetadata(entries[address], uri)]
    BY <1>5, MetadataEffect
  <2>5. entries[address] \in AdapterEntry
    BY <2>4 DEF TypeOK
  <2>6. WithMetadata(entries[address], uri).status = entries[address].status
    BY <2>5 DEF WithMetadata, AdapterEntry
  <2>7. /\ DOMAIN entries' = DOMAIN entries
        /\ \A a \in DOMAIN entries : entries'[a].status = entries[a].status
    BY <2>4, <2>6 DEF TypeOK
  <2>8. \A status : WithState(status)' = WithState(status)
    BY <2>7 DEF WithState
  <2>9. QED
    BY <2>3, <2>4, <2>7, <2>8 DEF Abstract!Annotate, Abstract!Next
<1>6. QED
  BY <1>1, <1>2, <1>3, <1>4, <1>5 DEF Govern

LEMMA AllowlistPropose ==
  ASSUME TypeOK, CountInv, NEW signer \in Signers, Propose(signer)
  PROVE  Abstract!Next
<1>1. PICK adapter \in Programs, name \in ProtocolNames, version \in Versions,
           mint \in Mints, uri \in MetadataUris :
           propose_adapter(signer, adapter, name, version, mint, uri)
  BY DEF Propose
<1> DEFINE address == EntryAddress(adapter, mint, version)
           fresh == Fresh(adapter, name, version, mint, uri)
           e == [kind |-> "AdapterProposed", governance_authority |-> signer,
                 adapter_entry |-> address, adapter_program_id |-> adapter,
                 protocol_name |-> name, adapter_version |-> version,
                 supported_mint |-> mint, metadata_uri |-> uri, slot |-> slot]
<1>2. Governs(signer) /\ emit(e)
  BY <1>1 DEF propose_adapter
<1>3. /\ address \notin DOMAIN entries
      /\ config' = [config EXCEPT !.adapter_count = @ + 1]
      /\ entries' = [a \in DOMAIN entries \cup {address} |->
                       IF a = address THEN fresh ELSE entries[a]]
  BY <1>1 DEF propose_adapter, EntryVacant, Fresh
<1>4. e.governance_authority = signer
  OBVIOUS
<1>5. fresh.status = "Pending"
  BY DEF Fresh
<1>6. address \in Addresses
  BY DEF EntryAddress, Addresses
<1> HIDE DEF e, fresh, address
<1>7. Abstract!ByGovernor
  BY <1>2, <1>4, GovernorActs
<1>8. config'.governance_authority = config.governance_authority
  BY <1>3 DEF TypeOK
<1>9. /\ DOMAIN entries' = DOMAIN entries \cup {address}
      /\ entries'[address].status = "Pending"
      /\ \A a \in DOMAIN entries : entries'[a] = entries[a]
  BY <1>3, <1>5
<1>10. /\ WithState("Approved")' = WithState("Approved")
       /\ WithState("Deprecated")' = WithState("Deprecated")
  BY <1>3, <1>9 DEF WithState
<1>11. Abstract!Propose(address)
  BY <1>3, <1>7, <1>8, <1>9, <1>10 DEF Abstract!Propose
<1>12. QED
  BY <1>6, <1>11 DEF Abstract!Next

LEMMA AllowlistAuthority ==
  ASSUME TypeOK, CountInv, NEW signer \in Signers, NEW key \in Pubkeys,
         initialize_registry(signer) \/ transfer_governance(signer, key)
  PROVE  Abstract!Next
<1>1. entries' = entries
  BY InitializeEffect, TransferEffect
<1>2. /\ DOMAIN entries' = DOMAIN entries
      /\ \A status : WithState(status)' = WithState(status)
  BY <1>1 DEF WithState
<1>3. CASE initialize_registry(signer)
  <2>1. /\ config'.governance_authority = signer
        /\ event' = [kind |-> "RegistryInitialized", governance_authority |-> signer]
    BY <1>3 DEF initialize_registry, emit
  <2>2. config.governance_authority = DefaultPubkey
    BY <1>3 DEF initialize_registry, CountInv, CountMatchesEntries
  <2>3. Abstract!Found(signer)
    BY <1>2, <2>1, <2>2 DEF Abstract!Found, Signers
  <2>4. QED
    BY <2>3 DEF Abstract!Next, Signers
<1>4. CASE transfer_governance(signer, key)
  <2> DEFINE e == [kind |-> "GovernanceTransferred", governance_authority |-> signer,
                   new_governance_authority |-> key]
  <2>1. Governs(signer) /\ emit(e)
    BY <1>4 DEF transfer_governance
  <2>2. e.governance_authority = signer
    OBVIOUS
  <2> HIDE DEF e
  <2>3. Abstract!ByGovernor
    BY <2>1, <2>2, GovernorActs
  <2>4. config' = [config EXCEPT !.governance_authority = key] /\ key # DefaultPubkey
    BY <1>4, TransferEffect
  <2>5. config'.governance_authority = key
    BY <2>4 DEF TypeOK
  <2>6. Abstract!HandOver(key)
    BY <1>2, <2>3, <2>4, <2>5 DEF Abstract!HandOver
  <2>7. QED
    BY <2>6 DEF Abstract!Next
<1>5. QED
  BY <1>3, <1>4

(* Every behaviour of the registry is one of the allowlist: only the       *)
(* governor of the moment acts, items are proposed once and before they    *)
(* are admitted, and what is retired is never admitted again.              *)
THEOREM RegistryImplementsAllowlist == Spec => ImplementsAllowlist
<1>1. Init => Abstract!Init
  BY AllowlistInit
<1>2. TypeOK /\ CountInv /\ [Next]_vars => [Abstract!Next]_(Abstract!vars)
  <2> SUFFICES ASSUME TypeOK, CountInv, [Next]_vars
               PROVE  [Abstract!Next]_(Abstract!vars)
    OBVIOUS
  <2>1. CASE AdvanceSlot \/ UNCHANGED vars
    <3>1. UNCHANGED <<config, entries, event>>
      BY <2>1 DEF AdvanceSlot, vars
    <3>2. \A status : WithState(status)' = WithState(status)
      BY <3>1 DEF WithState
    <3>3. QED
      BY <3>1, <3>2 DEF Abstract!vars
  <2>2. CASE \E signer \in Signers : initialize_registry(signer)
    BY <2>2, AllowlistAuthority DEF Signers
  <2>3. CASE \E signer \in Signers : Propose(signer)
    BY <2>3, AllowlistPropose
  <2>4. CASE \E signer \in Signers : Govern(signer)
    BY <2>4, AllowlistGovern
  <2>5. CASE \E signer \in Signers : \E key \in Pubkeys : transfer_governance(signer, key)
    BY <2>5, AllowlistAuthority
  <2>6. QED
    BY <2>1, <2>2, <2>3, <2>4, <2>5, StepCases
<1>3. Init => CountInv
  BY CountInit
<1>4. TypeOK /\ CountInv /\ [Next]_vars => CountInv'
  BY CountInductive
<1>5. QED
  BY <1>1, <1>2, <1>3, <1>4, TypeCorrect, PTL DEF Spec, ImplementsAllowlist, Abstract!Spec

(* What a reader may conclude from the allowlist alone: only proposed      *)
(* items are admitted or retired and none is both (docs/SPEC.md,           *)
(* "terminal").                                                            *)
THEOREM AllowlistConsistent == Abstract!Spec => []Abstract!Consistent
<1>1. Abstract!Init => Abstract!Consistent
  BY DEF Abstract!Init, Abstract!Consistent
<1>2. Abstract!Consistent /\ [Abstract!Next]_(Abstract!vars) => Abstract!Consistent'
  BY DEF Abstract!Consistent, Abstract!Next, Abstract!vars, Abstract!Found, Abstract!HandOver,
         Abstract!Propose, Abstract!Admit, Abstract!Suspend, Abstract!Retire, Abstract!Annotate
<1>3. QED
  BY <1>1, <1>2, PTL DEF Abstract!Spec

(* Retirement is for good: no transaction takes an entry out of Deprecated *)
(* or makes it vanish, whoever governs by then (lib.rs:165-192).           *)
RetiredForGood == [][WithState("Deprecated") \subseteq WithState("Deprecated")']_vars

THEOREM RetirementIsTerminal == Spec => RetiredForGood
<1>1. [Abstract!Next]_(Abstract!vars) =>
        [WithState("Deprecated") \subseteq WithState("Deprecated")']_vars
  BY DEF Abstract!Next, Abstract!vars, Abstract!Found, Abstract!HandOver, Abstract!Propose,
         Abstract!Admit, Abstract!Suspend, Abstract!Retire, Abstract!Annotate
<1>2. Spec => [][Abstract!Next]_(Abstract!vars)
  BY RegistryImplementsAllowlist, PTL DEF ImplementsAllowlist, Abstract!Spec
<1>3. QED
  BY <1>1, <1>2, PTL DEF RetiredForGood

-----------------------------------------------------------------------------
(* The scripts.  Under them the registry is a registry, so that all that   *)
(* holds of one holds there.                                               *)

LEMMA ScriptsUseTheRegistry ==
  ASSUME [DeployNext]_deployVars
  PROVE  [Next]_vars
<1>1. UNCHANGED chain => UNCHANGED vars
  BY DEF chain, vars
<1>2. initialize_registry(wallet) => Next
  BY DeploymentConstants DEF Next
<1>3. ASSUME Deploy \/ LoseConfirmation
      PROVE  [Next]_vars
  BY <1>1, <1>2, <1>3
  DEF Deploy, AnchorDeploy, CheckRegistry, InitializeRegistry, ReadManifest,
      writeDeploymentManifest, LoseConfirmation
<1>4. ASSUME StartDeploy \/ StartVerify \/ Verify \/ UseRegistry
             \/ \E script \in Scripts : Die(script)
      PROVE  [Next]_vars
  BY <1>1, <1>4
  DEF StartDeploy, StartVerify, Verify, readOnChainState, writeManifest, OnlyReport,
      UseRegistry, Die
<1>5. UNCHANGED deployVars => UNCHANGED chain
  BY DEF deployVars
<1> QED BY <1>1, <1>3, <1>4, <1>5 DEF DeployNext

(* Whatever the scripts do, and wherever they die, they do to the registry *)
(* what its instructions allow (deploy-devnet.ts:216-247).                 *)
THEOREM DeploymentIsARegistry == DeploySpec => Spec
<1>1. DeployInit => Init
  BY DEF DeployInit
<1>2. [DeployNext]_deployVars => [Next]_vars
  BY ScriptsUseTheRegistry
<1> QED BY <1>1, <1>2, PTL DEF DeploySpec, Spec

(* What was once true of the registry: it exists, and had n adapters.      *)
Had(n) == config.initialized /\ n \in 0 .. config.adapter_count

(* A registry once initialised stays so, and its count does not fall.      *)
LEMMA RegistryGrows ==
  ASSUME TypeOK, [Next]_vars, NEW n, Had(n)
  PROVE  Had(n)'
<1>0. /\ config.initialized /\ n \in 0 .. config.adapter_count
      /\ config.adapter_count \in Nat
  BY Bounds DEF Had, TypeOK
<1>1. CASE UNCHANGED config
  BY <1>1, <1>0 DEF Had
<1>2. ASSUME NEW signer \in Signers, Propose(signer)
      PROVE  Had(n)'
  <2>1. config' = [config EXCEPT !.adapter_count = config.adapter_count + 1]
    BY <1>2 DEF Propose, propose_adapter
  <2>2. /\ config'.initialized = config.initialized
        /\ config'.adapter_count = config.adapter_count + 1
    BY <2>1 DEF TypeOK
  <2> QED BY <2>2, <1>0 DEF Had
<1>3. ASSUME NEW signer \in Signers, NEW key \in Pubkeys, transfer_governance(signer, key)
      PROVE  Had(n)'
  <2>1. config' = [config EXCEPT !.governance_authority = key]
    BY <1>3, TransferEffect
  <2>2. /\ config'.initialized = config.initialized
        /\ config'.adapter_count = config.adapter_count
    BY <2>1 DEF TypeOK
  <2> QED BY <2>2, <1>0 DEF Had
<1>4. ASSUME NEW signer \in Signers, Govern(signer)
      PROVE  Had(n)'
  <2>1. config' = config
    BY <1>4, GovernCases, StatusEffect, MetadataEffect
  <2> QED BY <2>1, <1>0 DEF Had
<1>5. ASSUME NEW signer \in Signers, initialize_registry(signer)
      PROVE  Had(n)'
  BY <1>5, <1>0, InitializeEffect
<1> QED BY <1>1, <1>2, <1>3, <1>4, <1>5, StepCases DEF AdvanceSlot, vars

(* Why a manifest never runs ahead of the registry: whoever is about to    *)
(* write one of it has seen the registry, which does not go away, and has  *)
(* counted no more adapters than it had, which do not go away either.      *)
Steps(at) == at = [script \in Scripts |-> at[script]]

DeployInv ==
  /\ Steps(step)
  /\ Recorded => Had(manifest.adapterCount)
  /\ step["deploy"] \in {"recording", "writing"} => Had(0)
  /\ options.registryProgramId = Ours /\ onChain.initialized =>
       Had(onChain.adapter_count)

LEMMA DeployInitInv == DeployInit => DeployInv
<1> SUFFICES ASSUME DeployInit PROVE DeployInv
  OBVIOUS
<1>1. /\ step = [script \in Scripts |-> "off"]
      /\ onChain = NoConfig
      /\ manifest.registryProgramId \in {"none", "elsewhere"}
  BY DEF DeployInit, NoManifest, ManifestOf
<1>2. Steps(step) /\ step["deploy"] = "off"
  BY <1>1 DEF Steps, Scripts
<1> QED BY <1>1, <1>2 DEF DeployInv, Recorded, Ours, NoConfig

(* What the steps of the scripts do to where they are.                     *)
LEMMA AtStep ==
  ASSUME Steps(step), NEW script \in Scripts, NEW here, NEW next,
         At(script, here, next)
  PROVE  /\ Steps(step')
         /\ step[script] = here /\ step'[script] = next
         /\ \A other \in Scripts \ {script} : step'[other] = step[other]
BY DEF At, Steps

(* The part of the invariant a step keeps that writes no manifest and      *)
(* reads no registry.                                                      *)
LEMMA NothingWritten ==
  ASSUME DeployInv, \A n : Had(n) => Had(n)', UNCHANGED <<manifest, verifyVars>>
  PROVE  /\ Recorded' => Had(manifest.adapterCount)'
         /\ (options.registryProgramId = Ours /\ onChain.initialized)' =>
              Had(onChain.adapter_count)'
BY DEF DeployInv, Had, Recorded, verifyVars

LEMMA DeployKeeps ==
  ASSUME TypeOK, DeployInv, \A n : Had(n) => Had(n)',
         StartDeploy \/ Deploy \/ LoseConfirmation
  PROVE  DeployInv'
<1>d. "deploy" \in Scripts /\ Steps(step) /\ (Had(0) => Had(0)')
  BY DEF Scripts, DeployInv
(* Only the step after which the script is about to write needs a reason.  *)
<1>k. ASSUME NEW here, NEW next, At("deploy", here, next),
             next \in {"recording", "writing"} => Had(0)',
             UNCHANGED <<manifest, verifyVars>>
      PROVE  DeployInv'
  <2>1. Steps(step') /\ step'["deploy"] = next
    BY <1>k, <1>d, AtStep
  <2> QED BY <1>k, <2>1, NothingWritten DEF DeployInv
<1>1. CASE StartDeploy
  BY <1>1, <1>k DEF StartDeploy, Begin
<1>2. CASE AnchorDeploy
  BY <1>2, <1>k DEF AnchorDeploy
<1>3. CASE CheckRegistry
  <2> DEFINE next == IF existing THEN "recording" ELSE "initializing"
  <2>1. At("deploy", "checking", next) /\ UNCHANGED <<chain, manifest, verifyVars>>
    BY <1>3 DEF CheckRegistry
  <2>2. next = "recording" => Had(0)
    BY Bounds DEF existing, Had, TypeOK
  <2>3. next # "writing"
    OBVIOUS
  <2> HIDE DEF next
  <2> QED BY <2>1, <2>2, <2>3, <1>d, <1>k
<1>4. ASSUME NEW next, initialize_registry(wallet), At("deploy", "initializing", next),
             UNCHANGED <<manifest, verifyVars>>
      PROVE  DeployInv'
  <2>1. Had(0)'
    BY <1>4, InitializeEffect DEF Had
  <2> QED BY <1>4, <2>1, <1>k
<1>5. CASE InitializeRegistry
  BY <1>5, <1>4, <1>k DEF InitializeRegistry
<1>6. CASE LoseConfirmation
  BY <1>6, <1>4 DEF LoseConfirmation
<1>7. CASE ReadManifest
  <2>1. At("deploy", "recording", "writing") /\ UNCHANGED <<manifest, verifyVars>>
    BY <1>7 DEF ReadManifest
  <2>2. Had(0)
    BY <2>1, <1>d, AtStep DEF DeployInv
  <2> QED BY <2>1, <2>2, <1>d, <1>k
<1>8. CASE writeDeploymentManifest
  <2>1. At("deploy", "writing", "off") /\ UNCHANGED verifyVars
    BY <1>8 DEF writeDeploymentManifest
  <2>2. manifest'.adapterCount = 0
    BY <1>8 DEF writeDeploymentManifest
  <2>3. /\ Steps(step') /\ step'["deploy"] = "off"
        /\ step["deploy"] = "writing"
    BY <2>1, <1>d, AtStep
  <2>4. Had(manifest.adapterCount)'
    <3>1. Had(0)'
      BY <2>3, <1>d DEF DeployInv
    <3> QED BY <3>1, <2>2 DEF Had
  <2>5. (options.registryProgramId = Ours /\ onChain.initialized)' =>
          Had(onChain.adapter_count)'
    BY <2>1 DEF DeployInv, Had, verifyVars
  <2> QED BY <2>3, <2>4, <2>5 DEF DeployInv
<1> QED BY <1>1, <1>2, <1>3, <1>5, <1>6, <1>7, <1>8 DEF Deploy

LEMMA VerifyKeeps ==
  ASSUME TypeOK, DeployInv, config' = config, StartVerify \/ Verify
  PROVE  DeployInv'
<1>1. ASSUME NEW next, NEW here, At("verify", here, next)
      PROVE  /\ Steps(step')
             /\ step'["deploy"] \in {"recording", "writing"} => Had(0)'
  <2>1. Steps(step') /\ step'["deploy"] = step["deploy"]
    BY <1>1, AtStep DEF DeployInv, Scripts
  <2> QED BY <2>1 DEF DeployInv, Had
<1>2. ASSUME UNCHANGED manifest
      PROVE  Recorded' => Had(manifest.adapterCount)'
  BY <1>2 DEF DeployInv, Recorded, Had
<1>3. ASSUME UNCHANGED verifyVars
      PROVE  (options.registryProgramId = Ours /\ onChain.initialized)' =>
               Had(onChain.adapter_count)'
  BY <1>3 DEF DeployInv, verifyVars, Had
<1>4. CASE StartVerify
  <2>1. /\ At("verify", "off", "reading") /\ UNCHANGED manifest
        /\ ~ onChain'.initialized
    BY <1>4 DEF StartVerify, Begin, NoConfig
  <2> QED BY <2>1, <1>1, <1>2 DEF DeployInv
<1>5. CASE readOnChainState
  <2>1. At("verify", "reading", "checked") /\ UNCHANGED <<manifest, options>>
    BY <1>5 DEF readOnChainState
  <2>2. options.registryProgramId = Ours => onChain' = config
    BY <1>5 DEF readOnChainState
  <2>3. (options.registryProgramId = Ours /\ onChain.initialized)' =>
          Had(onChain.adapter_count)'
    BY <2>1, <2>2, Bounds DEF Had, TypeOK
  <2> QED BY <2>1, <2>3, <1>1, <1>2 DEF DeployInv
<1>6. CASE writeManifest
  <2>1. At("verify", "checked", "off") /\ UNCHANGED verifyVars
    BY <1>6 DEF writeManifest
  <2>2. /\ onChain.initialized
        /\ manifest'.registryProgramId = options.registryProgramId
        /\ manifest'.adapterCount = onChain.adapter_count
    BY <1>6 DEF writeManifest, MayWrite, ManifestOf
  <2>3. Recorded' => Had(manifest.adapterCount)'
    BY <2>2 DEF DeployInv, Recorded, Had
  <2> QED BY <2>1, <2>3, <1>1, <1>3 DEF DeployInv
<1>7. CASE OnlyReport
  <2>1. At("verify", "checked", "off") /\ UNCHANGED <<manifest, verifyVars>>
    BY <1>7 DEF OnlyReport
  <2> QED BY <2>1, <1>1, <1>2, <1>3 DEF DeployInv
<1> QED BY <1>4, <1>5, <1>6, <1>7 DEF Verify

LEMMA DeployInductive ==
  ASSUME TypeOK, DeployInv, [DeployNext]_deployVars
  PROVE  DeployInv'
<1>1. \A n : Had(n) => Had(n)'
  BY ScriptsUseTheRegistry, RegistryGrows
<1>2. CASE StartDeploy \/ Deploy \/ LoseConfirmation
  BY <1>1, <1>2, DeployKeeps
<1>3. CASE StartVerify \/ Verify
  <2>1. config' = config
    BY <1>3 DEF StartVerify, Verify, readOnChainState, writeManifest, OnlyReport, chain
  <2> QED BY <1>3, <2>1, VerifyKeeps
<1>4. ASSUME Steps(step'), step'["deploy"] \in {step["deploy"], "off"},
             UNCHANGED <<manifest, verifyVars>>
      PROVE  DeployInv'
  BY <1>1, <1>4, NothingWritten DEF DeployInv
<1>5. ASSUME NEW script \in Scripts, Die(script)
      PROVE  DeployInv'
  <2>1. step' = [step EXCEPT ![script] = "off"] /\ UNCHANGED <<manifest, verifyVars>>
    BY <1>5 DEF Die
  <2>2. Steps(step') /\ step'["deploy"] \in {step["deploy"], "off"}
    BY <2>1 DEF DeployInv, Steps, Scripts
  <2> QED BY <2>1, <2>2, <1>4
<1>6. CASE UseRegistry \/ UNCHANGED deployVars
  <2>1. UNCHANGED <<manifest, step, verifyVars>>
    BY <1>6 DEF UseRegistry, deployVars
  <2> QED BY <2>1, <1>4 DEF DeployInv
<1> QED BY <1>2, <1>3, <1>5, <1>6 DEF DeployNext

(* A manifest of the registry never runs ahead of it: it tells of one that *)
(* exists, and of no more adapters than were proposed there, whatever      *)
(* manifest there was before (verify-devnet-registry.ts:84-101, 132-140,   *)
(* 302, deploy-devnet.ts:85-101).                                          *)
THEOREM ManifestCorrect == DeploySpec => []ManifestHasARegistry
<1>1. DeployInit => DeployInv
  BY DeployInitInv
<1>2. TypeOK /\ DeployInv /\ [DeployNext]_deployVars => DeployInv'
  BY DeployInductive
<1>3. TypeOK /\ DeployInv => ManifestHasARegistry
  BY Bounds DEF DeployInv, ManifestHasARegistry, Had, TypeOK
<1> QED BY <1>1, <1>2, <1>3, DeploymentIsARegistry, TypeCorrect, PTL DEF DeploySpec
=============================================================================
