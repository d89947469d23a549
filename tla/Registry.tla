------------------------------ MODULE Registry ------------------------------
(***************************************************************************)
(* The on-chain adapter registry (programs/registry).  One RegistryConfig  *)
(* account names the governance authority and counts the adapters; one     *)
(* AdapterEntry account per (program, mint, version) carries the status    *)
(* the dispatcher routes by.                                               *)
(*                                                                         *)
(* Each action is one instruction landing as a transaction.  A transaction *)
(* that fails any check leaves every account as it was, so it is the same  *)
(* as no step; transactions signed early and landing late, repeated, or    *)
(* signed by a former authority are covered because every signer may       *)
(* submit every instruction in every state.                                *)
(***************************************************************************)
EXTENDS Naturals, FiniteSets

CONSTANTS
  Pubkeys,        \* keys that may be offered as governance authority
  DefaultPubkey,  \* Pubkey::default(): all zeroes, nobody can sign for it
  Programs,       \* adapter program ids a proposal may name
  Mints,          \* supported mints a proposal may name
  Versions,       \* adapter versions (u16)
  ProtocolNames,  \* texts offered as protocol_name
  MetadataUris,   \* texts offered as metadata_uri
  MaxCount,       \* largest value of adapter_count (u64::MAX in the program)
  MaxSlot         \* bound on the cluster clock

(* A text is abstracted to what the validators look at: is it blank once   *)
(* trimmed, and how many bytes does it occupy.                             *)
Text == [blank: BOOLEAN, bytes: Nat]

ASSUME RegistryConstants ==
  /\ DefaultPubkey \in Pubkeys
  /\ \A v \in Versions : v \in Nat /\ v < 65536
  /\ ProtocolNames \subseteq Text
  /\ MetadataUris \subseteq Text
  /\ MaxCount \in Nat
  /\ MaxSlot \in Nat

VARIABLES
  config,    \* the RegistryConfig account
  entries,   \* the AdapterEntry accounts that exist, by address
  slot,      \* Clock::get()?.slot
  event,     \* the event emitted by the last transaction that landed
  replayed   \* history: what a reader of the events alone believes

vars == <<config, entries, slot, event, replayed>>

-----------------------------------------------------------------------------
(* Addresses and account data.                                             *)

(* The seeds of an entry's program-derived address stand for the address:  *)
(* distinct seeds give distinct addresses.                                 *)
EntryAddress(program, mint, version) ==
  [program |-> program, mint |-> mint, version |-> version]

Addresses == [program: Programs, mint: Mints, version: Versions]

AdapterStatus == {"Pending", "Approved", "Paused", "Deprecated"}

AdapterEntry ==
  [adapter_program_id: Programs, protocol_name: ProtocolNames,
   adapter_version: Versions, supported_mint: Mints, status: AdapterStatus,
   metadata_uri: MetadataUris, created_slot: 0 .. MaxSlot,
   updated_slot: 0 .. MaxSlot]

Signers == Pubkeys \ {DefaultPubkey}

MAX_PROTOCOL_NAME_LEN == 64
MAX_METADATA_URI_LEN == 256

(* Bytes reserved for an entry when its account is created, and bytes its  *)
(* data takes once serialised.                                             *)
FixedBytes == 8 + 32 + 4 + 2 + 32 + 1 + 4 + 8 + 8 + 1
EntrySpace == FixedBytes + MAX_PROTOCOL_NAME_LEN + MAX_METADATA_URI_LEN
SerializedBytes(e) == FixedBytes + e.protocol_name.bytes + e.metadata_uri.bytes

validate_protocol_name(name) ==
  ~name.blank /\ name.bytes <= MAX_PROTOCOL_NAME_LEN

(* Mutant: the length check is missing. *)
MutUriNoLengthCheck(uri) == ~uri.blank

validate_metadata_uri(uri) ==
  ~uri.blank /\ uri.bytes <= MAX_METADATA_URI_LEN

validate_adapter_inputs(program, name, mint, uri) ==
  /\ program # DefaultPubkey
  /\ validate_protocol_name(name)
  /\ mint # DefaultPubkey
  /\ validate_metadata_uri(uri)

-----------------------------------------------------------------------------
(* Events.  A reader who keeps nothing but the emitted events folds them   *)
(* into a view of the registry: its authority and its entries.             *)

EntryEvent(kind, signer, address) ==
  [kind |-> kind, governance_authority |-> signer, adapter_entry |-> address,
   slot |-> slot]

StatusAnnouncedBy ==
  [AdapterApproved |-> "Approved", AdapterPaused |-> "Paused",
   AdapterUnpaused |-> "Approved", AdapterDeprecated |-> "Deprecated"]

AuthorityAfter(authority, e) ==
  CASE e.kind = "RegistryInitialized" -> e.governance_authority
    [] e.kind = "GovernanceTransferred" -> e.new_governance_authority
    [] OTHER -> authority

EntryAnnouncedBy(e) ==
  [adapter_program_id |-> e.adapter_program_id, protocol_name |-> e.protocol_name,
   adapter_version |-> e.adapter_version, supported_mint |-> e.supported_mint,
   status |-> "Pending", metadata_uri |-> e.metadata_uri,
   created_slot |-> e.slot, updated_slot |-> e.slot]

EntriesAfter(known, e) ==
  CASE e.kind = "AdapterProposed" ->
         [a \in DOMAIN known \cup {e.adapter_entry} |->
            IF a = e.adapter_entry THEN EntryAnnouncedBy(e) ELSE known[a]]
    [] e.kind = "AdapterMetadataUpdated" ->
         [known EXCEPT ![e.adapter_entry] =
            [@ EXCEPT !.metadata_uri = e.metadata_uri, !.updated_slot = e.slot]]
    [] e.kind \in DOMAIN StatusAnnouncedBy ->
         [known EXCEPT ![e.adapter_entry] =
            [@ EXCEPT !.status = StatusAnnouncedBy[e.kind], !.updated_slot = e.slot]]
    [] OTHER -> known

emit(e) ==
  /\ event' = e
  /\ replayed' = [authority |-> AuthorityAfter(replayed.authority, e),
                  entries |-> EntriesAfter(replayed.entries, e)]

-----------------------------------------------------------------------------
(* Instructions.                                                           *)

NoEvent == [kind |-> "None", governance_authority |-> DefaultPubkey]

Init ==
  /\ config = [initialized |-> FALSE, governance_authority |-> DefaultPubkey,
               adapter_count |-> 0]
  /\ entries = [a \in {} |-> {}]
  /\ slot = 0
  /\ event = NoEvent
  /\ replayed = [authority |-> DefaultPubkey, entries |-> [a \in {} |-> {}]]

(* The cluster clock; several transactions may land in one slot. *)
AdvanceSlot ==
  /\ slot < MaxSlot
  /\ slot' = slot + 1
  /\ UNCHANGED <<config, entries, event, replayed>>

(* Anyone may initialise, once: the account constraint is `init`. *)
initialize_registry(signer) ==
  /\ ~config.initialized
  /\ config' = [initialized |-> TRUE, governance_authority |-> signer,
                adapter_count |-> 0]
  /\ emit([kind |-> "RegistryInitialized", governance_authority |-> signer])
  /\ UNCHANGED <<entries, slot>>

(* has_one = governance_authority, with governance_authority a Signer. *)
Governs(signer) == config.initialized /\ config.governance_authority = signer

(* Mutant: the addition is not checked. *)
MutCountUnchecked == TRUE

(* checked_add: one more adapter can still be counted. *)
CountFits == config.adapter_count < MaxCount

(* Mutant: `init_if_needed` instead of `init`: an entry can be proposed again. *)
MutInitIfNeeded(address) == TRUE

(* The entry's account constraint `init`: fails if the account exists. *)
EntryVacant(address) == address \notin DOMAIN entries

propose_adapter(signer, program, name, version, mint, uri) ==
  LET address == EntryAddress(program, mint, version) IN
  /\ Governs(signer)
  /\ EntryVacant(address)
  /\ validate_adapter_inputs(program, name, mint, uri)
  /\ CountFits
  /\ config' = [config EXCEPT !.adapter_count = @ + 1]
  /\ entries' =
       [a \in DOMAIN entries \cup {address} |->
          IF a = address
          THEN [adapter_program_id |-> program, protocol_name |-> name,
                adapter_version |-> version, supported_mint |-> mint,
                status |-> "Pending", metadata_uri |-> uri,
                created_slot |-> slot, updated_slot |-> slot]
          ELSE entries[a]]
  /\ emit([kind |-> "AdapterProposed", governance_authority |-> signer,
           adapter_entry |-> address, adapter_program_id |-> program,
           protocol_name |-> name, adapter_version |-> version,
           supported_mint |-> mint, metadata_uri |-> uri, slot |-> slot])
  /\ UNCHANGED slot

(* An entry after a status change in the current slot. *)
WithStatus(e, status) == [e EXCEPT !.status = status, !.updated_slot = slot]

(* The shape the four status instructions share: a status in `from` becomes *)
(* `to`, the slot is recorded and the event of that kind goes out.          *)
ChangeStatus(signer, address, from, to, kind) ==
  /\ Governs(signer)
  /\ address \in DOMAIN entries
  /\ entries[address].status \in from
  /\ entries' = [entries EXCEPT ![address] = WithStatus(@, to)]
  /\ emit(EntryEvent(kind, signer, address))
  /\ UNCHANGED <<config, slot>>

approve_adapter(signer, address) ==
  ChangeStatus(signer, address, {"Pending"}, "Approved", "AdapterApproved")

pause_adapter(signer, address) ==
  ChangeStatus(signer, address, {"Approved"}, "Paused", "AdapterPaused")

(* Mutant: unpausing accepts every status but Approved. *)
MutUnpauseAny(signer, address) ==
  ChangeStatus(signer, address, AdapterStatus \ {"Approved"}, "Approved", "AdapterUnpaused")

unpause_adapter(signer, address) ==
  ChangeStatus(signer, address, {"Paused"}, "Approved", "AdapterUnpaused")

deprecate_adapter(signer, address) ==
  ChangeStatus(signer, address, AdapterStatus \ {"Deprecated"}, "Deprecated",
               "AdapterDeprecated")

(* Mutant: the slot of a metadata change is not recorded. *)
MutMetadataOnly(e, uri) == [e EXCEPT !.metadata_uri = uri]

WithMetadata(e, uri) == [e EXCEPT !.metadata_uri = uri, !.updated_slot = slot]

(* Allowed in every status, Deprecated included. *)
update_adapter_metadata(signer, address, uri) ==
  /\ validate_metadata_uri(uri)
  /\ Governs(signer)
  /\ address \in DOMAIN entries
  /\ entries' = [entries EXCEPT ![address] = WithMetadata(@, uri)]
  /\ emit([kind |-> "AdapterMetadataUpdated", governance_authority |-> signer,
           adapter_entry |-> address,
           previous_metadata_uri |-> entries[address].metadata_uri,
           metadata_uri |-> uri, slot |-> slot])
  /\ UNCHANGED <<config, slot>>

(* The new key need not sign: the handover takes effect at once. *)
transfer_governance(signer, new_governance_authority) ==
  /\ new_governance_authority # DefaultPubkey
  /\ Governs(signer)
  /\ config' = [config EXCEPT !.governance_authority = new_governance_authority]
  /\ emit([kind |-> "GovernanceTransferred", governance_authority |-> signer,
           new_governance_authority |-> new_governance_authority])
  /\ UNCHANGED <<entries, slot>>

Propose(signer) ==
  \E program \in Programs, name \in ProtocolNames, version \in Versions,
     mint \in Mints, uri \in MetadataUris :
     propose_adapter(signer, program, name, version, mint, uri)

Govern(signer) ==
  \E address \in DOMAIN entries :
    \/ approve_adapter(signer, address)
    \/ pause_adapter(signer, address)
    \/ unpause_adapter(signer, address)
    \/ deprecate_adapter(signer, address)
    \/ \E uri \in MetadataUris : update_adapter_metadata(signer, address, uri)

Next ==
  \/ AdvanceSlot
  \/ \E signer \in Signers :
       \/ initialize_registry(signer)
       \/ Propose(signer)
       \/ Govern(signer)
       \/ \E key \in Pubkeys : transfer_governance(signer, key)

Spec == Init /\ [][Next]_vars

-----------------------------------------------------------------------------
(* Properties.                                                             *)

(* The accounts hold values of their Rust types, the clock is in range and *)
(* only addresses derived from offered seeds exist.                        *)
TypeOK ==
  /\ config \in [initialized: BOOLEAN, governance_authority: Pubkeys,
                 adapter_count: 0 .. MaxCount]
  /\ DOMAIN entries \subseteq Addresses
  /\ entries \in [DOMAIN entries -> AdapterEntry]
  /\ slot \in 0 .. MaxSlot

(* adapter_count is exactly the number of entry accounts that exist, over  *)
(* every sequence of proposals, repeats and overflow rejections; entries   *)
(* and an authority other than the default exist only once initialised     *)
(* (propose_adapter, lib.rs:53-56, and `init` at lib.rs:245-257).          *)
CountMatchesEntries ==
  /\ config.adapter_count = Cardinality(DOMAIN entries)
  /\ config.initialized <=> config.governance_authority # DefaultPubkey

(* Every entry is stored at the address derived from its own fields, which *)
(* is what the dispatcher recomputes, names a real program and mint, and   *)
(* still fits the account space reserved at creation after any number of   *)
(* metadata updates (the account is never reallocated, lib.rs:315-328).    *)
EntriesWellFormed ==
  \A a \in DOMAIN entries :
    LET e == entries[a] IN
    /\ a = EntryAddress(e.adapter_program_id, e.supported_mint, e.adapter_version)
    /\ e.adapter_program_id # DefaultPubkey /\ e.supported_mint # DefaultPubkey
    /\ SerializedBytes(e) <= EntrySpace

(* Events are complete: folding the emitted events, and nothing else,      *)
(* gives the authority and every field of every entry account, at every    *)
(* moment and over any interleaving of governance transactions.            *)
ReplayMatchesChain ==
  replayed = [authority |-> config.governance_authority, entries |-> entries]

(* What the registry promises: a single-governor allowlist.                *)
WithState(status) == {a \in DOMAIN entries : entries[a].status = status}

Abstract == INSTANCE Allowlist WITH
  Keys <- Pubkeys,
  NoKey <- DefaultPubkey,
  Items <- Addresses,
  governor <- config.governance_authority,
  actor <- event.governance_authority,
  proposed <- DOMAIN entries,
  admitted <- WithState("Approved"),
  retired <- WithState("Deprecated")

(* Every registry transaction is a step of the allowlist: only the         *)
(* governor of the moment acts, each adapter is proposed at most once and  *)
(* before it is admitted, a retired adapter is never admitted again.       *)
ImplementsAllowlist == Abstract!Spec
=============================================================================
