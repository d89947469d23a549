----------------------------- MODULE Deployment -----------------------------
(***************************************************************************)
(* The devnet scripts at work on the registry program.  deploy-devnet.ts   *)
(* deploys the program, initialises the registry unless it exists, and     *)
(* writes a manifest file; verify-devnet-registry.ts reads the registry    *)
(* and may write the manifest anew.  Both run on one machine, at any time  *)
(* and also at once, and either may die between two steps, or be told that *)
(* a transaction failed which landed.  Meanwhile others use the registry.  *)
(* The manifest may be that of a registry elsewhere, from an earlier       *)
(* deployment, and verify may be told to look there.                       *)
(***************************************************************************)
EXTENDS Registry

CONSTANTS
  wallet,       \* the key the deploy script signs with
  MaxFailures,  \* how often a script dies or is told a wrong result
  OtherConfigs  \* what a RegistryConfig elsewhere may hold

ASSUME DeploymentConstants ==
  /\ wallet \in Signers
  /\ MaxFailures \in Nat
  /\ OtherConfigs \subseteq [initialized: BOOLEAN, governance_authority: Pubkeys,
                             adapter_count: Nat]

VARIABLES
  program,   \* whether the registry program is deployed
  manifest,  \* the manifest file
  step,      \* where each script is
  signature, \* deploy: whether this run initialised the registry
  previous,  \* whether the manifest a script read names a transaction
  options,   \* verify: the registry it looks at, whether it was given a signature
  onChain,   \* verify: the RegistryConfig it read
  failures,  \* failures so far
  began      \* history: adapter_count when each script began

chain == <<config, entries, slot, event, replayed>>
verifyVars == <<options, onChain>>
deployVars == <<chain, program, manifest, step, signature, previous, verifyVars,
                failures, began>>

Scripts == {"deploy", "verify"}

(* Registries by program id: the one modelled here, and any other.         *)
Ours == "ours"
RegistryProgramIds == {Ours, "elsewhere"}

NoConfig == [initialized |-> FALSE, governance_authority |-> DefaultPubkey,
             adapter_count |-> 0]

NoManifest == [registryProgramId |-> "none"]

(* initSignature: whether the manifest names a transaction.                *)
ManifestOf(registryProgramId, registry, initSignature) ==
  [registryProgramId |-> registryProgramId,
   governanceAuthority |-> registry.governance_authority,
   adapterCount |-> registry.adapter_count, initSignature |-> initSignature]

Signed(m) == m # NoManifest /\ m.initSignature

Recorded == manifest.registryProgramId = Ours

-----------------------------------------------------------------------------
At(script, here, next) ==
  step[script] = here /\ step' = [step EXCEPT ![script] = next]

ReadPrevious(script) ==
  previous' = [previous EXCEPT ![script] = Signed(manifest)]

Begin(script, next) ==
  /\ At(script, "off", next)
  /\ began' = [began EXCEPT ![script] = config.adapter_count]

(* deploy-devnet.ts, main.                                                 *)

StartDeploy ==
  /\ Begin("deploy", "deploying")
  /\ signature' = FALSE
  /\ UNCHANGED <<chain, program, manifest, previous, verifyVars, failures>>

AnchorDeploy ==
  /\ At("deploy", "deploying", "checking")
  /\ program' = TRUE
  /\ UNCHANGED <<chain, manifest, signature, previous, verifyVars, failures, began>>

(* Mutant: the account is not looked up first. *)
MutNeverExisting == FALSE

existing == config.initialized

CheckRegistry ==
  /\ At("deploy", "checking", IF existing THEN "recording" ELSE "initializing")
  /\ UNCHANGED <<chain, program, manifest, signature, previous, verifyVars, failures, began>>

(* The transaction fails, and with it the script, if the account exists. *)
InitializeRegistry ==
  /\ \/ /\ initialize_registry(wallet)
        /\ At("deploy", "initializing", "recording")
        /\ signature' = TRUE
     \/ /\ config.initialized
        /\ At("deploy", "initializing", "off")
        /\ UNCHANGED <<chain, signature>>
  /\ UNCHANGED <<program, manifest, previous, verifyVars, failures, began>>

(* The transaction lands, but its confirmation does not arrive in time. *)
LoseConfirmation ==
  /\ failures < MaxFailures
  /\ initialize_registry(wallet)
  /\ At("deploy", "initializing", "off")
  /\ failures' = failures + 1
  /\ UNCHANGED <<program, manifest, signature, previous, verifyVars, began>>

ReadManifest ==
  /\ At("deploy", "recording", "writing")
  /\ ReadPrevious("deploy")
  /\ UNCHANGED <<chain, program, manifest, signature, verifyVars, failures, began>>

writeDeploymentManifest ==
  /\ At("deploy", "writing", "off")
  /\ manifest' = [registryProgramId |-> Ours, governanceAuthority |-> wallet,
                  adapterCount |-> 0,
                  initSignature |-> signature \/ previous["deploy"]]
  /\ UNCHANGED <<chain, program, signature, previous, verifyVars, failures, began>>

-----------------------------------------------------------------------------
(* verify-devnet-registry.ts, main.                                        *)

(* The registry is the one an option names, or else the manifest's, or     *)
(* else the environment's: it may be any.                                  *)
StartVerify ==
  /\ Begin("verify", "reading")
  /\ ReadPrevious("verify")
  /\ options' \in [registryProgramId: RegistryProgramIds, initSignature: BOOLEAN]
  /\ onChain' = NoConfig
  /\ UNCHANGED <<chain, program, manifest, signature, failures>>

readOnChainState ==
  /\ At("verify", "reading", "checked")
  /\ onChain' \in IF options.registryProgramId = Ours THEN {config} ELSE OtherConfigs
  /\ UNCHANGED <<chain, program, manifest, signature, previous, options, failures, began>>

(* Mutant: the script does not refuse to write of a registry that is not there. *)
MutNoRefusal == TRUE

MayWrite == onChain.initialized

(* A signature given as an option goes before that of the manifest.        *)
writeManifest ==
  /\ MayWrite
  /\ At("verify", "checked", "off")
  /\ manifest' = ManifestOf(options.registryProgramId, onChain,
                            options.initSignature \/ previous["verify"])
  /\ UNCHANGED <<chain, program, signature, previous, verifyVars, failures, began>>

(* Without --write, or refusing to. *)
OnlyReport ==
  /\ At("verify", "checked", "off")
  /\ UNCHANGED <<chain, program, manifest, signature, previous, verifyVars, failures, began>>

-----------------------------------------------------------------------------
Die(script) ==
  /\ failures < MaxFailures
  /\ step[script] # "off" /\ step' = [step EXCEPT ![script] = "off"]
  /\ failures' = failures + 1
  /\ UNCHANGED <<chain, program, manifest, signature, previous, verifyVars, began>>

(* Others use the registry, once its program is there. *)
UseRegistry ==
  /\ program /\ Next
  /\ UNCHANGED <<program, manifest, step, signature, previous, verifyVars, failures, began>>

(* The file may hold an earlier deployment, of a registry elsewhere.       *)
DeployInit ==
  /\ Init
  /\ program = FALSE
  /\ manifest \in {NoManifest} \cup
       {ManifestOf("elsewhere", other, initSignature) :
          other \in {c \in OtherConfigs : c.initialized}, initSignature \in BOOLEAN}
  /\ step = [script \in Scripts |-> "off"]
  /\ signature = FALSE
  /\ previous = [script \in Scripts |-> FALSE]
  /\ options = [registryProgramId |-> Ours, initSignature |-> FALSE]
  /\ onChain = NoConfig
  /\ failures = 0
  /\ began = [script \in Scripts |-> 0]

Deploy ==
  \/ AnchorDeploy \/ CheckRegistry \/ InitializeRegistry
  \/ ReadManifest \/ writeDeploymentManifest

Verify == readOnChainState \/ writeManifest \/ OnlyReport

DeployNext ==
  \/ StartDeploy \/ Deploy \/ LoseConfirmation
  \/ StartVerify \/ Verify
  \/ \E script \in Scripts : Die(script)
  \/ UseRegistry

(* A script that runs goes on, and whoever deploys tries again until the   *)
(* manifest is of this registry.                                           *)
Fairness ==
  /\ WF_deployVars(Deploy)
  /\ WF_deployVars(Verify)
  /\ WF_deployVars(StartDeploy /\ ~Recorded)

DeploySpec == DeployInit /\ [][DeployNext]_deployVars /\ Fairness

-----------------------------------------------------------------------------
(* Properties.                                                             *)

(* A manifest of the registry never runs ahead of it: it tells of one that *)
(* exists, and of no more adapters than were proposed there, whatever      *)
(* manifest there was before, however the two scripts interleave and       *)
(* wherever they die (verify-devnet-registry.ts:84-101, 132-140, 302,      *)
(* deploy-devnet.ts:85-101).                                               *)
ManifestHasARegistry ==
  Recorded => config.initialized /\ manifest.adapterCount <= config.adapter_count

(* Whatever dies, gets lost or is done first by others, whoever runs the   *)
(* deploy script until it succeeds gets a registry and a manifest of it: a *)
(* retry finds what an earlier run left behind (deploy-devnet.ts:216-225). *)
DeploymentIsRecorded == <>(config.initialized /\ Recorded)

(* The schema of the manifest says that its adapterCount is read from the  *)
(* chain (deployments/README.md:26): so it is one the registry had since   *)
(* the script that writes it began.                                        *)
AdapterCountIsRead ==
  [][manifest' # manifest /\ Recorded' =>
       \E script \in Scripts :
         /\ step[script] # "off" /\ step'[script] = "off"
         /\ began[script] <= manifest'.adapterCount
         /\ manifest'.adapterCount <= config.adapter_count]_deployVars
=============================================================================
