-------------------------- MODULE ProfileOverlay ----------------------------
(***************************************************************************)
(* What a profile makes of a run (execution/profile_runtime.go): the chain *)
(* of profiles it extends, the document they add up to, its secrets, and   *)
(* the environment, devices and limits of each step.                       *)
(*                                                                         *)
(* Maps are functions of strings; a profile record carries its parsed      *)
(* document.  A quantity is [typo, n]: what was written and whether the    *)
(* grammar of quantities accepts it.                                       *)
(***************************************************************************)
EXTENDS Integers, Sequences, SequencesExt, TLC

NoMap == <<>>
Over(base, overlay) == overlay @@ base

-----------------------------------------------------------------------------
(* One profile document.                                                   *)

MemoryQuantity(raw) == IF raw.typo \/ raw.n <= 0 THEN 0 ELSE raw.n
MilliCPU(raw) == IF raw.typo \/ raw.n <= 0 THEN 0 ELSE raw.n * 1000

ServiceSpec(raw) ==
    [env |-> raw.env, devices |-> raw.devices, memory |-> MemoryQuantity(raw.memory), cpu |-> MilliCPU(raw.cpu)]

EmptySpec == [env |-> NoMap, devices |-> <<>>, memory |-> 0, cpu |-> 0]

\* A service entry that sets nothing is dropped.
ParsedServices(raw) ==
    LET said == {name \in DOMAIN raw : ServiceSpec(raw[name]) # EmptySpec}
    IN [name \in said |-> ServiceSpec(raw[name])]

-----------------------------------------------------------------------------
(* The chain of a profile, its root first; "base" need not exist.          *)

ProfileChain(records, selected) ==
    LET byID(id) == {r \in Range(records) : r.id = id}
        visit[path \in Seq(STRING)] ==
            LET id == Last(path)
            IN IF id = "" THEN [err |-> "", chain |-> <<>>]
               ELSE IF Contains(Front(path), id) THEN [err |-> "cycle", chain |-> <<>>]
               ELSE IF byID(id) = {} THEN [err |-> IF id = "base" THEN "" ELSE "not found", chain |-> <<>>]
               ELSE LET record == CHOOSE r \in byID(id) : TRUE
                        below  == visit[Append(path, record.extends)]
                    IN IF below.err # "" THEN below
                       ELSE [err |-> "", chain |-> Append(below.chain, record)]
    IN visit[<<selected>>]

\* Per service and per field: what the child sets replaces what it inherits.
MergeService(base, overlay) ==
    [env |-> Over(base.env, overlay.env),
     devices |-> IF overlay.devices # <<>> THEN overlay.devices ELSE base.devices,
     memory |-> IF overlay.memory > 0 THEN overlay.memory ELSE base.memory,
     cpu |-> IF overlay.cpu > 0 THEN overlay.cpu ELSE base.cpu]

MergeServices(base, overlay) ==
    [name \in DOMAIN base \cup DOMAIN overlay |->
        IF name \notin DOMAIN overlay THEN base[name]
        ELSE MergeService(IF name \in DOMAIN base THEN base[name] ELSE EmptySpec, overlay[name])]

\* References by key: the last one wins and keeps the first one's place.
MergeSecretRefs(base, overlay) ==
    FoldLeft(LAMBDA refs, ref :
                 IF \E i \in DOMAIN refs : refs[i].key = ref.key
                 THEN [i \in DOMAIN refs |-> IF refs[i].key = ref.key THEN ref ELSE refs[i]]
                 ELSE Append(refs, ref),
             base, overlay)

EmptyDocument == [env |-> NoMap, services |-> NoMap, network |-> "", secrets |-> <<>>, tags |-> {}]

MergeDocument(doc, record) ==
    [env |-> Over(doc.env, record.env),
     services |-> MergeServices(doc.services, ParsedServices(record.services)),
     network |-> IF record.network # "" THEN record.network ELSE doc.network,
     secrets |-> MergeSecretRefs(doc.secrets, record.secrets),
     tags |-> IF record.tags # {} THEN record.tags ELSE doc.tags]

ManagedProfileRuntime(records, fileName) ==
    LET named == SelectSeq(records, LAMBDA r : r.fileName = fileName)
    IN IF named = <<>> THEN [err |-> "", doc |-> EmptyDocument]
       ELSE LET found == ProfileChain(records, named[1].id)
            IN [err |-> found.err, doc |-> FoldLeft(MergeDocument, EmptyDocument, found.chain)]

\* Tags are read at launch; a profile that cannot be read asks for none.
ProfileAgentTags(records, fileName) ==
    IF ManagedProfileRuntime(records, fileName).err # "" THEN {} ELSE ManagedProfileRuntime(records, fileName).doc.tags

-----------------------------------------------------------------------------
(* Secrets.  settings: the platform's provider, overrides, Vault address   *)
(* ("" = none, "blocked" = a private address), whether a token is set and  *)
(* what Vault holds; processEnv: the variables of the control plane.       *)

SecretProvider(ref, settings) ==
    IF ref.scheme = "vault" THEN "vault"
    ELSE IF ref.scheme = "secrets" THEN "local"
    ELSE IF ref.provider = "" /\ settings.provider = "vault" THEN "vault" ELSE ref.provider

VaultUnavailable(settings) ==
    settings.provider = "none" \/ (settings.provider = "" /\ settings.address = "")

ResolveLocal(ref, settings, processEnv) ==
    IF ref.key \in DOMAIN settings.overrides THEN [status |-> "ok", value |-> settings.overrides[ref.key]]
    ELSE IF ref.key \in DOMAIN processEnv THEN [status |-> "ok", value |-> processEnv[ref.key]]
    ELSE [status |-> "unavailable"]

ResolveVault(ref, settings) ==
    IF VaultUnavailable(settings) THEN [status |-> "unavailable"]
    ELSE IF \/ settings.provider \notin {"", "vault"} \/ settings.address \in {"", "blocked"}
            \/ ~settings.token \/ ref.key \notin DOMAIN settings.vault THEN [status |-> "error"]
    ELSE [status |-> "ok", value |-> settings.vault[ref.key]]

ResolveSecret(ref, settings, processEnv) ==
    LET provider == SecretProvider(ref, settings)
    IN IF provider = "vault" THEN ResolveVault(ref, settings)
       ELSE IF provider = "local" THEN ResolveLocal(ref, settings, processEnv)
       ELSE [status |-> "error"]

\* Unavailable secrets are left out, an error fails the run.
ProfileSecrets(refs, settings, processEnv) ==
    LET got(ref) == ResolveSecret(ref, settings, processEnv)
        found    == {r \in Range(refs) : got(r).status = "ok"}
    IN [err |-> IF \E r \in Range(refs) : got(r).status = "error" THEN "secret" ELSE "",
        env |-> [k \in {r.key : r \in found} |-> got(CHOOSE r \in found : r.key = k).value]]

-----------------------------------------------------------------------------
(* The overlay of a run and what it gives each step.                       *)

RuntimeOverlay(records, fileName, settings, processEnv) ==
    LET profile == ManagedProfileRuntime(records, fileName)
        secrets == ProfileSecrets(profile.doc.secrets, settings, processEnv)
    IN [err |-> IF profile.err # "" THEN profile.err ELSE secrets.err,
        env |-> Over(profile.doc.env, settings.overrides), services |-> profile.doc.services,
        network |-> profile.doc.network, secretEnv |-> secrets.env]

\* The entry of a step's id, or of its name, whichever says something.
ServiceField(overlay, node, field, unset) ==
    LET entry(k) == IF k \in DOMAIN overlay.services THEN overlay.services[k][field] ELSE unset
    IN IF entry(node.id) # unset THEN entry(node.id) ELSE entry(node.name)

NodeServiceEnv(overlay, node) == ServiceField(overlay, node, "env", NoMap)
NodeDevices(overlay, node) == ServiceField(overlay, node, "devices", <<>>)
NodeCPU(overlay, node) == ServiceField(overlay, node, "cpu", 0)
NodeMemory(overlay, node) == ServiceField(overlay, node, "memory", 0)

\* Mutant: the step's own variables win over the profile's service entry.
NodeRuntimeEnvOwnLast(overlay, node) ==
    Over(Over(Over(overlay.env, NodeServiceEnv(overlay, node)), node.env), overlay.secretEnv)

NodeRuntimeEnv(overlay, node) ==
    Over(Over(Over(overlay.env, node.env), NodeServiceEnv(overlay, node)), overlay.secretEnv)

ExecutionNetwork(overlay) == overlay.network = "execution"
=============================================================================
