-------------------------- MODULE ModuleManifests --------------------------
(***************************************************************************)
(* Manifests of installable modules and the pure functions the registry    *)
(* computes over them: validation, signature status, the permission card   *)
(* shown in a trust ceremony, the permission diff of an update, the v1     *)
(* shim, drafts made from imported skills, and dependency resolution.      *)
(*                                                                         *)
(* A manifest is a record; capability strings, gates and destinations are  *)
(* members of small sets, an advice tier is its rank (tiers.py), a version *)
(* specifier is the set of versions it matches.                            *)
(***************************************************************************)
EXTENDS Naturals, FiniteSets, FiniteSetsExt

CONSTANTS
    VerifiedPublishers,  \* publishers.py: the hard-coded registry
    KeyedPublishers,     \* those with a registered ed25519 public key
    Catalogue            \* entries discover_modules() finds on disk

(* (none < optional < delegated < required), as the dictionary orders them *)
ModelAccessRank(level) ==
    CASE level = "none" -> 0 [] level = "optional" -> 1
      [] level = "delegated" -> 2 [] level = "required" -> 3

(***************************************************************************)
(* Signatures.  `signature` is "none", "short" (under 16 characters),      *)
(* "shape" (long enough, does not verify) or "valid" (made with the        *)
(* publisher's key over this manifest's digest).                           *)
(***************************************************************************)
SignatureStatus(m) ==
    CASE m.signature = "none" -> "unsigned"
      [] m.signature = "short" -> "invalid"
      [] m.publisher \notin VerifiedPublishers -> "unknown_publisher"
      [] m.signedBy \notin {"none", m.publisher} -> "invalid"
      [] m.publisher \in KeyedPublishers ->
            IF m.signature = "valid" THEN "verified" ELSE "invalid"
      [] OTHER -> "structure_verified"

(* Only cryptographic provenance of a registered publisher is fast. *)
FastPath(m) ==
    /\ SignatureStatus(m) = "verified"
    /\ m.publisher \in VerifiedPublishers

(***************************************************************************)
(* Validation: the schema (abstracted to a flag) and the code-level rules. *)
(***************************************************************************)
CapabilityErrors(m, c) ==
    {e \in {"string", "slot", "gate", "destinations", "provider"} :
        CASE e = "string" -> ~c.stringsValid
          [] e = "slot" -> ~c.slotKnown
          [] e = "gate" -> c.kind = "gate" /\ c.gates # {}
          [] e = "destinations" -> c.network /\ c.dests = {}
          [] e = "provider" ->
                /\ c.model = "required"
                /\ \A d \in m.capabilities : d.kind # "provider"
                /\ \A r \in m.requires : ~r.provider}

(* module.v2.json: there is a capability, and each has a level of model    *)
(* access and one of the five advice tiers.                                *)
MeetsSchema(m) ==
    /\ m.capabilities # {}
    /\ \A c \in m.capabilities :
          c.model \in {"none", "optional", "delegated", "required"} /\ c.tier \in 1..5

Valid(m) == m.schemaOk /\ \A c \in m.capabilities : CapabilityErrors(m, c) = {}

(* A native entrypoint must be importable in this deployment. *)
EntrypointResolves(m) == m.runtime = "native" => m.importable

(***************************************************************************)
(* The permission card, and the two shapes a permission snapshot comes in: *)
(* the card drops gates and destinations from each capability and carries  *)
(* their union; a raw manifest carries them on each capability only.       *)
(***************************************************************************)
NoTier == 0

HighestTierOf(capabilities) ==
    IF capabilities = {} THEN NoTier ELSE Max({c.tier : c \in capabilities})

Shown(c) ==
    [id |-> c.id, kind |-> c.kind, scope |-> c.scope, reads |-> c.reads, writes |-> c.writes,
     model |-> c.model, network |-> c.network, tier |-> c.tier, gates |-> {}, dests |-> {}]

Card(m) ==
    [capabilities |-> {Shown(c) : c \in m.capabilities},
     gates |-> UNION {c.gates : c \in m.capabilities},
     dests |-> UNION {c.dests : c \in m.capabilities},
     tier  |-> HighestTierOf(m.capabilities)]

Raw(m) == [capabilities |-> m.capabilities, gates |-> {}, dests |-> {}, tier |-> NoTier]

Reads(s) == UNION {c.reads : c \in s.capabilities}
Writes(s) == UNION {c.writes : c \in s.capabilities}
AllGates(s) == s.gates \cup (UNION {c.gates : c \in s.capabilities})
AllDestinations(s) == s.dests \cup (UNION {c.dests : c \in s.capabilities})
AnyExternalNetwork(s) == \E c \in s.capabilities : c.network
HighestTier(s) == Max({s.tier, HighestTierOf(s.capabilities)})
MaxModelAccess(s) ==
    IF s.capabilities = {} THEN 0 ELSE Max({ModelAccessRank(c.model) : c \in s.capabilities})

(* The dimensions in which a new snapshot asks for more than an old one.  *)
(* A gate that disappears is reported, but is not an expansion.           *)
DetectExpansion(old, new) ==
    {d \in {"reads", "writes", "tier", "network", "destinations", "gates", "model"} :
        CASE d = "reads" -> ~ Reads(new) \subseteq Reads(old)
          [] d = "writes" -> ~ Writes(new) \subseteq Writes(old)
          [] d = "tier" -> HighestTier(new) > HighestTier(old)
          [] d = "network" -> AnyExternalNetwork(new) /\ ~AnyExternalNetwork(old)
          [] d = "destinations" -> ~ AllDestinations(new) \subseteq AllDestinations(old)
          [] d = "gates" -> ~ AllGates(new) \subseteq AllGates(old)
          [] d = "model" -> MaxModelAccess(new) > MaxModelAccess(old)}

(* mutant: writes are left out of the diff *)
MutRequiresReprompt(old, new) == DetectExpansion(old, new) \ {"writes"} # {}

RequiresReprompt(old, new) == DetectExpansion(old, new) # {}

(***************************************************************************)
(* Where manifests come from.                                              *)
(***************************************************************************)
Capability(id, kind, scope, reads, writes, model, gates, tier) ==
    [id |-> id, kind |-> kind, scope |-> scope, reads |-> reads, writes |-> writes,
     model |-> model, network |-> FALSE, dests |-> {}, gates |-> gates, tier |-> tier,
     slotKnown |-> TRUE, stringsValid |-> TRUE]

(* The v1 shim: one matter-scoped workflow; a string that is not a read is *)
(* counted as a write.                                                     *)
DeriveFromModuleJson(v1) ==
    [id |-> v1.name, version |-> v1.version, publisher |-> v1.author,
     signature |-> "none", signedBy |-> "none", schemaOk |-> TRUE,
     runtime |-> "native", importable |-> v1.importable,
     capabilities |->
        {Capability("default", "workflow", "matter",
                    v1.declared \cap v1.readStrings, v1.declared \ v1.readStrings,
                    IF "model.invoke" \in v1.declared THEN "optional" ELSE "none",
                    {"privilege_posture"}, 3)},
     requires |-> {[module |-> p, spec |-> {}, provider |-> FALSE] : p \in v1.plugins}]

(* The importer's draft of a skill: a prompt-runtime manifest with the     *)
(* reviewer's overrides or conservative defaults, and the internal         *)
(* provider capability.  It never installs anything.                       *)
DraftManifest(skill) ==
    [id |-> skill.slug, version |-> skill.version, publisher |-> skill.author,
     signature |-> "none", signedBy |-> "none", schemaOk |-> TRUE,
     runtime |-> "prompt", importable |-> FALSE,
     capabilities |->
        {Capability("run", "skill", "matter", skill.reads, skill.writes,
                    "required", skill.gates, skill.tier),
         Capability("default-provider", "provider", "workspace", {}, {}, "none", {}, 1)},
     requires |-> {}]

EntryManifest(e) == IF e.kind = "v2" THEN e.manifest ELSE DeriveFromModuleJson(e.manifest)

(***************************************************************************)
(* Dependency resolution.  `installed` is the set of <<module, version>>   *)
(* of the installed rows, enabled or not.  The resolver hands the shim     *)
(* arguments it does not take, so a v1 entry that it has to convert ends   *)
(* the request with a TypeError.                                           *)
(***************************************************************************)
DirectDependencies(m) == {r.module : r \in m.requires}

ResolverRaises(m) ==
    \E e \in Catalogue : e.kind # "v2" /\ e.id \in DirectDependencies(m) \cup {m.id}

Available(installed, module) ==
    {p[2] : p \in {q \in installed : q[1] = module}}
        \cup {e.manifest.version : e \in {f \in Catalogue : f.id = module}}

MatchesSpec(version, spec) == spec = {} \/ version \in spec

Missing(m, installed) ==
    {r \in m.requires :
        ~ \E v \in Available(installed, r.module) : MatchesSpec(v, r.spec)}

(* Edges of the manifest under test, and of its direct dependencies. *)
DependencyEdges(m) ==
    {<<m.id, d>> : d \in IF \E e \in Catalogue : e.id = m.id
                         THEN UNION {DirectDependencies(EntryManifest(e)) :
                                        e \in {f \in Catalogue : f.id = m.id}}
                         ELSE DirectDependencies(m)}
      \cup (UNION {{<<e.id, d>> : d \in DirectDependencies(EntryManifest(e))} :
                e \in {f \in Catalogue : f.id \in DirectDependencies(m)}})

(* Some set of modules in which each depends on another of the set. *)
HasCycle(edges) ==
    \E S \in (SUBSET {p[1] : p \in edges}) \ {{}} :
        \A x \in S : \E y \in S : <<x, y>> \in edges

Resolved(m, installed) ==
    /\ ~ResolverRaises(m)
    /\ Missing(m, installed) = {}
    /\ ~HasCycle(DependencyEdges(m))

(* What install and update both require before anything else happens. *)
Admissible(m, installed) == Valid(m) /\ EntrypointResolves(m) /\ Resolved(m, installed)

=============================================================================
