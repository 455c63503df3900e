----------------------------- MODULE MCPlatform -----------------------------
(* Model checking of what surrounds the work on a matter: the module registry    *)
(* and its trust ceremony, external packs, contributed state machines, provider  *)
(* keys, usage limits and accounts.  As in MCMatterWork, the parts share no      *)
(* variable and `part` picks the one that moves.                                 *)
EXTENDS ModuleRegistry, ExternalPack, StateMachines, ProviderKeys,
        UsageLimits, Accounts

CONSTANTS w1, w2, w3,  \* requests of the parts with three
          n1, n2,      \* requests to the module registry
          p1, p2,      \* addresses
          k1, k2, k3   \* master keys

VARIABLE part

Parts == {"registry", "packs", "machines", "keys", "limits", "accounts"}
-----------------------------------------------------------------------------
(* Manifests of one module "M".  One update drops a gate, which is no expansion  *)
(* and is made in place; the other also asks for a write, which is one unless a  *)
(* ceremony has admitted it.  A dependency on the entry "E" ends the request.    *)
Run(reads, writes, gates) ==
    Capability("run", "skill", "matter", reads, writes, "optional", gates, 1)

PostedManifest(version, publisher, signature, caps, requires) ==
    [id |-> "M", version |-> version, publisher |-> publisher, signature |-> signature,
     signedBy |-> "none", schemaOk |-> TRUE, runtime |-> "prompt", importable |-> FALSE,
     capabilities |-> caps, requires |-> requires]

Needs(module) == {[module |-> module, spec |-> {}, provider |-> FALSE]}

First == PostedManifest("1", "legalise", "valid", {Run({"r"}, {}, {"g"})}, {})
Ungated == PostedManifest("2", "legalise", "shape", {Run({"r"}, {}, {})}, {})
Wider == PostedManifest("3", "anyone", "none", {Run({"r"}, {"w"}, {})}, Needs("D"))

ManifestsDef == {First, [Wider EXCEPT !.requires = Needs("E")]}
UpdatesDef == {Ungated, Wider}

(* A manifest the schema refuses, and one of the first format. *)
CatalogueDef ==
    {[id |-> "D", kind |-> "v2", manifest |-> [First EXCEPT !.id = "D", !.schemaOk = FALSE]],
     [id |-> "E", kind |-> "v1", manifest |->
        [name |-> "E", version |-> "1", author |-> "legacy", importable |-> FALSE,
         declared |-> {"matter.read", "model.invoke"}, readStrings |-> {"matter.read"},
         plugins |-> {}]]}

(* Exports of one or two documents, with a version that is current or not,       *)
(* edited or not, whose hash the manifest states or not, and with files that     *)
(* match it or not.                                                              *)
PackVersion(id, n, source, claim) ==
    [id |-> id, number |-> n, source |-> source, filename |-> "f", claim |-> claim]
PackDocument(current, list) == [name |-> "f", current |-> current, versions |-> list]
PackVersions == {PackVersion("v", n, source, claim) :
                    n \in {0, 2}, source \in {"upload", "assistant_edit"}, claim \in {None, "b1"}}
PackDocuments ==
    {PackDocument("v", <<v>>) : v \in PackVersions}
      \cup {PackDocument(None, <<PackVersion("w", 1, "upload", "b2"), v>>) : v \in PackVersions}
      \cup {[name |-> "g", current |-> None, versions |-> <<>>]}
PackFiles == [name : {[stem |-> "f", edited |-> 0], [stem |-> "f", edited |-> 2]},
              bytes : {"b1", "b2"}]
EditedDocument == PackDocument("v", <<PackVersion("v", 2, "assistant_edit", "b1")>>)

ExportsDef ==
    [documents : {<<d>> : d \in PackDocuments} \cup {<<EditedDocument, d>> : d \in PackDocuments},
     entries : {<<>>} \cup {<<f>> : f \in PackFiles} \cup {<<f, g>> : f \in PackFiles, g \in PackFiles}]

(* A machine with gates and capabilities, one gate only, and one that is invalid. *)
Edge(from, to, caps, gates) == [from |-> from, to |-> to, caps |-> caps, gates |-> gates]
Shape(states, list) ==
    [states |-> states, initial |-> "draft", terminal |-> {"closed"}, edges |-> list]
ShapesDef ==
    {Shape({"draft", "review", "closed"},
           {Edge("draft", "review", {"submit"}, {}), Edge("draft", "closed", {}, {}),
            Edge("draft", "draft", {}, {}), Edge("review", "closed", {"sign"}, {"noop"})}),
     Shape({"draft", "closed"}, {Edge("draft", "closed", {}, {"noop"})}),
     Shape({"draft", "closed"}, {Edge("closed", "draft", {}, {})})}

LimitDef == [k \in Kinds |-> IF k = "bytes" THEN 2 ELSE 1]

(* Requests, addresses and new master keys are interchangeable.  The pairs are   *)
(* swapped with the odd permutations of the three requests, which keeps the      *)
(* group at six.                                                                 *)
Odd(s) == Cardinality({w \in DOMAIN s : s[w] = w}) = 1
Swap == n1 :> n2 @@ n2 :> n1 @@ p1 :> p2 @@ p2 :> p1 @@ k2 :> k3 @@ k3 :> k2
RequestSymmetry ==
    {s @@ IF Odd(s) THEN Swap ELSE [x \in DOMAIN Swap |-> x] : s \in Permutations({w1, w2, w3})}
-----------------------------------------------------------------------------
PlatformInit ==
    /\ part \in Parts
    /\ RegistryInit /\ PackInit /\ MachineInit /\ KeysInit /\ LimitsInit
    /\ AccountInit
    /\ part # "accounts" => env = "production"

PlatformNext ==
    /\ UNCHANGED part
    /\ \/ /\ part = "registry" /\ RegistryNext
          /\ UNCHANGED <<packVars, machineVars, keyVars, limitVars, accountVars>>
       \/ /\ part = "packs" /\ PackNext
          /\ UNCHANGED <<registryVars, machineVars, keyVars, limitVars, accountVars>>
       \/ /\ part = "machines" /\ MachineNext
          /\ UNCHANGED <<registryVars, packVars, keyVars, limitVars, accountVars>>
       \/ /\ part = "keys" /\ KeysNext
          /\ UNCHANGED <<registryVars, packVars, machineVars, limitVars, accountVars>>
       \/ /\ part = "limits" /\ LimitsNext
          /\ UNCHANGED <<registryVars, packVars, machineVars, keyVars, accountVars>>
       \/ /\ part = "accounts" /\ AccountNext
          /\ UNCHANGED <<registryVars, packVars, machineVars, keyVars, limitVars>>

platformVars == <<part, registryVars, packVars, machineVars, keyVars,
                  limitVars, accountVars>>

PlatformSpec == PlatformInit /\ [][PlatformNext]_platformVars

=============================================================================
