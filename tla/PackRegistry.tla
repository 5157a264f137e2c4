------------------------------ MODULE PackRegistry ------------------------------
(***************************************************************************)
(* Governance packs: how a file becomes a pack, how a registry is filled   *)
(* tier by tier, which packs a selection brings in, and the lock that      *)
(* fixes a selection.                                                      *)
(*                                                                         *)
(* A payload is what a pack file says; the content hash covers all of it   *)
(* (but the hash itself), so a payload stands for its own hash.  form says *)
(* what is wrong with the file as such: "ok", "yaml" (unreadable, too big, *)
(* too deep), "schema", "hash" (its own hash does not match).              *)
(***************************************************************************)
EXTENDS RuleEngine

CONSTANTS
  Absent,            \* no such file
  PackNames,         \* what a pack may be called; an identity has a dot and a name has none
  ReservedIds,       \* nornyx.builtin and what is below it
  BlockSchemas,      \* the block schemas the package ships
  Builtins,          \* the packs of the packaged catalog: a sequence of payloads
  MaxRulesPerPack

TierPriority == [explicit_path |-> 0, project |-> 1, org |-> 2, builtin |-> 3]

Failed(code) == [error |-> code]
Ok(x) == "error" \notin DOMAIN x

BlockingErrors == {"ACCOUNTABLE_AUTHORITY_INVALID", "NON_HUMAN_AUTHORITY"}
ApprovalPath(id, index) == <<id, index>>
PackApproval(payload, i) ==
  NormalizeApproval(payload.approvals[i], "generated_profile_approval", ApprovalPath(payload.id, i))

\* What the pack schema admits of an approval: an identity, lists of distinct names, no revision.
AdmittedApproval(a) ==
  /\ {a.id, a.authority, a.expiresAfter, a.exact} \cap {IllTyped} = {} /\ a.id # None
  /\ \A f \in ListFields : IllTyped \notin Elements(a[f]) /\ ~ Repeats(a[f])
  /\ a.timing \in (Timings \ {"legacy_text"}) \cup {None}
  /\ a.revision = None /\ a.expiresAt = None /\ a.surfaces = << >> /\ ~ a.strange

\* What it admits of a rule: these fields and operators alone, and paths that are read segment by segment.
AdmittedRule(r) ==
  /\ r = [id |-> r.id, severity |-> r.severity, mode |-> r.mode, when |-> r.when, requirements |-> r.requirements]
  /\ r.severity \in {"error", "warning"} /\ r.requirements # << >>
  /\ \A predicate \in Elements(r.when) \cup Elements(r.requirements) :
       /\ predicate.path # << >> /\ predicate.path \in Seq(Elements(predicate.path))
       /\ predicate.operator \in Operators

\* What the pack schema admits of a pack.
AdmittedPack(payload) ==
  /\ payload.id \notin PackNames /\ payload.name \in PackNames
  /\ payload.rules \in Seq(Elements(payload.rules)) /\ \A r \in Elements(payload.rules) : AdmittedRule(r)
  /\ \A i \in DOMAIN payload.approvals : AdmittedApproval(payload.approvals[i])

\* load_pack_bytes, for a file of a tier at a path.
LoadPack(payload, tier, path) ==
  CASE payload.form = "yaml" -> Failed("PACK_YAML_INVALID")
    [] payload.kind \notin {"profile", "module"} -> Failed("PACK_SCHEMA_UNSUPPORTED")
    [] payload.form = "schema" \/ ~ AdmittedPack(payload) -> Failed("SCHEMA_INVALID")
    [] payload.form = "hash" -> Failed("PACK_INTEGRITY_MISMATCH")
    [] \E i \in DOMAIN payload.approvals : PackApproval(payload, i).errors \cap BlockingErrors # {} -> Failed("APPROVAL_INVALID")
    [] Len(payload.rules) > MaxRulesPerPack -> Failed("PACK_LIMIT_EXCEEDED")
    [] tier # "builtin" /\ payload.id \in ReservedIds -> Failed("PACK_RESERVED_NAMESPACE")
    [] \E b \in payload.schemas : b[2] \notin BlockSchemas -> Failed("BLOCK_SCHEMA_UNKNOWN")
    [] OTHER -> [payload |-> payload, tier |-> tier, path |-> path]

(***************************************************************************)
(* The registry: the packs registered and those they have shadowed.        *)
(***************************************************************************)
EmptyRegistry == [packs |-> {}, shadowed |-> {}]
OfKind(registry, kind) == {p \in registry.packs : p.payload.kind = kind}
Tokens(p) == {p.payload.id, p.payload.name}

\* register_profile and register_module: namespaces, the other kind, replacement, compatibility.
Register(registry, pack) ==
  LET same == OfKind(registry, pack.payload.kind)
      byId == {p \in same : p.payload.id = pack.payload.id}
      byName == {p \in same : p.payload.name = pack.payload.name}
      Duplicate == \/ \E p \in registry.packs \ same : Tokens(p) \cap Tokens(pack) # {}
                   \/ byId # byName
                   \/ \E p \in byId : p.tier = pack.tier
      Over(tiers) == {<<pack.payload.id, t[1], t[2]>> : t \in tiers}
  IN IF pack.tier = "builtin" /\ pack.payload \notin Elements(Builtins) THEN Failed("PACK_SOURCE_TIER_INVALID")
     ELSE IF Duplicate THEN Failed("PACK_DUPLICATE_IDENTITY")
     ELSE IF \E p \in byId : TierPriority[p.tier] < TierPriority[pack.tier]
          THEN [packs |-> registry.packs, shadowed |-> registry.shadowed \cup Over({<<p.tier, pack.tier>> : p \in byId})]
     ELSE IF ~ pack.payload.core THEN Failed("PACK_CORE_INCOMPATIBLE")
     ELSE [packs |-> (registry.packs \ byId) \cup {pack},
           shadowed |-> registry.shadowed \cup Over({<<pack.tier, p.tier>> : p \in byId})]

RegisterLoaded(registry, pack) == IF Ok(pack) THEN Register(registry, pack) ELSE pack
RegisterFile(registry, file) == RegisterLoaded(registry, LoadPack(file.payload, file.tier, file.path))

\* The catalog, one pack after the other; the first that fails ends it.
BuiltinRegistry ==
  LET Add(registry, payload) ==
        IF Ok(registry) THEN RegisterFile(registry, [payload |-> payload, tier |-> "builtin", path |-> "catalog"]) ELSE registry
  IN FoldLeft(Add, EmptyRegistry, Builtins)

\* The catalog registers as a whole, under distinct names and reserved identities.
ASSUME CatalogAssumption ==
  /\ BuiltinRegistry = [packs |-> BuiltinRegistry.packs, shadowed |-> BuiltinRegistry.shadowed]
  /\ {p.payload : p \in BuiltinRegistry.packs} = Elements(Builtins)
  /\ \A p \in BuiltinRegistry.packs : p.tier = "builtin"
  /\ \A b, c \in Elements(Builtins) : b.id = c.id \/ b.name = c.name => b = c
  /\ \A b \in Elements(Builtins) : b.id \in ReservedIds /\ AdmittedPack(b)

(***************************************************************************)
(* Selection.                                                              *)
(***************************************************************************)
Named(registry, kind, identity) == {p \in OfKind(registry, kind) : identity \in Tokens(p)}

\* resolve_profile, resolve_module
ResolveIdentity(registry, kind, identity) ==
  IF Named(registry, kind, identity) = {} THEN Failed("PACK_NOT_FOUND")
  ELSE CHOOSE p \in Named(registry, kind, identity) : TRUE

NeededBy(registry, identities) == {p \in OfKind(registry, "module") : Tokens(p) \cap identities # {}}
Requires(modules) == UNION {p.payload.requires : p \in modules}

\* The modules that roots bring in, and what these need: all that are in every closed set.
ModulesFor(registry, roots) ==
  LET closed == {S \in SUBSET OfKind(registry, "module") : NeededBy(registry, roots \cup Requires(S)) \subseteq S}
  IN {p \in OfKind(registry, "module") : \A S \in closed : p \in S}

Unresolved(registry, identities) == {x \in identities : Named(registry, "module", x) = {}}

\* A set of modules is in a cycle if each needs another of the set.
Cyclic(modules) ==
  \E S \in (SUBSET modules) \ {{}} : \A p \in S : \E q \in S : Tokens(q) \cap p.payload.requires # {}

\* dependency_order.  The order is that of a depth-first walk and matters to no property; nor does
\* it matter which of two errors the walk would meet first.
DependencyOrder(registry, profile, moduleIds) ==
  LET roots == moduleIds \cup (IF profile = None THEN {} ELSE profile.payload.requires)
      modules == ModulesFor(registry, roots)
  IN CASE Unresolved(registry, roots \cup Requires(modules)) # {} -> Failed("PACK_NOT_FOUND")
       [] Cyclic(modules) -> Failed("PACK_DEPENDENCY_CYCLE")
       [] OTHER -> [modules |-> modules]

SelectedConflicts(selected) ==
  {c \in selected \X selected : c[2].payload.id \in c[1].payload.conflicts}

(***************************************************************************)
(* Locks.  A lock is a set of entries; a file may also hold something that *)
(* is no lock.                                                             *)
(***************************************************************************)
Entry(p) == [id |-> p.payload.id, version |-> p.payload.version, tier |-> p.tier, hash |-> p.payload]

\* lock_for_packs, which is given packs of one registry: no two share a name.
LockForPacks(selected) == {Entry(p) : p \in selected}

\* Mutant of Agrees: the content hash is not compared.
AgreesOnVersion(entry, p) == entry.version = p.payload.version /\ entry.tier = p.tier

\* What verify_lock compares of an entry and the pack of its id.
Agrees(entry, p) == entry.version = p.payload.version /\ entry.tier = p.tier /\ entry.hash = p.payload

\* load_lock and verify_lock: "agrees" if the packs are the locked ones.
VerifyLock(lock, selected) ==
  CASE lock = IllTyped -> "PACK_LOCK_INVALID"
    [] \E e, f \in lock : e # f /\ e.id = f.id -> "PACK_LOCK_DUPLICATE_ID"
    [] {e.id : e \in lock} # {p.payload.id : p \in selected} -> "PACK_LOCK_SET_MISMATCH"
    [] \E p \in selected : \E e \in lock : e.id = p.payload.id /\ ~ Agrees(e, p) -> "PACK_LOCK_MISMATCH"
    [] OTHER -> "agrees"
===============================================================================
