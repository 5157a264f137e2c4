------------------------- MODULE GovernanceComposition -------------------------
(***************************************************************************)
(* compose_governance: the requirements of a profile and of the modules it *)
(* brings in, merged into one set of controls, or a reason why they cannot *)
(* be; and what these controls say of one document.                        *)
(*                                                                         *)
(* A document is [profile, modules, sound, tree]: project.profile,         *)
(* project.modules (a set of names, or IllTyped), whether the static       *)
(* checker finds no error in it, and its blocks as a tree.                 *)
(***************************************************************************)
EXTENDS PackRegistry, RuleEngine

CONSTANTS
  MaxComposedRules, MaxComposedSchemas, MaxComposedChecks,
  StructuralFindings(_, _)  \* the findings [level, code] of one structural check on a document

Ids(items) == {items[i].id : i \in DOMAIN items}
\* The entries a selection has under an identity.
EntriesOf(selected, field, id) ==
  UNION {{p.payload[field][i] : i \in {j \in DOMAIN p.payload[field] : p.payload[field][j].id = id}} : p \in selected}

\* An identity twice in one pack is an author's error.
DuplicateIds(p) ==
  \E field \in {"policies", "evidence", "approvals", "evaluations", "rules"} :
    \E i, j \in DOMAIN p.payload[field] : i < j /\ p.payload[field][i].id = p.payload[field][j].id

\* Two entries of one identity give a field two values (None is a field that is not there).
Contradictory(entries, field) == Cardinality({e[field] : e \in entries} \ {None}) > 1
FieldOf(entries, field) ==
  LET values == {e[field] : e \in entries} \ {None} IN IF values = {} THEN None ELSE CHOOSE v \in values : TRUE

All(entries, field) == UNION {e[field] : e \in entries}

\* _merge_policy: what any layer denies or requires stays denied or required.
MergedPolicies(selected) ==
  {[id |-> id, text |-> FieldOf(EntriesOf(selected, "policies", id), "text"),
    deny |-> All(EntriesOf(selected, "policies", id), "deny"),
    require |-> All(EntriesOf(selected, "policies", id), "require")] :
     id \in UNION {Ids(p.payload.policies) : p \in selected}}

\* _merge_evidence; every requirement is mandatory by the pack schema.
MergedEvidence(selected) ==
  {[id |-> id, type |-> FieldOf(EntriesOf(selected, "evidence", id), "type")] :
     id \in UNION {Ids(p.payload.evidence) : p \in selected}}

\* _merge_evaluation
MergedEvaluations(selected) ==
  {[id |-> id, metrics |-> All(EntriesOf(selected, "evaluations", id), "metrics"),
    evidence |-> All(EntriesOf(selected, "evaluations", id), "evidence")] :
     id \in UNION {Ids(p.payload.evaluations) : p \in selected}}

\* A rule is named within its pack.
MergedRules(selected) ==
  UNION {{[r EXCEPT !.id = <<p.payload.id, r.id>>] : r \in Elements(p.payload.rules)} : p \in selected}

MergeConflict(selected) ==
  \/ \E id \in UNION {Ids(p.payload.policies) : p \in selected} :
       Contradictory(EntriesOf(selected, "policies", id), "text")
  \/ \E id \in UNION {Ids(p.payload.evidence) : p \in selected} :
       Contradictory(EntriesOf(selected, "evidence", id), "type")

SchemaConflict(selected) ==
  LET bindings == UNION {p.payload.schemas : p \in selected}
  IN \E b, c \in bindings : b[1] = c[1] /\ b[2] # c[2]

(***************************************************************************)
(* Approvals.                                                              *)
(***************************************************************************)
\* _approval_provenance
Provenance(p, i) ==
  [id |-> p.payload.id, kind |-> p.payload.kind, version |-> p.payload.version, tier |-> p.tier,
   source |-> p.path, path |-> ApprovalPath(p.payload.id, i), index |-> i, hash |-> p.payload]

Leaf(p, i) == [approval |-> PackApproval(p.payload, i), provenance |-> Provenance(p, i)]
Leaves(selected) == UNION {{Leaf(p, i) : i \in DOMAIN p.payload.approvals} : p \in selected}
LeavesOf(selected, id) == {l \in Leaves(selected) : l.approval.id = id}
ApprovalIds(selected) == {l.approval.id : l \in Leaves(selected)}

\* _normalize_pack_approval
EmptyRequirement(a) == a.required \cup a.eligible \cup a.evidence \cup a.actions = {}

EffectiveApprovals(selected) ==
  {ComposeEffectiveApproval(LeavesOf(selected, id)) : id \in ApprovalIds(selected)}

(***************************************************************************)
(* The whole composition.  lock is the lock file, or Absent.               *)
(***************************************************************************)
Merged(profile, modules, selected, lock, effective) ==
  LET rules == MergedRules(selected)
      schemas == UNION {p.payload.schemas : p \in selected}
      checks == UNION {p.payload.checks : p \in selected}
  IN CASE SelectedConflicts(selected) # {} -> Failed("PACK_DECLARED_CONFLICT")
       [] lock = Absent /\ \E p \in selected : p.tier = "org" -> Failed("PACK_LOCK_REQUIRED")
       [] lock # Absent /\ VerifyLock(lock.entries, selected) # "agrees" -> Failed(VerifyLock(lock.entries, selected))
       [] SchemaConflict(selected) -> Failed("PACK_BLOCK_SCHEMA_CONFLICT")
       [] \E p \in selected : DuplicateIds(p) -> Failed("PACK_DUPLICATE_ID")
       [] MergeConflict(selected) -> Failed("PACK_MONOTONICITY_CONFLICT")
       [] \E l \in Leaves(selected) : l.approval.resolution = "invalid" -> Failed("APPROVAL_INVALID")
       [] \E l \in Leaves(selected) : EmptyRequirement(l.approval) -> Failed("APPROVAL_EMPTY_REQUIREMENT")
       [] Cardinality(rules) > MaxComposedRules \/ Cardinality(schemas) > MaxComposedSchemas
            \/ Cardinality(checks) > MaxComposedChecks -> Failed("PACK_LIMIT_EXCEEDED")
       [] \E e \in effective : e.status # "composed" -> Failed("PACK_MONOTONICITY_APPROVAL")
       [] OTHER ->
            [profile |-> profile, modules |-> modules, selected |-> selected,
             blocks |-> UNION {p.payload.blocks : p \in selected},
             nonGoals |-> UNION {p.payload.nonGoals : p \in selected},
             schemas |-> schemas, checks |-> checks,
             policies |-> MergedPolicies(selected), evidence |-> MergedEvidence(selected),
             evaluations |-> MergedEvaluations(selected), approvals |-> effective, rules |-> rules]
MergedFrom(profile, modules, selected, lock) ==
  Merged(profile, modules, selected, lock, EffectiveApprovals(selected))

ComposeFrom(profile, order, lock) ==
  IF Ok(order)
  THEN MergedFrom(profile, order.modules, order.modules \cup (IF profile = None THEN {} ELSE {profile}), lock)
  ELSE order
ComposeWith(registry, profile, moduleIds, lock) ==
  IF profile # None /\ ~ Ok(profile) THEN profile
  ELSE ComposeFrom(profile, DependencyOrder(registry, profile, moduleIds), lock)
Compose(registry, profileIdentity, moduleIds, lock) ==
  ComposeWith(registry, IF profileIdentity = None THEN None ELSE ResolveIdentity(registry, "profile", profileIdentity),
              moduleIds, lock)

(***************************************************************************)
(* A saved effective approval.                                             *)
(***************************************************************************)
\* Mutant of TrustedLeaf: the pack is only looked up, not compared with what was recorded of it.
TrustedLeafByName(leaf, registry) ==
  \E p \in registry.packs :
    p.payload.kind = leaf.provenance.kind /\ p.payload.id = leaf.provenance.id
      /\ leaf.provenance.index \in DOMAIN p.payload.approvals

\* _trusted_provenance_source: the registry has the very pack, and the approval is its entry.
TrustedLeaf(leaf, registry) ==
  \E p \in registry.packs :
    /\ p.payload.kind = leaf.provenance.kind /\ p.payload.id = leaf.provenance.id
    /\ leaf.provenance.index \in DOMAIN p.payload.approvals
    /\ leaf.provenance = Provenance(p, leaf.provenance.index)
    /\ leaf.approval.source = p.payload.approvals[leaf.provenance.index]
    /\ leaf.approval.shape = "generated_profile_approval" /\ leaf.approval.path = leaf.provenance.path

\* trusted_effective_approval; registry is None where the caller has none.
TrustedEffective(item, registry) ==
  /\ item.leaves # {} /\ Cardinality(item.leaves) <= MaxSources
  /\ \A l \in item.leaves :
       /\ TrustedNormalized(l.approval)
       /\ IF l.provenance.tier = "builtin" THEN TrustedLeaf(l, BuiltinRegistry)
          ELSE registry # None /\ TrustedLeaf(l, registry)
  /\ ComposeEffectiveApproval(item.leaves) = item /\ item.status = "composed"

(***************************************************************************)
(* Governance of a document: composing it and evaluating it.               *)
(***************************************************************************)
\* A finding of no rule.
Report(level, code) == [rule |-> << >>, level |-> level, code |-> code, binding |-> {}]
HasErrorLevel(findings) == \E f \in findings : f.level = "error"

Unresolvable(document, registry) ==
  document.profile # None /\ ~ Ok(ResolveIdentity(registry, "profile", document.profile))

(***************************************************************************)
(* compose_document_governance: None if the document selects no pack.  A   *)
(* profile no pack answers to counts as none, unless modules are selected. *)
(***************************************************************************)
ComposeDocument(document, registry, lock) ==
  CASE document.modules = IllTyped -> Failed("PACK_MODULE_SELECTION_INVALID")
    [] document.modules = {} /\ (document.profile = None \/ Unresolvable(document, registry)) -> None
    [] OTHER -> Compose(registry, document.profile, document.modules, lock)

\* The lock is read only if there is something to compose.
ReadsLock(document, registry) ==
  /\ document.modules # IllTyped
  /\ document.modules # {} \/ (document.profile # None /\ ~ Unresolvable(document, registry))

RequiredBlocks(composition) == UNION {m.payload.blocks : m \in composition.modules}

\* A block is valid under its schema if it is a mapping.
BlockFindings(document, composition) ==
  {Report("error", "GOVERNANCE_REQUIRED_BLOCK_MISSING") :
     b \in {x \in RequiredBlocks(composition) : x \notin DOMAIN document.tree.f}}
  \cup {Report("error", "GOVERNANCE_BLOCK_SCHEMA_INVALID") :
          s \in {x \in composition.schemas : x[1] \in DOMAIN document.tree.f /\ document.tree.f[x[1]].t # "map"}}

\* evaluate_document_governance, given what composing the document gave.
Evaluate(document, registry, composition) ==
  IF composition = None
  THEN IF Unresolvable(document, registry) THEN {Report("warning", "PACK_NOT_RESOLVED")} ELSE {}
  ELSE BlockFindings(document, composition)
       \cup EvaluateRules(document.tree, composition.rules)
       \cup UNION {{Report(f.level, f.code) : f \in StructuralFindings(check, document)} : check \in composition.checks}
===============================================================================
