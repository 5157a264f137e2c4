--------------------------- MODULE GovernanceApproval ---------------------------
(***************************************************************************)
(* Approval requirements: the normalisation of one declared approval, the  *)
(* composition of the requirements that several packs declare under one    *)
(* identity, and the test whether a saved composition can be trusted.      *)
(***************************************************************************)
EXTENDS Naturals, FiniteSets, Sequences

CONSTANTS
  None,        \* an absent field
  IllTyped,    \* a value that is not a canonical, non-empty string
  CoreDenied,  \* CORE_DENIED_ACTOR_TYPES
  NonHuman,    \* the values is_non_human_authority holds of
  Surface,     \* "execution_surface"
  MaxSources   \* MAX_EFFECTIVE_APPROVAL_SOURCES

Timings == {"before_action", "before_merge", "before_release", "before_external_write", "unspecified", "legacy_text"}

\* A declared approval: the fields that hold a list of strings, and those that hold one value.
ListFields == {"eligible", "required", "surfaces", "denied", "evidence", "actions", "invalidation"}
Declared(fields) ==
  [f \in ListFields \cup {"id", "authority", "exact", "expiresAfter", "timing", "revision", "expiresAt", "strange"} |->
     IF f \in DOMAIN fields THEN fields[f]
     ELSE IF f \in ListFields THEN << >> ELSE IF f \in {"exact", "strange"} THEN FALSE ELSE None]

Elements(list) == {list[i] : i \in DOMAIN list}
Canonical(list) == Elements(list) \ {IllTyped}
Repeats(list) == \E i, j \in DOMAIN list : i < j /\ list[i] = list[j] /\ list[i] # IllTyped

DeniedSurfaces(source) ==
  Canonical(source.surfaces) \cup (Canonical(source.denied) \cap {Surface})
DeniedActors(source) == Canonical(source.denied) \ DeniedSurfaces(source)

\* The diagnostics of level error.
ApprovalErrors(source, shape) ==
  LET eligible == Canonical(source.eligible)
      required == Canonical(source.required)
      If(condition, code) == IF condition THEN {code} ELSE {}
  IN If(\E f \in ListFields \ {"invalidation"} : IllTyped \in Elements(source[f]), "VALUE_TYPE_INVALID")
     \cup If(IllTyped \in Elements(source.invalidation) \/ Repeats(source.invalidation), "INVALIDATION_CONDITION_INVALID")
     \cup If(source.strange, "UNKNOWN_ROLE_FIELD")
     \cup If((eligible \cup required) \cap NonHuman # {}, "CORE_DENIED_ACTOR_ELIGIBLE")
     \cup If(eligible \cap (DeniedActors(source) \cup DeniedSurfaces(source)) # {}, "ACTOR_ELIGIBLE_AND_DENIED")
     \cup If(~ (required \subseteq eligible), "REQUIRED_ROLE_NOT_ELIGIBLE")
     \cup If(shape = "governed_package_gate" /\ eligible = {}, "MISSING_ELIGIBLE_ROLES")
     \cup If(shape = "governed_package_gate"
                /\ eligible \cup required = {} /\ Canonical(source.evidence) \cup Canonical(source.actions) = {},
             "EMPTY_REQUIREMENT")
     \cup If(source.authority = IllTyped, "ACCOUNTABLE_AUTHORITY_INVALID")
     \cup If(source.authority \in NonHuman, "NON_HUMAN_AUTHORITY")
     \cup If(source.exact = IllTyped, "EXACT_REVISION_REQUIREMENT_INVALID")
     \cup If(source.expiresAfter = IllTyped, "EXPIRY_REQUIREMENT_INVALID")
     \cup If(source.id = IllTyped, "IDENTITY_INVALID")
     \cup If(source.timing \notin Timings \cup {None}, "TIMING_INVALID")
     \cup If(source.revision = IllTyped, "REVISION_BINDING_INVALID")
     \cup If(source.expiresAt = IllTyped, "EXPIRY_INVALID")

Resolution(errors, shape) ==
  CASE errors # {} -> "invalid"
    [] shape = "legacy_contract_reference" -> "reference_only"
    [] shape = "legacy_goal_text" -> "legacy_text_preserved"
    [] shape = "legacy_boolean_requirement" -> "requirement_only"
    [] OTHER -> "complete"

TrustedResolutions == {"complete", "reference_only", "legacy_text_preserved", "requirement_only"}

\* A value that is not well formed is dropped, with an error.
Sound(value, unfit) == IF value \in unfit THEN None ELSE value

\* path stands for the fallback identity too, which is derived from it.
NormalizedWith(source, shape, path, errors) ==
  LET default == IF shape = "legacy_goal_text" THEN "legacy_text" ELSE "unspecified"
  IN [id |-> IF source.id \in {None, IllTyped} THEN path ELSE source.id,
      eligible |-> Canonical(source.eligible), required |-> Canonical(source.required),
      deniedActors |-> DeniedActors(source), deniedSurfaces |-> DeniedSurfaces(source),
      evidence |-> Canonical(source.evidence), actions |-> Canonical(source.actions),
      invalidation |-> Canonical(source.invalidation),
      timing |-> IF source.timing \in Timings THEN source.timing ELSE default,
      authority |-> Sound(source.authority, NonHuman \cup {IllTyped}),
      revision |-> Sound(source.revision, {IllTyped}),
      exact |-> source.exact = TRUE,
      expiresAfter |-> Sound(source.expiresAfter, {IllTyped}),
      expiresAt |-> Sound(source.expiresAt, {IllTyped}),
      errors |-> errors, resolution |-> Resolution(errors, shape),
      source |-> source, shape |-> shape, path |-> path]
NormalizeApproval(source, shape, path) == NormalizedWith(source, shape, path, ApprovalErrors(source, shape))

\* trusted_normalized_approval: what it claims is derived again from the source it retains.
TrustedNormalized(item) ==
  item = NormalizeApproval(item.source, item.shape, item.path) /\ item.resolution \in TrustedResolutions

(***************************************************************************)
(* Composition.  A leaf is [approval, provenance]; provenance says which   *)
(* entry of which pack the approval was read from.                         *)
(***************************************************************************)
Refused(code) == [status |-> code]

Union(leaves, field) == UNION {l.approval[field] : l \in leaves}
DeclaredValues(leaves, field) ==
  {l.approval[field] : l \in leaves} \ (IF field = "timing" THEN {"unspecified"} ELSE {None})
TheValue(leaves, field, default) ==
  IF DeclaredValues(leaves, field) = {} THEN default
  ELSE CHOOSE v \in DeclaredValues(leaves, field) : TRUE

Restricted(leaves) == {l \in leaves : l.approval.eligible # {}}

\* Mutant of EligibleRoles: a role that one layer accepts is eligible.
EligibleRolesUnion(leaves) == Union(leaves, "eligible")

\* intersection_of_non_empty_sets
EligibleRoles(leaves) ==
  {r \in Union(leaves, "eligible") : \A l \in Restricted(leaves) : r \in l.approval.eligible}

ScalarFields == {"timing", "authority", "revision", "expiresAfter", "expiresAt"}

ComposeEffectiveApproval(leaves) ==
  LET eligible == EligibleRoles(leaves)
      required == Union(leaves, "required")
      actors == Union(leaves, "deniedActors") \cup CoreDenied
      surfaces == Union(leaves, "deniedSurfaces") \cup {Surface}
  IN CASE Cardinality(leaves) > MaxSources \/ leaves = {} -> Refused("PACK_APPROVAL_SOURCE_LIMIT_EXCEEDED")
       [] \E l \in leaves : l.approval.resolution # "complete" \/ ~ TrustedNormalized(l.approval) ->
            Refused("APPROVAL_INVALID")
       [] \E l, m \in leaves : l # m /\ l.provenance = m.provenance -> Refused("PACK_APPROVAL_PROVENANCE_INVALID")
       [] \/ \E l, m \in leaves : l.approval.id # m.approval.id
          \/ ~ (required \subseteq eligible)
          \/ Cardinality(Restricted(leaves)) > 1 /\ eligible = {}
          \/ eligible \cap (actors \cup surfaces) # {}
          \/ \E f \in ScalarFields : \E v, w \in DeclaredValues(leaves, f) : v # w ->
            Refused("PACK_MONOTONICITY_APPROVAL")
       [] \E l \in leaves : l.approval.path # l.provenance.path -> Refused("PACK_APPROVAL_PROVENANCE_INVALID")
       [] OTHER ->
            [status |-> "composed",
             id |-> (CHOOSE l \in leaves : TRUE).approval.id,
             eligible |-> eligible, required |-> required,
             deniedActors |-> actors, deniedSurfaces |-> surfaces,
             evidence |-> Union(leaves, "evidence"), actions |-> Union(leaves, "actions"),
             invalidation |-> Union(leaves, "invalidation"),
             exact |-> \E l \in leaves : l.approval.exact,
             timing |-> TheValue(leaves, "timing", "unspecified"),
             authority |-> TheValue(leaves, "authority", None),
             revision |-> TheValue(leaves, "revision", None),
             expiresAfter |-> TheValue(leaves, "expiresAfter", None),
             expiresAt |-> TheValue(leaves, "expiresAt", None),
             leaves |-> leaves]
===============================================================================
