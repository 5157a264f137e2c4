-------------------------- MODULE NetworkFoundation --------------------------
(***************************************************************************)
(* agentic_network_foundation.v1: an agentic network, what its records    *)
(* refer to, what is in force and what is revoked, the revision and the    *)
(* human authority that it is bound to, and each record alone and against  *)
(* the records it refers to.                                               *)
(*                                                                         *)
(* document.network is None or a record of sequences of records, each with *)
(* an id (a capability's id is its name); references are sets, but for a   *)
(* capability's scopes and what a protocol shares.  A time is a number, or *)
(* None where it is malformed.  names holds the roles, contexts, other     *)
(* scopes, missions and policies that the rest of the document declares.   *)
(* composition is [checks, modules, approvals, evidence, policies].        *)
(***************************************************************************)
EXTENDS ExceptionRecords

CONSTANTS
  Immutable,      \* revisions that are content hashes
  Mutable,        \* revisions that are symbolic names
  LastSegment(_)  \* _producer_role

Sensitive == {"secrets", "credentials", "tokens", "private_memory"}
External == {"external", "external_contract_only", "contract_only"}
NetworkApproval == "agentic_network_authority"
ApprovalRecord == "approval_record"
ContractReview == "agentic_network_contract_review"
DelegationCheck == "agentic_network_delegation.v1"

(***************************************************************************)
(* Collections.                                                            *)
(***************************************************************************)
Ids(list) == {r.id : r \in Elements(list)}
\* _index_unique keeps the first record of an identity.
Index(list) ==
  [id \in Ids(list) |-> list[CHOOSE i \in DOMAIN list : list[i].id = id /\ \A j \in 1..(i - 1) : list[j].id # id]]
Duplicates(list, code) == When(Cardinality(Ids(list)) # Len(list), code)

IndexNetwork(document, network) ==
  [identities |-> Index(document.identities), capabilities |-> Index(document.capabilities),
   zones |-> Index(network.zones), memberships |-> Index(network.memberships),
   protocols |-> Index(network.protocols), gates |-> Index(network.gates)]

DuplicateFindings(document, network) ==
  Duplicates(document.identities, "AN_IDENTITY_DUPLICATE")
  \cup Duplicates(document.capabilities, "AN_CAPABILITY_DUPLICATE")
  \cup Duplicates(network.zones, "AN_TRUST_ZONE_DUPLICATE")
  \cup Duplicates(network.memberships, "AN_MEMBERSHIP_DUPLICATE")
  \cup Duplicates(network.protocols, "AN_PROTOCOL_TARGET_DUPLICATE")
  \cup Duplicates(network.gates, "AN_GATE_DUPLICATE")
  \cup Duplicates(network.revocations, "AN_REVOCATION_DUPLICATE")

Unknown(references, known, code) == When(~ (references \subseteq known), code)

\* A declared approval as it stands in the document; a saved form does not name its actions here.
Declaration(value) ==
  IF value.form = "source"
  THEN [value.source EXCEPT !.required = Canonical(@), !.eligible = Canonical(@), !.actions = Canonical(@)]
  ELSE [value.source EXCEPT !.actions = {}]
Declarations(document) == [i \in DOMAIN document.approvals |-> Declaration(document.approvals[i])]

\* _composition_reference_sets
KnownReferences(document, composition) ==
  [approvals |-> {a.id : a \in composition.approvals} \cup Ids(Declarations(document)),
   evidence |-> {e.id : e \in composition.evidence} \cup Ids(Records(document)),
   policies |-> composition.policies \cup document.names.policies]

GovernanceReferences(item, known) ==
  Unknown(item.approvals, known.approvals, "AN_APPROVAL_UNKNOWN")
  \cup Unknown(item.evidence, known.evidence, "AN_EVIDENCE_UNKNOWN")

(***************************************************************************)
(* Validity.                                                               *)
(***************************************************************************)
Proper(item) == IsTime(item.from) /\ IsTime(item.until) /\ item.from < item.until
Covers(item, asOf) == item.from <= asOf /\ asOf < item.until

IntervalFindings(item, applies, asOf) ==
  IF ~ Proper(item) THEN {"AN_AUTHORIZATION_INTERVAL_INVALID"}
  ELSE When(applies /\ asOf # None /\ asOf < item.from, "AN_AUTHORIZATION_NOT_YET_VALID")
       \cup When(applies /\ asOf # None /\ asOf >= item.until, "AN_AUTHORIZATION_EXPIRED")

\* _authorization_problem finds none.
EffectiveAt(item, status, asOf) == item.status = status /\ asOf # None /\ Proper(item) /\ Covers(item, asOf)

(***************************************************************************)
(* Revocations.  A target is <<kind, reference>>, of a capability          *)
(* <<"capability_assignment", kind, principal, capability>>.               *)
(***************************************************************************)
Assignment(kind, principal, capability) == <<"capability_assignment", kind, principal, capability>>
Listed(collection) == IF collection \in {None, IllTyped} THEN << >> ELSE collection

RevocationTargets(document, network, n) ==
  ({"agent_identity"} \X DOMAIN n.identities) \cup ({"membership"} \X DOMAIN n.memberships)
  \cup ({"protocol_target"} \X DOMAIN n.protocols) \cup ({"approval_record"} \X Ids(Records(document)))
  \cup ({"delegation"} \X Ids(Listed(network.delegations))) \cup ({"handoff"} \X Ids(Listed(network.handoffs)))
  \cup (UNION {{Assignment("agent_identity", i, c) : c \in n.identities[i].capabilities} : i \in DOMAIN n.identities})
  \cup UNION {{Assignment("membership", m, c) : c \in n.memberships[m].capabilities} : m \in DOMAIN n.memberships}

InEffect(revocation, asOf) == asOf # None /\ IsTime(revocation.at) /\ asOf >= revocation.at

Revoked(network, targets, asOf) ==
  {r.target : r \in {x \in Elements(network.revocations) : x.target \in targets /\ InEffect(x, asOf)}}

RevocationFindings(network, n, known, targets, revoked) ==
  (UNION {When(r.target \notin targets, "AN_REVOCATION_TARGET_UNKNOWN")
         \cup When(~ IsTime(r.at), "AN_REVOCATION_TIME_INVALID")
         \cup GovernanceReferences(r, known) : r \in Elements(network.revocations)})
  \cup When(\E t \in revoked :
              \/ t[1] = "agent_identity" /\ n.identities[t[2]].status \in {"active", "authorized"}
              \/ t[1] = "membership" /\ n.memberships[t[2]].status \in {"active", "authorized"}
              \/ t[1] \in {"capability_assignment", "protocol_target"},
            "AN_AUTHORIZATION_REVOKED")

\* The revocations an item refers to exist and are its own.
RevocationReferences(item, target, network, targets) ==
  Unknown(item.revocations, Ids(network.revocations), "AN_REVOCATION_UNKNOWN")
  \cup When(\E r \in Elements(network.revocations) : r.id \in item.revocations /\ r.target \in targets \ {target},
            "AN_REVOCATION_REFERENCE_MISMATCH")

(***************************************************************************)
(* The revision and the authority: _validate_revision_and_authority.       *)
(***************************************************************************)
\* An unsupported algorithm is malformed here.
ImmutableFindings(revision) ==
  CASE revision = None -> {"AN_REVISION_REQUIRED"}
    [] revision \in Immutable -> {}
    [] revision \in Mutable -> {"AN_REVISION_MUTABLE"}
    [] OTHER -> {"AN_REVISION_MALFORMED"}
Mismatch(revision, other) == When({revision, other} \subseteq Immutable /\ revision # other, "AN_REVISION_MISMATCH")

\* _canonical_evidence_record: the records of this identity and type, and what is wrong.
CanonicalRecords(document, id, type) == SelectSeq(Records(document), LAMBDA r : r.id = id /\ r.type = type)
CanonicalFindings(document, id, type, missing, wrong, ambiguous) ==
  When(\E r \in Elements(Records(document)) : r.id = id /\ r.type # type, wrong)
  \cup (CASE CanonicalRecords(document, id, type) = << >> -> {missing}
          [] Len(CanonicalRecords(document, id, type)) > 1 -> {ambiguous}
          [] OTHER -> {})

\* A record that is ambiguous is not looked at.
TheOnly(records) == IF Len(records) = 1 THEN Elements(records) ELSE {}

Reviews(composition) == {e \in composition.evidence : e.id = ContractReview}
ContractReviews(document, composition) ==
  UNION {TheOnly(CanonicalRecords(document, ContractReview, e.type)) : e \in Reviews(composition)}
ReviewFindings(document, composition) ==
  When(Reviews(composition) = {}, "AN_CONTRACT_REVIEW_REQUIREMENT_MISSING")
  \cup (UNION {CanonicalFindings(document, ContractReview, e.type, "AN_CONTRACT_REVIEW_MISSING",
                                "AN_CONTRACT_REVIEW_TYPE_INVALID", "AN_CONTRACT_REVIEW_AMBIGUOUS") : e \in Reviews(composition)})
  \cup CanonicalFindings(document, ApprovalRecord, "approval_record", "AN_APPROVAL_RECORD_MISSING",
                         "AN_APPROVAL_RECORD_TYPE_INVALID", "AN_APPROVAL_AMBIGUOUS")

\* The approval the modules demand, and the first that the document declares.
Required(composition) == {a \in composition.approvals : a.id = NetworkApproval}
ModuleRoles(composition) == UNION {a.required \cup a.eligible \cup ({a.authority} \ {None}) : a \in Required(composition)}
Declares(document) ==
  LET all == Declarations(document)
      named == {i \in DOMAIN all : all[i].id = NetworkApproval}
  IN {all[i] : i \in {j \in named : \A k \in named : j <= k}}

RolesContradict(d, a) ==
  \/ ~ (d.required \subseteq a.required \cup a.eligible \cup ({a.authority} \ {None})) \/ ~ (d.eligible \subseteq a.eligible)
  \/ ~ (a.required \subseteq d.required) \/ d.authority # a.authority
Contradicts(d, composition) ==
  \/ \E a \in Required(composition) : RolesContradict(d, a)
  \/ Required(composition) = {} /\ d.required \cup d.eligible # {}
  \/ ModuleRoles(composition) \cap (d.required \cup d.eligible) = {}

DeclarationFindings(d, network, composition, actions) ==
  When(Contradicts(d, composition), "AN_APPROVAL_DECLARATION_MODULE_CONTRADICTION")
  \cup When(~ (d.required \subseteq ModuleRoles(composition)) \/ ~ (d.eligible \subseteq AllOf(Required(composition), "eligible")),
            "AN_APPROVAL_DECLARED_ROLE_UNAUTHORIZED")
  \cup When(~ (AllOf(Required(composition), "required") \subseteq d.required), "AN_APPROVAL_MODULE_ROLE_OMITTED")
  \cup When(\E a \in Required(composition) : d.authority # a.authority, "AN_APPROVAL_ACCOUNTABLE_AUTHORITY_MISMATCH")
  \cup When(~ (actions \subseteq d.actions), "AN_APPROVAL_ACTION_MISSING")
  \cup LET bound == IF d.revision = None THEN None ELSE d.revision.revision
       IN ImmutableFindings(bound)
          \cup When(bound \in Immutable /\ (~ d.revision.exact \/ network.revision # bound), "AN_REVISION_MISMATCH")

\* expires_after, in the units of time.
MaximumAges(composition) == {a.expiresAfter : a \in Required(composition)} \ {None}

ProducerFindings(record, declared, composition) ==
  IF record.producer = IllTyped \/ record.producer.type # "human" THEN {"AN_APPROVAL_HUMAN_REQUIRED"}
  ELSE LET role == LastSegment(record.producer.id)
       IN IF role \notin ModuleRoles(composition) THEN {"AN_APPROVAL_PRODUCER_OUTSIDE_MODULE_AUTHORITY"}
          ELSE When(\E d \in declared : ~ Contradicts(d, composition) /\ role \notin d.required \cup d.eligible,
                    "AN_APPROVAL_ROLE_INVALID")

AgeFindings(record, ages, asOf) ==
  CASE ~ IsTime(record.generated) \/ ~ IsTime(record.expires) -> {"AN_APPROVAL_INTERVAL_INVALID"}
    [] record.generated >= record.expires -> {"AN_APPROVAL_INTERVAL_INVALID"}
    [] OTHER ->
         When(\E a \in ages : record.expires - record.generated > a, "AN_APPROVAL_EXPIRY_EXCESSIVE")
         \cup (CASE asOf = None -> {"AN_VALIDATION_TIME_REQUIRED"}
                 [] asOf < record.generated -> {"AN_APPROVAL_NOT_YET_VALID"}
                 [] OTHER -> When(asOf >= record.expires \/ \E a \in ages : asOf - record.generated >= a, "AN_APPROVAL_EXPIRED"))

RecordFindings(record, declared, composition, revoked, asOf) ==
  ProducerFindings(record, declared, composition)
  \cup When(record.status # "pass", "AN_APPROVAL_RECORD_INVALID")
  \cup When(<<"approval_record", ApprovalRecord>> \in revoked, "AN_APPROVAL_REVOKED")
  \cup AgeFindings(record, MaximumAges(composition), asOf)
  \cup When(/\ IsTime(record.generated)
            /\ \E d \in declared, a \in MaximumAges(composition) :
                 d.expiresAt \in {None, IllTyped, BadTime} \/ d.expiresAt > record.generated + a,
            "AN_APPROVAL_EXPIRY_EXCESSIVE")

AuthorityFindings(document, composition, network, revoked, actions, asOf) ==
  LET stated == IF document.evidence = None THEN None ELSE document.evidence.revision
      approval == TheOnly(CanonicalRecords(document, ApprovalRecord, "approval_record"))
  IN ImmutableFindings(network.revision) \cup ImmutableFindings(stated) \cup Mismatch(network.revision, stated)
     \cup ReviewFindings(document, composition)
     \cup (UNION {ImmutableFindings(r.revision) \cup Mismatch(network.revision, r.revision) :
                   r \in approval \cup ContractReviews(document, composition)})
     \cup When(Required(composition) = {}, "AN_APPROVAL_MODULE_REQUIREMENT_MISSING")
     \cup When(Declares(document) = {}, "AN_APPROVAL_DECLARATION_MISSING")
     \cup (UNION {DeclarationFindings(d, network, composition, actions) : d \in Declares(document)})
     \cup UNION {RecordFindings(r, Declares(document), composition, revoked, asOf) : r \in approval}

(***************************************************************************)
(* Each record, alone and against the records it refers to.                *)
(***************************************************************************)
IdentityFindings(i, document, network, n, targets, asOf) ==
  Unknown({i.role} \ {None}, document.names.roles, "AN_IDENTITY_ROLE_UNKNOWN")
  \cup Unknown(i.capabilities, DOMAIN n.capabilities, "AN_CAPABILITY_UNKNOWN")
  \cup RevocationReferences(i, <<"agent_identity", i.id>>, network, targets)
  \cup When(i.mayApprove, "AN_NON_HUMAN_APPROVAL_INVALID")
  \cup IntervalFindings(i, i.status = "active", asOf)

\* No two identities are one subject, or are bound to one agent of a framework.
SharedFindings(identities) ==
  When(\E i, j \in DOMAIN identities : i < j /\ identities[i].subject = identities[j].subject, "AN_IDENTITY_SUBJECT_DUPLICATE")
  \cup When(\E i, j \in DOMAIN identities : i < j /\ identities[i].bindings \cap identities[j].bindings # {},
            "AN_IDENTITY_BINDING_DUPLICATE")

ScopeFindings(scope, names) ==
  CASE scope \in names.contexts -> When(scope \in names.others, "AN_CAPABILITY_SCOPE_AMBIGUOUS")
    [] scope \in names.others -> {"AN_CAPABILITY_SCOPE_WRONG_KIND"}
    [] OTHER -> {"AN_CAPABILITY_SCOPE_UNKNOWN"}

CapabilityFindings(c, names, n, known, governed) ==
  When(Repeats(c.scopes), "AN_CAPABILITY_SCOPE_DUPLICATE")
  \cup When(~ c.scopedToContexts, "AN_CAPABILITY_SCOPE_CLASS_UNSUPPORTED")
  \cup (UNION {ScopeFindings(s, names) : s \in Canonical(c.scopes)})
  \cup When(c.delegable \notin BOOLEAN \/ (c.delegable = TRUE /\ ~ governed), "AN_DELEGATION_FORBIDDEN")
  \cup When(c.delegable = FALSE /\ c.depth # None, "AN_CAPABILITY_DELEGATION_POLICY_CONTRADICTION")
  \cup Unknown(c.gates, DOMAIN n.gates, "AN_GATE_UNKNOWN")
  \cup GovernanceReferences(c, known)
  \cup When(c.risk \in {"high", "critical"} /\ c.gates = {}, "AN_GATE_REQUIRED")

\* _sensitive_boundary
BoundaryFindings(shared, never) ==
  When(~ (Sensitive \subseteq never) \/ Sensitive \cap shared # {}, "AN_SENSITIVE_SHARE_BOUNDARY_MISSING")

ZoneFindings(z, n) ==
  Unknown(z.targets, DOMAIN n.zones, "AN_TRUST_ZONE_UNKNOWN")
  \cup Unknown(z.ingress \cup z.egress, DOMAIN n.gates, "AN_GATE_UNKNOWN")
  \cup (IF z.class \in External THEN BoundaryFindings(z.share, z.never) ELSE {})

MembershipFindings(m, network, n, targets, asOf) ==
  Unknown({m.identity}, DOMAIN n.identities, "AN_IDENTITY_UNKNOWN")
  \cup Unknown({m.zone}, DOMAIN n.zones, "AN_TRUST_ZONE_UNKNOWN")
  \cup Unknown(m.capabilities, DOMAIN n.capabilities, "AN_CAPABILITY_UNKNOWN")
  \cup When(m.identity \in DOMAIN n.identities /\ ~ (m.capabilities \subseteq n.identities[m.identity].capabilities),
            "AN_CAPABILITY_ESCALATION")
  \cup RevocationReferences(m, <<"membership", m.id>>, network, targets)
  \cup IntervalFindings(m, m.status = "authorized", asOf)

GateReferences(g, n, known) ==
  Unknown(g.sources \cup g.targets, DOMAIN n.zones, "AN_TRUST_ZONE_UNKNOWN")
  \cup GovernanceReferences(g, known)
  \cup Unknown(g.policies, known.policies, "AN_POLICY_UNKNOWN")

(***************************************************************************)
(* Protocol targets.                                                       *)
(***************************************************************************)
ProtocolReferences(p, n, known) ==
  Unknown(p.identities, DOMAIN n.identities, "AN_IDENTITY_UNKNOWN")
  \cup Unknown(p.memberships, DOMAIN n.memberships, "AN_MEMBERSHIP_UNKNOWN")
  \cup Unknown(p.capabilities, DOMAIN n.capabilities, "AN_CAPABILITY_UNKNOWN")
  \cup Unknown(p.gates, DOMAIN n.gates, "AN_GATE_UNKNOWN")
  \cup Unknown({p.source, p.target}, DOMAIN n.zones, "AN_TRUST_ZONE_UNKNOWN")
  \cup GovernanceReferences(p, known)
  \cup BoundaryFindings(Canonical(p.share), p.never)

IsExternal(zone, n) == zone \in DOMAIN n.zones /\ n.zones[zone].class \in External

SourceMembershipFindings(m, p, n, revoked, asOf) ==
  When(n.memberships[m].zone # p.source, "AN_PROTOCOL_MEMBERSHIP_WRONG_ZONE")
  \cup When(n.memberships[m].identity \notin p.identities, "AN_PROTOCOL_MEMBERSHIP_WRONG_IDENTITY")
  \cup When(~ EffectiveAt(n.memberships[m], "authorized", asOf), "AN_PROTOCOL_MEMBERSHIP_UNAUTHORIZED")
  \cup When(<<"membership", m>> \in revoked, "AN_PROTOCOL_MEMBERSHIP_REVOKED")

\* Each identity speaks through a membership in the source zone that assigns it each capability.
ThroughSource(i, p, n) ==
  {m \in p.memberships \cap DOMAIN n.memberships : n.memberships[m].identity = i /\ n.memberships[m].zone = p.source}
Assigning(c, memberships, n) == {m \in memberships : c \in n.memberships[m].capabilities}

SpeakerFindings(i, p, n, revoked, asOf) ==
  When(~ EffectiveAt(n.identities[i], "active", asOf), "AN_PROTOCOL_IDENTITY_UNAUTHORIZED")
  \cup When(<<"agent_identity", i>> \in revoked, "AN_PROTOCOL_IDENTITY_REVOKED")
  \cup When(ThroughSource(i, p, n) = {}, "AN_PROTOCOL_MEMBERSHIP_REQUIRED")
  \cup UNION {IF c \notin n.identities[i].capabilities \/ Assigning(c, ThroughSource(i, p, n), n) = {}
              THEN {"AN_PROTOCOL_CAPABILITY_UNAUTHORIZED"}
              ELSE When(\/ Assignment("agent_identity", i, c) \in revoked
                        \/ \E m \in Assigning(c, ThroughSource(i, p, n), n) : Assignment("membership", m, c) \in revoked,
                        "AN_PROTOCOL_CAPABILITY_REVOKED") : c \in p.capabilities}

\* What its capabilities do and which gates they need.
Used(p, n) == {n.capabilities[c] : c \in p.capabilities \cap DOMAIN n.capabilities}
ActionsOf(p, n) == (UNION {c.actions : c \in Used(p, n)}) \cup (IF IsExternal(p.target, n) THEN {"external_share"} ELSE {})
GatesOf(p, n) == {n.gates[g] : g \in p.gates \cap DOMAIN n.gates}

ProtocolGateFindings(g, p, n) ==
  When(p.source \notin g.sources, "AN_PROTOCOL_GATE_SOURCE_MISMATCH")
  \cup When(p.target \notin g.targets, "AN_PROTOCOL_GATE_TARGET_MISMATCH")
  \cup When(p.source \in DOMAIN n.zones /\ g.id \notin n.zones[p.source].egress, "AN_PROTOCOL_EGRESS_GATE_MISSING")
  \cup When(p.target \in DOMAIN n.zones /\ g.id \notin n.zones[p.target].ingress, "AN_PROTOCOL_INGRESS_GATE_MISSING")
  \cup When(IsExternal(p.target, n) /\ NetworkApproval \notin g.approvals, "AN_PROTOCOL_GATE_APPROVAL_MISSING")
  \cup When(IsExternal(p.target, n) /\ ContractReview \notin g.evidence, "AN_PROTOCOL_GATE_EVIDENCE_MISSING")

ProtocolGatesFindings(p, n) ==
  When(~ (UNION {c.gates : c \in Used(p, n)} \subseteq p.gates), "AN_PROTOCOL_CAPABILITY_GATE_MISSING")
  \cup When(p.gates = {}, "AN_PROTOCOL_GATE_REQUIRED")
  \cup (UNION {ProtocolGateFindings(g, p, n) : g \in GatesOf(p, n)})
  \cup When(~ (ActionsOf(p, n) \subseteq UNION {g.actions : g \in GatesOf(p, n)}), "AN_PROTOCOL_GATE_ACTION_MISMATCH")
  \cup When(IsExternal(p.target, n) /\ NetworkApproval \notin p.approvals, "AN_PROTOCOL_APPROVAL_REQUIRED")
  \cup When(IsExternal(p.target, n) /\ ContractReview \notin p.evidence, "AN_PROTOCOL_EVIDENCE_REQUIRED")

Allowlist(zone, n) == IF zone \in DOMAIN n.zones THEN n.zones[zone].share ELSE {}
ShareFindings(p, n) ==
  LET source == Allowlist(p.source, n)
      target == Allowlist(p.target, n)
      shared == Canonical(p.share)
  IN When(Repeats(p.share), "AN_SHARE_CATEGORY_DUPLICATE")
     \cup When(~ (shared \subseteq source \cup target), "AN_SHARE_CATEGORY_UNKNOWN")
     \cup When((shared \cap target) \ source # {}, "AN_SHARE_NOT_ALLOWED_SOURCE")
     \cup When((shared \cap source) \ target # {}, "AN_SHARE_NOT_ALLOWED_TARGET")

ProtocolFindings(p, n, known, revoked, asOf) ==
  ProtocolReferences(p, n, known)
  \cup When(<<"protocol_target", p.id>> \in revoked, "AN_PROTOCOL_REVOKED")
  \cup When(p.source \in DOMAIN n.zones /\ p.target \notin n.zones[p.source].targets, "AN_PROTOCOL_TRANSITION_NOT_ALLOWED")
  \cup (UNION {SourceMembershipFindings(m, p, n, revoked, asOf) : m \in p.memberships \cap DOMAIN n.memberships})
  \cup (UNION {SpeakerFindings(i, p, n, revoked, asOf) : i \in p.identities \cap DOMAIN n.identities})
  \cup ProtocolGatesFindings(p, n)
  \cup ShareFindings(p, n)

(***************************************************************************)
(* The check.                                                              *)
(***************************************************************************)
Governed(composition) == DelegationCheck \in composition.checks
ExternalActions(network, n) ==
  IF \E p \in Elements(network.protocols) : IsExternal(p.target, n) THEN {"external_share"} ELSE {}

RecordsFindings(document, network, n, known, targets, revoked, governed, asOf) ==
  (UNION {IdentityFindings(i, document, network, n, targets, asOf) : i \in Elements(document.identities)})
  \cup (UNION {CapabilityFindings(c, document.names, n, known, governed) : c \in Elements(document.capabilities)})
  \cup (UNION {ZoneFindings(z, n) : z \in Elements(network.zones)})
  \cup (UNION {MembershipFindings(m, network, n, targets, asOf) : m \in Elements(network.memberships)})
  \cup (UNION {ProtocolFindings(p, n, known, revoked, asOf) : p \in Elements(network.protocols)})
  \cup UNION {GateReferences(g, n, known) : g \in Elements(network.gates)}

FoundationOf(document, composition, network, n, known, targets, revoked, asOf) ==
  When(~ Governed(composition) /\ \E c \in {network.delegations, network.handoffs, network.relations} : c \notin {None, << >>},
       "AN_DELEGATION_GOVERNANCE_MISSING")
  \cup DuplicateFindings(document, network)
  \cup SharedFindings(document.identities)
  \cup AuthorityFindings(document, composition, network, revoked, ExternalActions(network, n), asOf)
  \cup RevocationFindings(network, n, known, targets, revoked)
  \cup RecordsFindings(document, network, n, known, targets, revoked, Governed(composition), asOf)

FoundationFindings(document, composition, network, n, known, targets, asOf) ==
  FoundationOf(document, composition, network, n, known, targets, Revoked(network, targets, asOf), asOf)
FoundationIn(document, composition, network, n, asOf) ==
  FoundationFindings(document, composition, network, n, KnownReferences(document, composition),
                     RevocationTargets(document, network, n), asOf)

AgenticNetworkFoundation(document, composition, asOf) ==
  IF document.network = None THEN {}
  ELSE FoundationIn(document, composition, document.network, IndexNetwork(document, document.network), asOf)
===============================================================================
