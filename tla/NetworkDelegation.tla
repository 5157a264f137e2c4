-------------------------- MODULE NetworkDelegation --------------------------
(***************************************************************************)
(* agentic_network_delegation.v1: delegations of capabilities, handoffs of *)
(* missions and declared relations.  A collection that is no list of       *)
(* records is IllTyped.  d indexes what the records refer to.              *)
(***************************************************************************)
EXTENDS NetworkFoundation

DefaultDepth == 1
MaxChainWalk == 16
HighRiskLevels == {"high", "critical"}

\* Here the last record of an identity stands for it, except among delegations and handoffs.
LastIndex(list) ==
  [id \in Ids(list) |-> list[CHOOSE i \in DOMAIN list : list[i].id = id /\ \A j \in (i + 1)..Len(list) : list[j].id # id]]
IndexRecords(document, network) ==
  [identities |-> LastIndex(document.identities), capabilities |-> LastIndex(document.capabilities),
   zones |-> LastIndex(network.zones), gates |-> LastIndex(network.gates), protocols |-> LastIndex(network.protocols),
   memberships |-> Elements(network.memberships),
   delegations |-> Index(Listed(network.delegations)), handoffs |-> Index(Listed(network.handoffs))]

Collections(network) == {network.delegations, network.handoffs, network.relations}
\* Ids that only spelling tells apart collide.
CollectionFindings(list) ==
  When(\E i, j \in DOMAIN list : list[i].id # list[j].id /\ CaseFold(list[i].id) = CaseFold(list[j].id), "AN_NORMALIZATION_COLLISION")

AllTargets(network) == {r.target : r \in Elements(network.revocations)} \ {None}

(***************************************************************************)
(* Who acts, and where.                                                    *)
(***************************************************************************)
MembersOf(identity, zone, d, revoked, asOf) ==
  {m \in d.memberships : /\ m.identity = identity /\ m.zone = zone
                         /\ EffectiveAt(m, "authorized", asOf) /\ <<"membership", m.id>> \notin revoked}

\* _identity_effectiveness, whatever the status of what the party takes part in.
PartyFindings(ref, role, d, revoked, asOf) ==
  IF ref \notin DOMAIN d.identities THEN {"AN_" \o role \o "_UNKNOWN"}
  ELSE When(~ EffectiveAt(d.identities[ref], "active", asOf), "AN_" \o role \o "_NOT_EFFECTIVE")
       \cup When(<<"agent_identity", ref>> \in revoked, "AN_" \o role \o "_REVOKED")

Between(source, target, d, action, item, kind) ==
  LET gates == {d.gates[g] : g \in item.gates \cap DOMAIN d.gates}
      Code(suffix) == kind \o suffix
  IN When(source \in DOMAIN d.zones /\ target \notin d.zones[source].targets, Code("_TRANSITION_NOT_ALLOWED"))
     \cup (IF item.gates = {} THEN {Code("_GATE_REQUIRED")}
           ELSE When(\E g \in gates : source \notin g.sources, Code("_GATE_SOURCE_MISMATCH"))
                \cup When(\E g \in gates : target \notin g.targets, Code("_GATE_TARGET_MISMATCH"))
                \cup When(source \in DOMAIN d.zones /\ \E g \in gates : g.id \notin d.zones[source].egress, Code("_EGRESS_GATE_MISSING"))
                \cup When(target \in DOMAIN d.zones /\ \E g \in gates : g.id \notin d.zones[target].ingress, Code("_INGRESS_GATE_MISSING"))
                \cup When(\A g \in gates : action \notin g.actions, Code("_GATE_ACTION_MISSING")))

\* _require_authority_references
AuthorityReferences(item, kind) ==
  When(NetworkApproval \notin item.approvals, kind \o "_APPROVAL_REQUIRED")
  \cup When(ContractReview \notin item.evidence, kind \o "_EVIDENCE_REQUIRED")

RecordReferences(item, target, network, d, known) ==
  RevocationReferences(item, target, network, AllTargets(network))
  \cup GovernanceReferences(item, known)
  \cup Unknown(item.policies, known.policies, "AN_POLICY_UNKNOWN")
  \cup Unknown(item.gates, DOMAIN d.gates, "AN_GATE_UNKNOWN")

(***************************************************************************)
(* Delegations.                                                            *)
(***************************************************************************)
IsDepth(value) == value \notin {None, IllTyped}
DepthsValid(x) == IsDepth(x.depth) /\ IsDepth(x.maxDepth)

DelegableFindings(x, c) ==
  When(c.delegable # TRUE, "AN_CAPABILITY_NOT_DELEGABLE")
  \cup When(x.actions = {} \/ ~ (x.actions \subseteq c.actions), "AN_DELEGATION_ACTION_ESCALATION")
  \cup When(x.scopes = {} \/ ~ (x.scopes \subseteq Canonical(c.scopes)), "AN_DELEGATION_SCOPE_ESCALATION")
  \cup When(IsDepth(x.maxDepth) /\ x.maxDepth > (IF c.depth = None THEN DefaultDepth ELSE c.depth), "AN_DELEGATION_DEPTH_POLICY_EXCEEDED")

DelegatorFindings(x, d, revoked, asOf) ==
  IF x.capability \notin d.identities[x.delegator].capabilities THEN {"AN_DELEGATOR_CAPABILITY_MISSING"}
  ELSE \* bound once: the memberships that assign it in the source zone
       UNION {When(assigned = {}, "AN_DELEGATOR_MEMBERSHIP_REQUIRED")
              \cup When(\/ Assignment("agent_identity", x.delegator, x.capability) \in revoked
                        \/ \E m \in assigned : Assignment("membership", m.id, x.capability) \in revoked,
                        "AN_DELEGATOR_CAPABILITY_REVOKED") :
                assigned \in {{m \in MembersOf(x.delegator, x.source, d, revoked, asOf) : x.capability \in m.capabilities}}}

WidenedActions(x, parent) == parent.actions # {} /\ ~ (x.actions \subseteq parent.actions)
WidenedScopes(x, parent) == parent.scopes # {} /\ ~ (x.scopes \subseteq parent.scopes)

\* Mutant of WideningFindings: a child may do what its parent may not.
WideningOfScopes(x, parent) == When(WidenedScopes(x, parent), "AN_DELEGATION_SCOPE_ESCALATION")

WideningFindings(x, parent) ==
  When(WidenedActions(x, parent), "AN_DELEGATION_ACTION_ESCALATION")
  \cup When(WidenedScopes(x, parent), "AN_DELEGATION_SCOPE_ESCALATION")

\* Of the parent neither the status nor a revocation is read.
ParentFindings(x, parent) ==
  When(parent.onward # "allowed_with_policy", "AN_ONWARD_DELEGATION_DENIED")
  \cup When(parent.delegate # x.delegator, "AN_DELEGATION_CHAIN_BROKEN")
  \cup When(parent.capability # x.capability, "AN_DELEGATION_CHAIN_CAPABILITY_MISMATCH")
  \cup When(DepthsValid(x) /\ IsDepth(parent.depth) /\ x.depth # parent.depth + 1, "AN_DELEGATION_DEPTH_INVALID")
  \cup When(DepthsValid(x) /\ IsDepth(parent.maxDepth) /\ x.maxDepth > parent.maxDepth, "AN_DELEGATION_DEPTH_POLICY_EXCEEDED")
  \cup WideningFindings(x, parent)
  \cup When(/\ \A t \in {x.from, x.until, parent.from, parent.until} : IsTime(t)
            /\ ~ (parent.from <= x.from /\ x.until <= parent.until),
            "AN_DELEGATION_INTERVAL_EXCEEDS_PARENT")

\* The delegation that one rests on after k steps, if there is one.
Ancestor(x, d) ==
  LET up[k \in 0..(MaxChainWalk - 1)] ==
        IF k = 0 THEN {x} ELSE {d.delegations[y] : y \in {z.parent : z \in up[k - 1]} \cap DOMAIN d.delegations}
  IN up

\* A walk that does not end met a delegation twice or its limit.
DepthFindings(x, d) ==
  (IF x.parent = None THEN When(DepthsValid(x) /\ x.depth # 0, "AN_DELEGATION_DEPTH_INVALID")
   ELSE IF x.parent \notin DOMAIN d.delegations THEN {"AN_DELEGATION_PARENT_UNKNOWN"}
   ELSE ParentFindings(x, d.delegations[x.parent]))
  \cup When(DepthsValid(x) /\ x.depth >= x.maxDepth, "AN_DELEGATION_DEPTH_EXCEEDED")
  \cup When(Ancestor(x, d)[MaxChainWalk - 1] # {}, "AN_DELEGATION_CHAIN_CYCLE")

AcrossZones(x) == x.source # x.target
NeedsApproval(x, d) ==
  AcrossZones(x) \/ (x.capability \in DOMAIN d.capabilities /\ d.capabilities[x.capability].risk \in HighRiskLevels)

DelegationFindings(x, network, d, known, revoked, asOf) ==
  PartyFindings(x.delegator, "DELEGATOR", d, revoked, asOf) \cup PartyFindings(x.delegate, "DELEGATE", d, revoked, asOf)
  \cup When(x.delegator = x.delegate, "AN_SELF_DELEGATION")
  \cup (IF x.capability \in DOMAIN d.capabilities THEN DelegableFindings(x, d.capabilities[x.capability]) ELSE {"AN_CAPABILITY_UNKNOWN"})
  \cup When(Sensitive \cap (x.scopes \cup x.actions) # {}, "AN_DELEGATION_SENSITIVE_SHARING")
  \cup Unknown({x.source, x.target}, DOMAIN d.zones, "AN_TRUST_ZONE_UNKNOWN")
  \cup (IF x.delegator \in DOMAIN d.identities /\ x.capability \in DOMAIN d.capabilities
        THEN DelegatorFindings(x, d, revoked, asOf) ELSE {})
  \cup When(x.delegate \in DOMAIN d.identities /\ MembersOf(x.delegate, x.target, d, revoked, asOf) = {}, "AN_DELEGATE_NOT_ELIGIBLE")
  \cup IntervalFindings(x, x.status = "active", asOf)
  \cup DepthFindings(x, d)
  \cup When(<<"delegation", x.id>> \in revoked /\ x.status = "active", "AN_DELEGATION_REVOKED")
  \cup RecordReferences(x, <<"delegation", x.id>>, network, d, known)
  \cup (IF AcrossZones(x) THEN Between(x.source, x.target, d, "delegate", x, "AN_DELEGATION") ELSE {})
  \cup (IF NeedsApproval(x, d) THEN AuthorityReferences(x, "AN_DELEGATION") ELSE {})

(***************************************************************************)
(* Handoffs.                                                               *)
(***************************************************************************)
\* The delegations to its target that it rests on.
Supporting(h, d) ==
  {d.delegations[x] : x \in {r \in h.delegations \cap DOMAIN d.delegations : d.delegations[r].delegate = h.target}}

Holds(h, c, d, revoked, asOf) ==
  /\ h.target \in DOMAIN d.identities /\ c \in d.identities[h.target].capabilities
  /\ \E m \in MembersOf(h.target, h.targetZone, d, revoked, asOf) : c \in m.capabilities

Receives(h, c, d, revoked, asOf) ==
  \E x \in Supporting(h, d) :
    /\ x.capability = c /\ x.target = h.targetZone
    /\ EffectiveAt(x, "active", asOf) /\ <<"delegation", x.id>> \notin revoked

AuthorityHanded(h, d, revoked, asOf) ==
  Unknown(h.capabilities, DOMAIN d.capabilities, "AN_CAPABILITY_UNKNOWN")
  \cup When(\E c \in h.capabilities \cap DOMAIN d.capabilities : ~ Holds(h, c, d, revoked, asOf) /\ ~ Receives(h, c, d, revoked, asOf),
            "AN_HANDOFF_AUTHORITY_ESCALATION")

SupportFindings(h, d) ==
  Unknown(h.delegations, DOMAIN d.delegations, "AN_HANDOFF_DELEGATION_UNKNOWN")
  \cup When(\E x \in h.delegations \cap DOMAIN d.delegations : d.delegations[x].delegate # h.target, "AN_HANDOFF_DELEGATION_MISMATCH")

HandoffParties(h, d, revoked, asOf) ==
  PartyFindings(h.source, "HANDOFF_SOURCE", d, revoked, asOf) \cup PartyFindings(h.target, "HANDOFF_TARGET", d, revoked, asOf)
  \cup When(h.source = h.target, "AN_HANDOFF_SELF")
  \cup Unknown({h.sourceZone, h.targetZone}, DOMAIN d.zones, "AN_TRUST_ZONE_UNKNOWN")
  \cup When(\E at \in {<<h.source, h.sourceZone>>, <<h.target, h.targetZone>>} :
              at[1] \in DOMAIN d.identities /\ MembersOf(at[1], at[2], d, revoked, asOf) = {},
            "AN_HANDOFF_MEMBERSHIP_REQUIRED")

HandoffShares(h, d) ==
  When(~ (Sensitive \subseteq h.never) \/ Sensitive \cap h.share # {}, "AN_HANDOFF_SENSITIVE_SHARING")
  \cup When(\E z \in {h.sourceZone, h.targetZone} \cap DOMAIN d.zones : ~ (h.share \ Sensitive \subseteq d.zones[z].share),
            "AN_HANDOFF_SHARE_NOT_ALLOWED")

SuccessorFindings(h, d) ==
  IF h.status = "superseded"
  THEN When(h.successor \notin DOMAIN d.handoffs \/ h.successor = h.id, "AN_HANDOFF_SUPERSEDED_REF_INVALID")
  ELSE When(h.successor # None, "AN_HANDOFF_STATUS_CONTRADICTION")

HandsAcross(h) == h.sourceZone # h.targetZone
HandoffNeedsApproval(h, d) ==
  HandsAcross(h) \/ \E c \in h.capabilities \cap DOMAIN d.capabilities : d.capabilities[c].risk \in HighRiskLevels

HandoffFindings(h, missions, network, d, known, revoked, asOf) ==
  HandoffParties(h, d, revoked, asOf)
  \cup Unknown({h.mission}, missions, "AN_HANDOFF_MISSION_UNKNOWN")
  \cup SupportFindings(h, d)
  \cup AuthorityHanded(h, d, revoked, asOf)
  \cup HandoffShares(h, d)
  \cup IntervalFindings(h, h.status \in {"initiated", "accepted"}, asOf)
  \cup SuccessorFindings(h, d)
  \cup When(<<"handoff", h.id>> \in revoked /\ h.status \in {"initiated", "accepted", "completed"}, "AN_HANDOFF_REVOKED")
  \cup RecordReferences(h, <<"handoff", h.id>>, network, d, known)
  \cup (IF HandsAcross(h) THEN Between(h.sourceZone, h.targetZone, d, "handoff", h, "AN_HANDOFF") ELSE {})
  \cup (IF HandoffNeedsApproval(h, d) THEN AuthorityReferences(h, "AN_HANDOFF") ELSE {})

(***************************************************************************)
(* Relations.                                                              *)
(***************************************************************************)
\* RELATION_ENDPOINT_KINDS: from what to what a relation may lead.
EndpointKinds ==
  [identifies |-> [source |-> {"agent_identity"}, target |-> {"membership", "protocol_target"}],
   owns |-> [source |-> {"agent_identity", "human_role"}, target |-> {"capability", "trust_zone", "protocol_target"}],
   advertises_capability |-> [source |-> {"agent_identity", "protocol_target"}, target |-> {"capability"}],
   delegates_to |-> [source |-> {"agent_identity"}, target |-> {"agent_identity"}],
   hands_off_to |-> [source |-> {"agent_identity"}, target |-> {"agent_identity"}],
   communicates_with |-> [source |-> {"agent_identity"}, target |-> {"agent_identity", "protocol_target"}],
   crosses_trust_zone |-> [source |-> {"agent_identity", "membership", "protocol_target"}, target |-> {"trust_zone"}],
   shares_with |-> [source |-> {"agent_identity", "trust_zone"}, target |-> {"agent_identity", "trust_zone", "protocol_target"}],
   requires_approval_from |->
     [source |-> {"agent_identity", "capability", "delegation", "handoff", "protocol_target"}, target |-> {"human_role"}],
   revokes |->
     [source |-> {"revocation"},
      target |-> {"agent_identity", "membership", "protocol_target", "delegation", "handoff", "approval"}],
   observed_by |->
     [source |-> {"agent_identity", "delegation", "handoff", "protocol_target"}, target |-> {"agent_identity", "human_role"}]]

\* The field of a relation that binds it to a record, where there is one.
RelationBinding == [delegates_to |-> "delegation", hands_off_to |-> "handoff", communicates_with |-> "protocol"]

DeclaredRoles(document) ==
  UNION {a.required \cup a.eligible \cup ({a.authority} \ {None}) : a \in Elements(Declarations(document))}

EndpointSets(document, composition, network, d, known) ==
  [agent_identity |-> DOMAIN d.identities, capability |-> DOMAIN d.capabilities, trust_zone |-> DOMAIN d.zones,
   membership |-> {m.id : m \in d.memberships}, protocol_target |-> DOMAIN d.protocols,
   delegation |-> DOMAIN d.delegations, handoff |-> DOMAIN d.handoffs, approval |-> known.approvals,
   revocation |-> Ids(network.revocations), human_role |-> ModuleRoles(composition) \cup DeclaredRoles(document)]

IsEndpoint(e, endpoints) == e.kind \in DOMAIN endpoints /\ e.ref \in endpoints[e.kind]
EndpointFindings(e, allowed, endpoints, code) ==
  When(e.kind \notin DOMAIN endpoints \cap allowed, "AN_RELATION_ENDPOINT_KIND_INVALID")
  \cup When(e.kind \in DOMAIN endpoints /\ ~ IsEndpoint(e, endpoints), code)

Identifies(r, d) ==
  IF r.target.kind = "membership" THEN \E m \in d.memberships : m.id = r.target.ref /\ m.identity = r.source.ref
  ELSE r.target.ref \in DOMAIN d.protocols /\ r.source.ref \in d.protocols[r.target.ref].identities

\* ends: the parties of the record the relation is bound to; asserted: it is in force.
BoundFindings(r, ends, asserted) ==
  When(ends # <<r.source.ref, r.target.ref>>, "AN_RELATION_REFERENCE_INCONSISTENT")
  \cup When(~ asserted, "AN_RELATION_CONTRADICTORY")

DelegatesFindings(r, d, revoked) ==
  CASE r.delegation = None -> {"AN_RELATION_DELEGATION_REF_REQUIRED"}
    [] r.delegation \notin DOMAIN d.delegations -> {"AN_RELATION_DELEGATION_UNKNOWN"}
    [] OTHER -> LET x == d.delegations[r.delegation]
                IN BoundFindings(r, <<x.delegator, x.delegate>>, x.status = "active" /\ <<"delegation", r.delegation>> \notin revoked)

HandsFindings(r, d, revoked) ==
  CASE r.handoff = None -> {"AN_RELATION_HANDOFF_REF_REQUIRED"}
    [] r.handoff \notin DOMAIN d.handoffs -> {"AN_RELATION_HANDOFF_UNKNOWN"}
    [] OTHER -> LET h == d.handoffs[r.handoff]
                IN BoundFindings(r, <<h.source, h.target>>,
                                 h.status \notin {"revoked", "rejected"} /\ <<"handoff", r.handoff>> \notin revoked)

RevocationKind(kind) == IF kind = "approval" THEN "approval_record" ELSE kind
Advertised(e, d) ==
  IF e.kind = "agent_identity"
  THEN IF e.ref \in DOMAIN d.identities THEN {d.identities[e.ref]} ELSE {}
  ELSE IF e.ref \in DOMAIN d.protocols THEN {d.protocols[e.ref]} ELSE {}

\* The zones an endpoint may leave from, and those whose allowlists bind it.
LeavesFrom(e, d) ==
  CASE e.kind = "agent_identity" -> {m.zone : m \in {x \in d.memberships : x.identity = e.ref}} \cap DOMAIN d.zones
    [] e.kind = "membership" -> {m.zone : m \in {x \in d.memberships : x.id = e.ref}} \cap DOMAIN d.zones
    [] e.kind = "protocol_target" /\ e.ref \in DOMAIN d.protocols -> {d.protocols[e.ref].source} \cap DOMAIN d.zones
    [] OTHER -> {}
SharesThrough(e, d, asOf) ==
  CASE e.kind = "trust_zone" -> {e.ref} \cap DOMAIN d.zones
    [] e.kind = "agent_identity" ->
         {m.zone : m \in {x \in d.memberships : x.identity = e.ref /\ EffectiveAt(x, "authorized", asOf)}} \cap DOMAIN d.zones
    [] OTHER -> {}

SharingFindings(r, d, asOf) ==
  When(r.share \cap Sensitive # {}, "AN_RELATION_SENSITIVE_SHARING")
  \cup When(\E zones \in {SharesThrough(e, d, asOf) : e \in {r.source, r.target}} :
              zones # {} /\ ~ (r.share \ Sensitive \subseteq UNION {d.zones[z].share : z \in zones}),
            "AN_RELATION_SHARE_NOT_ALLOWED")

CommunicationFindings(r, d) ==
  CASE r.protocol = None -> {}
    [] r.protocol \notin DOMAIN d.protocols -> {"AN_RELATION_PROTOCOL_UNKNOWN"}
    [] OTHER -> When(r.source.ref \notin d.protocols[r.protocol].identities, "AN_RELATION_REFERENCE_INCONSISTENT")

\* What a relation of a type asserts; exist: both its ends do.
TypeFindings(r, exist, composition, network, d, revoked, asOf) ==
  CASE r.type = "identifies" -> When(exist /\ ~ Identifies(r, d), "AN_RELATION_REFERENCE_INCONSISTENT")
    [] r.type = "delegates_to" -> DelegatesFindings(r, d, revoked)
    [] r.type = "hands_off_to" -> HandsFindings(r, d, revoked)
    [] r.type = "revokes" ->
         When(\E v \in Elements(network.revocations) :
                /\ v.id = r.source.ref /\ v.target # None
                /\ v.target # <<RevocationKind(r.target.kind), r.target.ref>>,
              "AN_RELATION_REFERENCE_INCONSISTENT")
    [] r.type = "requires_approval_from" -> When(r.target.ref \notin ModuleRoles(composition), "AN_RELATION_APPROVER_NOT_HUMAN")
    [] r.type = "advertises_capability" ->
         When(\E holder \in Advertised(r.source, d) : r.target.ref \notin holder.capabilities, "AN_RELATION_UNDECLARED_AUTHORITY")
    [] r.type = "crosses_trust_zone" ->
         When(exist /\ ~ \E z \in LeavesFrom(r.source, d) : r.target.ref \in d.zones[z].targets, "AN_RELATION_UNDECLARED_AUTHORITY")
    [] r.type = "shares_with" -> SharingFindings(r, d, asOf)
    [] r.type = "communicates_with" -> CommunicationFindings(r, d)
    [] OTHER -> {}

RelationFindings(r, endpoints, composition, network, d, revoked, asOf) ==
  IF r.type \notin DOMAIN EndpointKinds THEN {"AN_COLLECTION_MALFORMED"}
  ELSE UNION {EndpointFindings(r.source, EndpointKinds[r.type].source, endpoints, "AN_RELATION_SOURCE_UNKNOWN")
              \cup EndpointFindings(r.target, EndpointKinds[r.type].target, endpoints, "AN_RELATION_TARGET_UNKNOWN")
              \cup When(exist /\ r.source = r.target, "AN_RELATION_SELF_REFERENCE")
              \cup When(\E field \in {"delegation", "handoff", "protocol"} :
                          r[field] # None /\ (r.type \notin DOMAIN RelationBinding \/ RelationBinding[r.type] # field),
                        "AN_RELATION_REFERENCE_INCONSISTENT")
              \cup TypeFindings(r, exist, composition, network, d, revoked, asOf) :
                exist \in {IsEndpoint(r.source, endpoints) /\ IsEndpoint(r.target, endpoints)}}

(***************************************************************************)
(* The check.                                                              *)
(***************************************************************************)
\* _approval_action_coverage
CoverageFindings(document, needed) ==
  When(\E a \in Declares(document) : ~ (needed \subseteq a.actions), "AN_APPROVAL_ACTION_MISSING")
NeededActions(delegations, handoffs, d) ==
  (IF \E x \in Elements(delegations) : NeedsApproval(x, d) THEN {"delegate"} ELSE {})
  \cup (IF \E h \in Elements(handoffs) : HandoffNeedsApproval(h, d) THEN {"handoff"} ELSE {})

AllRecords(document, composition, network, d, known, revoked, endpoints, asOf) ==
  (UNION {DelegationFindings(x, network, d, known, revoked, asOf) : x \in Elements(Listed(network.delegations))})
  \cup (UNION {HandoffFindings(h, document.names.missions, network, d, known, revoked, asOf) : h \in Elements(Listed(network.handoffs))})
  \cup UNION {RelationFindings(r, endpoints, composition, network, d, revoked, asOf) : r \in Elements(Listed(network.relations))}

CheckedRecords(document, composition, network, d, known, asOf) ==
  AllRecords(document, composition, network, d, known, Revoked(network, AllTargets(network), asOf),
             EndpointSets(document, composition, network, d, known), asOf)

DelegationsOf(document, composition, network, d, asOf) ==
  When(IllTyped \in Collections(network), "AN_COLLECTION_MALFORMED")
  \cup Duplicates(Listed(network.delegations), "AN_DELEGATION_DUPLICATE")
  \cup Duplicates(Listed(network.handoffs), "AN_HANDOFF_DUPLICATE")
  \cup Duplicates(Listed(network.relations), "AN_RELATION_DUPLICATE")
  \cup (UNION {CollectionFindings(Listed(c)) : c \in Collections(network)})
  \cup CheckedRecords(document, composition, network, d, KnownReferences(document, composition), asOf)
  \cup CoverageFindings(document, NeededActions(Listed(network.delegations), Listed(network.handoffs), d))

AgenticNetworkDelegation(document, composition, asOf) ==
  IF document.network = None THEN {}
  ELSE DelegationsOf(document, composition, document.network, IndexRecords(document, document.network), asOf)

(***************************************************************************)
(* evaluate_structural_checks: what the checks that a composition selects  *)
(* find in a document.  The approvals and the evidence that several checks *)
(* rely on are the same for all of them.                                   *)
(***************************************************************************)
FoundationCheck == "agentic_network_foundation.v1"

\* STRUCTURAL_CHECKS without architecture_conformance.v1
KnownChecks ==
  {DelegationCheck, FoundationCheck, "change_control.v1", "evidence_integrity.v1",
   "exception_management.v1", "human_approval.v1", "separation_of_duties.v1"}

FindingsOf(check, document, composition, gates, usable, asOf, disk) ==
  CASE check = DelegationCheck -> AgenticNetworkDelegation(document, composition, asOf)
    [] check = FoundationCheck -> AgenticNetworkFoundation(document, composition, asOf)
    [] check = "change_control.v1" -> ChangeControl(document, gates, References(usable))
    [] check = "evidence_integrity.v1" -> EvidenceIntegrity(document, composition.evidence, usable, asOf, disk)
    [] check = "exception_management.v1" -> ExceptionManagement(document, composition.modules, gates, usable, asOf)
    [] check = "human_approval.v1" -> HumanApproval(document, gates, References(usable), asOf)
    [] check = "separation_of_duties.v1" -> SeparationOfDuties(document, gates, usable)

SelectedFindings(document, composition, gates, usable, asOf, disk) ==
  UNION {FindingsOf(c, document, composition, gates, usable, asOf, disk) : c \in composition.checks \cap KnownChecks}

StructuralFindings(document, composition, asOf, disk) ==
  IF asOf = BadTime THEN {"GOVERNANCE_TIME_INVALID"}
  ELSE When(~ (composition.checks \subseteq KnownChecks), "GOVERNANCE_STRUCTURAL_CHECK_UNKNOWN")
       \cup SelectedFindings(document, composition, Gates(document), UsableRecords(document), asOf, disk)
===============================================================================
