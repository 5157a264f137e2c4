--------------------------- MODULE EventReferences ---------------------------
(***************************************************************************)
(* What validate_runtime_events of agentic_evidence.py reports about the   *)
(* references of one event e that carries the timestamp ts, against the    *)
(* contract: a second reading of the contract, written independently of    *)
(* the decision core.  An event is a record of the fields Authorizer names *)
(* (NoReferences there); NoRef is an absent field.                         *)
(***************************************************************************)
EXTENDS NetworkContract

\* _interval_contains
Contains(item, ts) == item.from <= ts /\ ts < item.until

Revoked(c, target, ts) == \E r \in c.revocations : r.target = target /\ ts >= r.at

Effective(c, ref, ts) ==
  /\ ref \in DOMAIN c.identities
  /\ c.identities[ref].active /\ Contains(c.identities[ref], ts)
  /\ ~Revoked(c, IdentityTarget(ref), ts)

Holds(c, actor, capability, ts) ==
  /\ actor \in DOMAIN c.identities /\ capability \in c.identities[actor].capabilities
  /\ \E m \in DOMAIN c.memberships :
       LET member == c.memberships[m]
       IN  /\ member.identity = actor /\ member.authorized /\ Contains(member, ts)
           /\ ~Revoked(c, MembershipTarget(m), ts)
           /\ capability \in member.capabilities

\* Mutant of Receives: a delegation is taken at its word.
ReceivesByRecord(c, actor, capability, d, ts) ==
  d \in DOMAIN c.delegations /\ c.delegations[d].delegate = actor

\* delegated_capability: by the delegation the event itself names, never another.
Receives(c, actor, capability, d, ts) ==
  /\ d \in DOMAIN c.delegations
  /\ c.delegations[d].delegate = actor /\ c.delegations[d].capability = capability
  /\ c.delegations[d].active /\ Contains(c.delegations[d], ts)
  /\ ~Revoked(c, DelegationTarget(d), ts)

\* module_roles: whoever the composed network approval names.
ModuleRoles(c) ==
  IF NetworkApproval \in DOMAIN c.approvals
  THEN (c.approvals[NetworkApproval].roles \cup {c.approvals[NetworkApproval].authority}) \ {NoRef}
  ELSE {}

-----------------------------------------------------------------------------
(* The diagnostics; each operator is the set of codes of one aspect.       *)

When(condition, code) == IF condition THEN {code} ELSE {}

\* _REQUIRED_FIELDS_BY_TYPE
RequiredFields(type) ==
  CASE type \in {"capability_requested", "capability_allowed", "capability_denied", "tool_invoked"}
              -> {"capability"}
    [] type \in {"delegation_requested", "delegation_accepted", "delegation_rejected"}
              -> {"delegation"}
    [] type \in {"handoff_initiated", "handoff_completed"} -> {"handoff", "target"}
    [] type = "trust_zone_crossed"  -> {"source", "zone"}
    [] type = "data_shared"         -> {"categories", "target"}
    [] type = "approval_requested"  -> {"approval"}
    [] type \in {"approval_granted", "approval_rejected"} -> {"approval", "approver"}
    [] type = "identity_revoked"    -> {"target"}
    [] OTHER                        -> {}

FieldCodes(e) ==
  When(\E f \in RequiredFields(e.type) : e[f] = (IF f = "categories" THEN {} ELSE NoRef),
       "FIELD_REQUIRED")

PartyCodes(c, e, ts) ==
  (IF e.actor \notin DOMAIN c.identities THEN {"ACTOR_UNKNOWN"}
   ELSE IF Revoked(c, IdentityTarget(e.actor), ts) THEN {"ACTOR_REVOKED"}
   ELSE When(~Effective(c, e.actor, ts), "ACTOR_NOT_EFFECTIVE"))
  \cup
  (IF e.target = NoRef THEN {}
   ELSE IF e.target \notin DOMAIN c.identities THEN {"TARGET_UNKNOWN"}
   ELSE When(e.type # "identity_revoked" /\ Revoked(c, IdentityTarget(e.target), ts),
             "TARGET_REVOKED"))

UnknownCodes(c, e) ==
  When(e.capability \notin c.capabilities \cup {NoRef}, "CAPABILITY_UNKNOWN")
    \cup When(e.delegation \notin DOMAIN c.delegations \cup {NoRef}, "DELEGATION_UNKNOWN")
    \cup When(e.handoff \notin DOMAIN c.handoffs \cup {NoRef}, "HANDOFF_UNKNOWN")
    \cup When(~({e.source, e.zone} \subseteq DOMAIN c.zones \cup {NoRef}), "ZONE_UNKNOWN")
    \cup When(e.approval \notin DOMAIN c.approvals \cup {NoRef}, "APPROVAL_UNKNOWN")

CapabilityCodes(c, e, ts) ==
  When(/\ e.type \in {"capability_allowed", "tool_invoked"} /\ e.capability \in c.capabilities
       /\ ~Holds(c, e.actor, e.capability, ts)
       /\ ~Receives(c, e.actor, e.capability, e.delegation, ts),
       "CAPABILITY_NOT_HELD")

\* The delegation's status is not looked at.
DelegationCodes(c, e, ts) ==
  IF e.type = "delegation_accepted" /\ e.delegation \in DOMAIN c.delegations
  THEN When(c.delegations[e.delegation].delegate # e.actor, "DELEGATION_ACTOR_MISMATCH")
         \cup When(~Contains(c.delegations[e.delegation], ts), "DELEGATION_EXPIRED")
         \cup When(Revoked(c, DelegationTarget(e.delegation), ts), "DELEGATION_REVOKED")
  ELSE {}

HandoffCodes(c, e) ==
  When(/\ e.type = "handoff_initiated" /\ e.handoff \in DOMAIN c.handoffs
       /\ <<e.actor, e.target>> # <<c.handoffs[e.handoff].source, c.handoffs[e.handoff].target>>,
       "HANDOFF_PARTY_MISMATCH")

\* Every crossing wants a covering gate, an external one the network approval by name.
CrossingCodes(c, e) ==
  IF e.type = "trust_zone_crossed" /\ e.source \in DOMAIN c.zones /\ e.zone # NoRef
  THEN When(e.zone \notin c.zones[e.source].targets, "CROSSING_NOT_DECLARED")
         \cup When(\A g \in c.gates : e.source \notin g.sources \/ e.zone \notin g.targets,
                   "CROSSING_UNGOVERNED")
         \cup When(/\ e.zone \in DOMAIN c.zones /\ c.zones[e.zone].external
                   /\ e.approval # NetworkApproval, "CROSSING_APPROVAL_MISSING")
  ELSE {}

ShareCodes(c, e) ==
  IF e.type = "data_shared"
  THEN When(e.categories \cap SensitiveCategories # {}, "SENSITIVE_SHARING")
         \cup When(\E z \in {e.source, e.zone} \cap DOMAIN c.zones :
                     ~(e.categories \subseteq SensitiveCategories \cup c.zones[z].allowlist),
                   "SHARE_NOT_ALLOWED")
  ELSE {}

\* approver is the actor type: only a grant's approver must be a human of the module.
ApproverCodes(c, e) ==
  IF e.type = "approval_granted" /\ e.approver # NoRef
  THEN When(e.approver # "human", "APPROVAL_NON_HUMAN")
         \cup When(e.role \notin ModuleRoles(c) \cup {NoRef}, "APPROVAL_ROLE_INVALID")
  ELSE {}

ReferenceCodes(c, e, ts) ==
  FieldCodes(e) \cup PartyCodes(c, e, ts) \cup UnknownCodes(c, e)
    \cup CapabilityCodes(c, e, ts) \cup DelegationCodes(c, e, ts) \cup HandoffCodes(c, e)
    \cup CrossingCodes(c, e) \cup ShareCodes(c, e) \cup ApproverCodes(c, e)
=============================================================================
