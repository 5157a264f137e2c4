------------------------------ MODULE Authorizer ------------------------------
(***************************************************************************)
(* Authorizer.evaluate of agentic/authz.py: a pure decision on one request *)
(* under a frozen contract at an explicit instant.  A decision carries the *)
(* intents that its evidence consists of: events without a timestamp.      *)
(***************************************************************************)
EXTENDS NetworkContract, Sequences

\* An event's references; absent ones are NoRef, approver is its actor type.
NoReferences ==
  [type |-> "none", actor |-> NoRef, target |-> NoRef, capability |-> NoRef,
   delegation |-> NoRef, handoff |-> NoRef, source |-> NoRef, zone |-> NoRef,
   approval |-> NoRef, approver |-> NoRef, role |-> NoRef, categories |-> {}]

By(type, actor) == [NoReferences EXCEPT !.type = type, !.actor = actor]
Violation(actor) == By("policy_violation", actor)
OfCapability(type, actor, capability) == [By(type, actor) EXCEPT !.capability = capability]
OfDelegation(type, actor, d) == [By(type, actor) EXCEPT !.delegation = d]
OfZones(type, actor, source, zone) == [By(type, actor) EXCEPT !.source = source, !.zone = zone]
OfApproval(type, actor, ref) == [By(type, actor) EXCEPT !.approval = ref]

-----------------------------------------------------------------------------
(* What holds at the instant ts.                                           *)

\* Mutant of Within: a validity interval is closed.
WithinClosed(item, ts) == item.from <= ts /\ ts <= item.until

\* _interval_contains: half-open.
Within(item, ts) == item.from <= ts /\ ts < item.until

\* Mutant of RevokedAt: a revocation applies only after its effective time.
RevokedAfter(c, target, ts) == \E r \in c.revocations : r.target = target /\ ts > r.at

\* _revoked_at
RevokedAt(c, target, ts) == \E r \in c.revocations : r.target = target /\ ts >= r.at

IdentityEffective(c, ref, ts) ==
  /\ ref \in DOMAIN c.identities
  /\ c.identities[ref].active /\ Within(c.identities[ref], ts)
  /\ ~RevokedAt(c, IdentityTarget(ref), ts)

\* The condition shared by _zone_member and _holds_capability.
MembershipEffective(c, m, actor, ts) ==
  /\ c.memberships[m].identity = actor
  /\ c.memberships[m].authorized /\ Within(c.memberships[m], ts)
  /\ ~RevokedAt(c, MembershipTarget(m), ts)

ZoneMember(c, actor, zone, ts) ==
  \E m \in DOMAIN c.memberships :
    MembershipEffective(c, m, actor, ts) /\ c.memberships[m].zone = zone

\* Mutant of HoldsCapability: the identity's own list is enough.
HoldsByIdentity(c, actor, capability, ts) ==
  actor \in DOMAIN c.identities /\ capability \in c.identities[actor].capabilities

HoldsCapability(c, actor, capability, ts) ==
  /\ actor \in DOMAIN c.identities
  /\ capability \in c.identities[actor].capabilities
  /\ \E m \in DOMAIN c.memberships :
       MembershipEffective(c, m, actor, ts) /\ capability \in c.memberships[m].capabilities

DelegationEffective(c, d, ts) ==
  /\ c.delegations[d].active /\ Within(c.delegations[d], ts)
  /\ ~RevokedAt(c, DelegationTarget(d), ts)

\* The delegations by which actor receives capability; _delegated returns the first.
Delegated(c, actor, capability, ts) ==
  {d \in DOMAIN c.delegations :
     /\ c.delegations[d].delegate = actor /\ c.delegations[d].capability = capability
     /\ DelegationEffective(c, d, ts)}

-----------------------------------------------------------------------------
(* Decisions.  delegation is the basis of a delegated capability.          *)

Deny(code, intents) ==
  [effect |-> "DENY", code |-> code, delegation |-> NoRef, intents |-> intents]
Allow(intents) ==
  [effect |-> "ALLOW", code |-> "ALLOWED", delegation |-> NoRef, intents |-> intents]

\* _known_effective, for a party that is not.
PartyRefusal(c, ref) ==
  IF ref \in DOMAIN c.identities
  THEN Deny("PARTY_INEFFECTIVE", <<Violation(ref)>>)
  ELSE Deny("REQUEST_MALFORMED", <<>>)

\* The first of two parties that is not effective decides.
PartiesRefusal(c, first, second, ts) ==
  IF IdentityEffective(c, first, ts) THEN PartyRefusal(c, second) ELSE PartyRefusal(c, first)

Capability(c, r, ts) ==
  LET requested == OfCapability("capability_requested", r.actor, r.capability)
      allowed   == OfCapability("capability_allowed", r.actor, r.capability)
      denied    == OfCapability("capability_denied", r.actor, r.capability)
      received  == Delegated(c, r.actor, r.capability, ts)
  IN  IF ~IdentityEffective(c, r.actor, ts) THEN PartyRefusal(c, r.actor)
      ELSE IF r.capability \notin c.capabilities
           THEN Deny("CAPABILITY_UNKNOWN", <<Violation(r.actor)>>)
      ELSE IF HoldsCapability(c, r.actor, r.capability, ts) THEN Allow(<<requested, allowed>>)
      ELSE IF received = {} THEN Deny("CAPABILITY_DENIED", <<requested, denied>>)
      ELSE LET d == CHOOSE x \in received : TRUE
           IN  [Allow(<<requested, [allowed EXCEPT !.delegation = d]>>) EXCEPT !.delegation = d]

Delegation(c, r, ts) ==
  LET del == c.delegations[r.id]
      requested == [OfDelegation("delegation_requested", del.delegator, r.id)
                      EXCEPT !.target = del.delegate]
  IN  IF r.id \notin DOMAIN c.delegations THEN Deny("DELEGATION_UNKNOWN", <<>>)
      ELSE IF ~(IdentityEffective(c, del.delegator, ts) /\ IdentityEffective(c, del.delegate, ts))
           THEN PartiesRefusal(c, del.delegator, del.delegate, ts)
      ELSE IF DelegationEffective(c, r.id, ts)
           THEN Allow(<<requested, OfDelegation("delegation_accepted", del.delegate, r.id)>>)
      ELSE Deny("DELEGATION_INACTIVE",
                <<requested, OfDelegation("delegation_rejected", del.delegate, r.id)>>)

\* Neither the handoff's status nor its interval is consulted.
Handoff(c, r, ts) ==
  LET hand == c.handoffs[r.id]
  IN  IF r.id \notin DOMAIN c.handoffs THEN Deny("HANDOFF_UNKNOWN", <<>>)
      ELSE IF ~(IdentityEffective(c, hand.source, ts) /\ IdentityEffective(c, hand.target, ts))
           THEN PartiesRefusal(c, hand.source, hand.target, ts)
      ELSE IF \E k \in hand.capabilities :
                ~HoldsCapability(c, hand.target, k, ts) /\ Delegated(c, hand.target, k, ts) = {}
           THEN Deny("HANDOFF_AUTHORITY",
                     <<[Violation(hand.source) EXCEPT !.target = hand.target, !.handoff = r.id]>>)
      ELSE Allow(<<>>)

-----------------------------------------------------------------------------
(* Approvals.  An assertion is [ref, role, type, action, revision,         *)
(* evidence, issued, expires, granted].                                    *)

\* The applicable expiries: the assertion's, the requirement's, and issue + age.
Expiries(req, a) ==
  ({a.expires, req.expires}
     \cup (IF req.maxAge # NoTime /\ a.issued # NoTime THEN {a.issued + req.maxAge} ELSE {}))
    \ {NoTime}

\* Mutant of ApprovalStale: only the assertion's own expiry counts.
StaleByAssertion(req, a, ts) == a.expires # NoTime /\ ts >= a.expires

ApprovalStale(req, a, ts) ==
  \/ req.maxAge # NoTime /\ a.issued = NoTime
  \/ a.issued # NoTime /\ ts < a.issued
  \/ \E t \in Expiries(req, a) : ts >= t

\* The checks of _approval in their order; scope is the governed actions.
ApprovalCode(c, req, a, scope, ts) ==
  IF a.revision # c.revision \/ (req.binding # NoRef /\ a.revision # req.binding)
    THEN "APPROVAL_REVISION_MISMATCH"
  ELSE IF scope # {} /\ a.action \notin scope THEN "APPROVAL_ACTION_MISMATCH"
  ELSE IF a.type # "human" \/ a.type \in req.denied THEN "APPROVAL_NON_HUMAN"
  ELSE IF a.role \notin req.roles THEN "APPROVAL_ROLE_INVALID"
  ELSE IF ~(req.evidence \subseteq a.evidence) THEN "APPROVAL_EVIDENCE_MISSING"
  ELSE IF ApprovalStale(req, a, ts) THEN "APPROVAL_STALE"
  ELSE IF ~a.granted THEN "APPROVAL_NOT_GRANTED"
  ELSE "ALLOWED"

\* A direct request is in the scope of the requirement's own actions.
Approval(c, actor, a, governed, ts) ==
  LET req == c.approvals[a.ref]
      code == ApprovalCode(c, req, a, IF governed = {} THEN req.actions ELSE governed, ts)
      requested == OfApproval("approval_requested", actor, a.ref)
      outcome(type) == [OfApproval(type, actor, a.ref) EXCEPT !.approver = a.type, !.role = a.role]
  IN  IF ~IdentityEffective(c, actor, ts) THEN PartyRefusal(c, actor)
      ELSE IF a.ref \notin DOMAIN c.approvals THEN Deny("REQUEST_MALFORMED", <<requested>>)
      ELSE IF code = "ALLOWED" THEN Allow(<<requested, outcome("approval_granted")>>)
      ELSE Deny(code, <<requested, outcome("approval_rejected")>>)

-----------------------------------------------------------------------------
(* Zones.                                                                  *)

GoverningGates(c, source, zone) == {g \in c.gates : source \in g.sources /\ zone \in g.targets}

\* An external crossing: one gate must both require the approval and govern the action.
ExternalCrossing(c, r, ts) ==
  LET gates == GoverningGates(c, r.source, r.zone)
      requiring == {g \in gates : r.approval.ref \in g.approvals}
      expected == UNION {g.approvals : g \in gates}
      violation == OfZones("policy_violation", r.actor, r.source, r.zone)
  IN  IF gates = {} THEN Deny("ZONE_CROSSING_DENIED", <<violation>>)
      ELSE IF r.approval = NoRef
           THEN [effect |-> "APPROVAL_REQUIRED", code |-> "CROSSING_APPROVAL_REQUIRED",
                 delegation |-> NoRef,
                 intents |-> <<OfApproval("approval_requested", r.actor,
                                          IF expected = {} THEN NoRef
                                          ELSE CHOOSE x \in expected : TRUE)>>]
      ELSE IF requiring = {} THEN Deny("CROSSING_APPROVAL_REQUIRED", <<violation>>)
      ELSE IF \A g \in requiring : r.approval.action \notin g.actions
           THEN Deny("APPROVAL_ACTION_MISMATCH", <<violation>>)
      ELSE Approval(c, r.actor, r.approval, {r.approval.action}, ts)

ZoneCrossing(c, r, ts) ==
  LET declared(z) == IF z \in DOMAIN c.zones THEN z ELSE NoRef
  IN  IF ~IdentityEffective(c, r.actor, ts) THEN PartyRefusal(c, r.actor)
      ELSE IF r.source \notin DOMAIN c.zones \/ r.zone \notin c.zones[r.source].targets
           THEN Deny("ZONE_CROSSING_DENIED",
                     <<OfZones("policy_violation", r.actor, declared(r.source), declared(r.zone))>>)
      ELSE IF ~ZoneMember(c, r.actor, r.source, ts)
           THEN Deny("ZONE_CROSSING_DENIED",
                     <<OfZones("policy_violation", r.actor, r.source, r.zone)>>)
      ELSE IF r.zone \in DOMAIN c.zones /\ c.zones[r.zone].external THEN ExternalCrossing(c, r, ts)
      ELSE Allow(<<>>)

\* Mutant of Allowlist: an undeclared zone allows everything.
AllowlistOpen(c, z) ==
  IF z \in DOMAIN c.zones THEN c.zones[z].allowlist
  ELSE UNION {c.zones[x].allowlist : x \in DOMAIN c.zones}
Allowlist(c, z) == IF z \in DOMAIN c.zones THEN c.zones[z].allowlist ELSE {}

DataShare(c, r, ts) ==
  LET violation == [Violation(r.actor) EXCEPT !.target = r.target]
  IN  IF ~(IdentityEffective(c, r.actor, ts) /\ IdentityEffective(c, r.target, ts))
      THEN PartiesRefusal(c, r.actor, r.target, ts)
      ELSE IF r.categories \cap SensitiveCategories # {}
           THEN Deny("SENSITIVE_SHARING", <<violation>>)
      ELSE IF ~(r.categories \subseteq Allowlist(c, r.source) \cap Allowlist(c, r.zone))
           THEN Deny("SHARE_NOT_ALLOWED", <<violation>>)
      ELSE Allow(<<>>)

-----------------------------------------------------------------------------
\* _actor_of: delegation and handoff requests name none.
ActorOf(r) == IF "actor" \in DOMAIN r THEN <<Violation(r.actor)>> ELSE <<>>

\* evaluate; observed is context.observed_subject_revision.
Evaluate(c, r, ts, observed) ==
  IF r.kind = "malformed" THEN Deny("REQUEST_MALFORMED", <<>>)
  ELSE IF observed # c.revision THEN Deny("REVISION_MISMATCH", ActorOf(r))
  ELSE CASE r.kind = "capability" -> Capability(c, r, ts)
         [] r.kind = "delegation" -> Delegation(c, r, ts)
         [] r.kind = "handoff"    -> Handoff(c, r, ts)
         [] r.kind = "approval"   -> Approval(c, r.actor, r.approval, {}, ts)
         [] r.kind = "crossing"   -> ZoneCrossing(c, r, ts)
         [] r.kind = "share"      -> DataShare(c, r, ts)
=============================================================================
