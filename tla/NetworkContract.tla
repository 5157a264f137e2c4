--------------------------- MODULE NetworkContract ---------------------------
(***************************************************************************)
(* The declarations of an agentic network that authorization reads, and    *)
(* what the static checks of governance/agentic_network.py and             *)
(* governance/agentic_delegation.py demand of them before load_authorizer  *)
(* accepts the contract (of the checks, those on fields modelled here).    *)
(* A contract c is a record:                                               *)
(*                                                                         *)
(*   identities   id -> [active, from, until, capabilities]                *)
(*   capabilities the declared names                                       *)
(*   memberships  id -> [identity, zone, capabilities, authorized, from,   *)
(*                       until]                                            *)
(*   zones        id -> [external, targets, allowlist]                     *)
(*   gates        a set of [sources, targets, approvals, actions]          *)
(*   delegations  id -> [delegator, delegate, capability, source, target,  *)
(*                       active, from, until]                              *)
(*   handoffs     id -> [source, target, sourceZone, targetZone,           *)
(*                       capabilities, delegations, status, from, until]   *)
(*   revocations  a set of [target, at]                                    *)
(*   approvals    id -> [roles, authority, actions, denied, evidence,      *)
(*                       expires, maxAge, binding]                         *)
(*   revision     subject_revision                                         *)
(*                                                                         *)
(* Times are numbers; "active" and "authorized" stand for the one status   *)
(* that authorizes.                                                        *)
(***************************************************************************)
EXTENDS Integers

CONSTANTS
  NoRef,                 \* an absent reference
  NoTime,                \* an absent time or duration
  NetworkApproval,       \* AGENTIC_APPROVAL_ID
  SensitiveCategories    \* SENSITIVE_CATEGORIES

ASSUME ContractAssumption == NoTime \notin Nat

\* Revocation targets, as _revocation_target_key builds them.
IdentityTarget(i) == <<"agent_identity", i>>
MembershipTarget(m) == <<"membership", m>>
DelegationTarget(d) == <<"delegation", d>>
HandoffTarget(h) == <<"handoff", h>>
AssignmentTarget(kind, principal, capability) ==
  <<"capability_assignment", kind, principal, capability>>

\* effective_revocations: what is revoked at the validation time.
EffectiveRevocations(c, asOf) == {r.target : r \in {x \in c.revocations : asOf >= x.at}}

\* AN_REVOCATION_TARGET_UNKNOWN: the targets that exist.
KnownTargets(c) ==
  {IdentityTarget(i) : i \in DOMAIN c.identities}
    \cup {MembershipTarget(m) : m \in DOMAIN c.memberships}
    \cup {DelegationTarget(d) : d \in DOMAIN c.delegations}
    \cup {HandoffTarget(h) : h \in DOMAIN c.handoffs}
    \cup (UNION {{AssignmentTarget("agent_identity", i, k) : k \in c.identities[i].capabilities} :
                  i \in DOMAIN c.identities})
    \cup UNION {{AssignmentTarget("membership", m, k) : k \in c.memberships[m].capabilities} :
                  m \in DOMAIN c.memberships}

\* _validate_interval; applies says whether the item's status is the active one.
IntervalProblem(item, applies, asOf) ==
  item.from >= item.until \/ (applies /\ ~(item.from <= asOf /\ asOf < item.until))

\* _authorization_problem
Authorized(item, applies, asOf) ==
  applies /\ item.from < item.until /\ item.from <= asOf /\ asOf < item.until

\* _authorized_memberships
AuthorizedMemberships(c, identity, zone, asOf) ==
  {m \in DOMAIN c.memberships :
     /\ c.memberships[m].identity = identity /\ c.memberships[m].zone = zone
     /\ Authorized(c.memberships[m], c.memberships[m].authorized, asOf)
     /\ MembershipTarget(m) \notin EffectiveRevocations(c, asOf)}

-----------------------------------------------------------------------------
(* The checks, each the condition under which it reports nothing.          *)

\* An effective revocation of an item still declared active fails, and one of a
\* capability assignment always does.
RevocationsSettled(c, asOf) ==
  /\ \A r \in c.revocations : r.target \in KnownTargets(c)
  /\ \A t \in EffectiveRevocations(c, asOf) :
       /\ t[1] = "agent_identity" => ~c.identities[t[2]].active
       /\ t[1] = "membership" => ~c.memberships[t[2]].authorized
       /\ t[1] = "delegation" => ~c.delegations[t[2]].active
       /\ t[1] = "handoff" => c.handoffs[t[2]].status \notin {"initiated", "accepted", "completed"}
       /\ t[1] # "capability_assignment"

IdentitiesValid(c, asOf) ==
  \A i \in DOMAIN c.identities :
    /\ c.identities[i].capabilities \subseteq c.capabilities
    /\ ~IntervalProblem(c.identities[i], c.identities[i].active, asOf)

\* AN_CAPABILITY_ESCALATION: a membership assigns nothing its identity lacks.
MembershipsValid(c, asOf) ==
  \A m \in DOMAIN c.memberships :
    /\ c.memberships[m].identity \in DOMAIN c.identities
    /\ c.memberships[m].zone \in DOMAIN c.zones
    /\ c.memberships[m].capabilities \subseteq c.identities[c.memberships[m].identity].capabilities
    /\ ~IntervalProblem(c.memberships[m], c.memberships[m].authorized, asOf)

\* A declared transition need not be covered by a gate.
ZonesValid(c) ==
  /\ \A z \in DOMAIN c.zones :
       /\ c.zones[z].targets \subseteq DOMAIN c.zones
       /\ c.zones[z].external => c.zones[z].allowlist \cap SensitiveCategories = {}
  /\ \A g \in c.gates :
       /\ g.sources \cup g.targets \subseteq DOMAIN c.zones
       /\ g.approvals \subseteq DOMAIN c.approvals

EffectiveParty(c, ref, asOf) ==
  /\ ref \in DOMAIN c.identities
  /\ Authorized(c.identities[ref], c.identities[ref].active, asOf)
  /\ IdentityTarget(ref) \notin EffectiveRevocations(c, asOf)

\* The gate coverage of a delegation across zones (_cross_zone_controls).
CrossZoneControlled(c, source, target, action) ==
  source # target =>
    /\ target \in c.zones[source].targets
    /\ \E g \in c.gates : source \in g.sources /\ target \in g.targets /\ action \in g.actions

DelegationsValid(c, asOf) ==
  \A d \in DOMAIN c.delegations :
    LET del == c.delegations[d]
    IN  /\ EffectiveParty(c, del.delegator, asOf) /\ EffectiveParty(c, del.delegate, asOf)
        /\ del.delegator # del.delegate
        /\ del.capability \in c.capabilities \cap c.identities[del.delegator].capabilities
        /\ {del.source, del.target} \subseteq DOMAIN c.zones
        /\ \E m \in AuthorizedMemberships(c, del.delegator, del.source, asOf) :
             del.capability \in c.memberships[m].capabilities
        /\ AuthorizedMemberships(c, del.delegate, del.target, asOf) # {}
        /\ ~IntervalProblem(del, del.active, asOf)
        /\ CrossZoneControlled(c, del.source, del.target, "delegate")

\* A handoff needs a target that holds or receives what it requires; its status is
\* free, an interval counts only while it is initiated or accepted.
HandoffsValid(c, asOf) ==
  \A h \in DOMAIN c.handoffs :
    LET hand == c.handoffs[h]
        members == AuthorizedMemberships(c, hand.target, hand.targetZone, asOf)
    IN  /\ EffectiveParty(c, hand.source, asOf) /\ EffectiveParty(c, hand.target, asOf)
        /\ hand.source # hand.target
        /\ AuthorizedMemberships(c, hand.source, hand.sourceZone, asOf) # {} /\ members # {}
        /\ hand.delegations \subseteq
             {d \in DOMAIN c.delegations : c.delegations[d].delegate = hand.target}
        /\ \A k \in hand.capabilities :
             /\ k \in c.capabilities
             /\ \/ /\ k \in c.identities[hand.target].capabilities
                   /\ \E m \in members : k \in c.memberships[m].capabilities
                \/ \E d \in hand.delegations :
                     /\ c.delegations[d].capability = k
                     /\ c.delegations[d].target = hand.targetZone
                     /\ Authorized(c.delegations[d], c.delegations[d].active, asOf)
                     /\ DelegationTarget(d) \notin EffectiveRevocations(c, asOf)
        /\ ~IntervalProblem(hand, hand.status \in {"initiated", "accepted"}, asOf)
        /\ CrossZoneControlled(c, hand.sourceZone, hand.targetZone, "handoff")

\* load_authorizer accepts the contract as of validation_as_of.
Loadable(c, asOf) ==
  /\ RevocationsSettled(c, asOf)
  /\ IdentitiesValid(c, asOf) /\ MembershipsValid(c, asOf) /\ ZonesValid(c)
  /\ DelegationsValid(c, asOf) /\ HandoffsValid(c, asOf)
=============================================================================
