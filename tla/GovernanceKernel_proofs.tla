------------------------ MODULE GovernanceKernel_proofs ------------------------
(***************************************************************************)
(* Proofs about GovernanceKernel, for every set of loadable contracts and  *)
(* every choice of requests, crossings, approval records and bounds: the   *)
(* decision core and the validator agree on the evidence of decisions, and *)
(* the kernel fails closed.                                                *)
(***************************************************************************)
EXTENDS GovernanceKernel, FiniteSetTheorems, TLAPS

USE DEF References!When

\* The fields of the events that the decision core makes.
Fields(e, type, actor, target, capability, delegation, handoff, source, zone, approval, approver,
       role) ==
  /\ e.type = type /\ e.actor = actor /\ e.target = target
  /\ e.capability = capability /\ e.delegation = delegation /\ e.handoff = handoff
  /\ e.source = source /\ e.zone = zone
  /\ e.approval = approval /\ e.approver = approver /\ e.role = role

\* Each constructor sets the fields it names and leaves the others absent.
LEMMA Written ==
  ASSUME NEW type, NEW actor, NEW x, NEW y
  PROVE  /\ Fields(By(type, actor), type, actor, NoRef, NoRef, NoRef, NoRef, NoRef, NoRef,
                   NoRef, NoRef, NoRef)
         /\ Fields(OfCapability(type, actor, x), type, actor, NoRef, x, NoRef, NoRef, NoRef,
                   NoRef, NoRef, NoRef, NoRef)
         /\ Fields(OfDelegation(type, actor, x), type, actor, NoRef, NoRef, x, NoRef, NoRef,
                   NoRef, NoRef, NoRef, NoRef)
         /\ Fields(OfZones(type, actor, x, y), type, actor, NoRef, NoRef, NoRef, NoRef, x, y,
                   NoRef, NoRef, NoRef)
         /\ Fields(OfApproval(type, actor, x), type, actor, NoRef, NoRef, NoRef, NoRef, NoRef,
                   NoRef, x, NoRef, NoRef)
  BY DEF By, OfCapability, OfDelegation, OfZones, OfApproval, NoReferences, Fields

\* Both readings of the contract agree on the standing of a party and on what it
\* holds or receives.
LEMMA SameStanding ==
  ASSUME NEW c, NEW ts, NEW a, NEW k, NEW d
  PROVE  /\ References!Effective(c, a, ts) <=> IdentityEffective(c, a, ts)
         /\ References!Holds(c, a, k, ts) <=> HoldsCapability(c, a, k, ts)
         /\ References!Receives(c, a, k, d, ts) <=> d \in Delegated(c, a, k, ts)
  BY DEF References!Effective, References!Holds, References!Receives, References!Contains,
         References!Revoked, IdentityEffective, HoldsCapability, MembershipEffective, Delegated,
         DelegationEffective, Within, RevokedAt, IdentityTarget, MembershipTarget,
         DelegationTarget, References!IdentityTarget, References!MembershipTarget,
         References!DelegationTarget

\* Every party an event of the core names is a declared one and effective.
Standing(c, e, ts) ==
  /\ IdentityEffective(c, e.actor, ts)
  /\ e.target = NoRef \/ IdentityEffective(c, e.target, ts)

\* The validator has nothing to say about effective parties.
LEMMA PartiesClean ==
  ASSUME NEW c, NEW e, NEW ts, Standing(c, e, ts)
  PROVE  References!PartyCodes(c, e, ts) = {}
  BY DEF Standing, References!PartyCodes, References!Effective, References!Contains,
         References!Revoked, IdentityEffective, Within, RevokedAt, IdentityTarget,
         References!IdentityTarget

\* Every other reference is declared, or absent.
Declared(c, e) ==
  /\ e.capability \in c.capabilities \cup {NoRef}
  /\ e.delegation \in DOMAIN c.delegations \cup {NoRef}
  /\ e.handoff \in DOMAIN c.handoffs \cup {NoRef}
  /\ {e.source, e.zone} \subseteq DOMAIN c.zones \cup {NoRef}
  /\ e.approval \in DOMAIN c.approvals \cup {NoRef}

\* The validator knows every declared reference.
LEMMA DeclaredClean ==
  ASSUME NEW c, NEW e, Declared(c, e)
  PROVE  References!UnknownCodes(c, e) = {}
  BY DEF Declared, References!UnknownCodes

\* The diagnostics of transitions the event is none of.
LEMMA OthersClean ==
  ASSUME NEW c, NEW e, NEW ts
  PROVE  /\ e.type \notin {"capability_allowed", "tool_invoked"} =>
              References!CapabilityCodes(c, e, ts) = {}
         /\ e.type # "delegation_accepted" => References!DelegationCodes(c, e, ts) = {}
         /\ e.type # "handoff_initiated" => References!HandoffCodes(c, e) = {}
         /\ e.type # "trust_zone_crossed" => References!CrossingCodes(c, e) = {}
         /\ e.type # "data_shared" => References!ShareCodes(c, e) = {}
         /\ e.type # "approval_granted" => References!ApproverCodes(c, e) = {}
  BY DEF References!CapabilityCodes, References!DelegationCodes, References!HandoffCodes,
         References!CrossingCodes, References!ShareCodes, References!ApproverCodes

-----------------------------------------------------------------------------
(* One request after the other.                                            *)

\* What a loaded contract guarantees of its references.
WellFormed(c) ==
  /\ NoRef \notin DOMAIN c.identities \cup c.capabilities \cup DOMAIN c.delegations
                  \cup DOMAIN c.approvals \cup DOMAIN c.handoffs \cup DOMAIN c.zones
  /\ \A z \in DOMAIN c.zones : c.zones[z].targets \subseteq DOMAIN c.zones
  /\ \A g \in c.gates : g.approvals \subseteq DOMAIN c.approvals

\* load_authorizer refuses a contract that is not.
LEMMA LoadedWellFormed ==
  ASSUME NEW c \in Contracts
  PROVE  WellFormed(c)
  BY KernelAssumption, ReferenceAssumption DEF WellFormed, Loadable, ZonesValid

\* An event of effective parties and declared references is clean if its own type is.
LEMMA Clean ==
  ASSUME NEW c, NEW e, NEW ts, Standing(c, e, ts), Declared(c, e),
         References!FieldCodes(e) = {},
         References!CapabilityCodes(c, e, ts) = {}, References!DelegationCodes(c, e, ts) = {},
         e.type \notin {"handoff_initiated", "trust_zone_crossed", "data_shared",
                        "approval_granted"}
  PROVE  Validates(c, e, ts)
  BY PartiesClean, DeclaredClean, OthersClean DEF Validates, Codes, References!ReferenceCodes

\* A violation by an effective actor is always clean.
LEMMA ViolationClean ==
  ASSUME NEW c, NEW e, NEW ts, Standing(c, e, ts), Declared(c, e), e.type = "policy_violation"
  PROVE  Validates(c, e, ts)
<1>1. References!FieldCodes(e) = {}
  BY DEF References!FieldCodes, References!RequiredFields
<1>2. References!CapabilityCodes(c, e, ts) = {} /\ References!DelegationCodes(c, e, ts) = {}
  BY OthersClean
<1> QED BY <1>1, <1>2, Clean

\* The intents of a decision are a finite sequence, and each of them validates.
IsSequence(s) == \E S : s \in Seq(S)
Proper(c, decision, ts) ==
  /\ IsSequence(decision.intents)
  /\ \A i \in DOMAIN decision.intents : Validates(c, decision.intents[i], ts)

\* No intent, one or two that validate make a proper decision.
LEMMA ProperIntents ==
  ASSUME NEW c, NEW decision, NEW ts, NEW e, NEW f
  PROVE  /\ decision.intents = <<>> => Proper(c, decision, ts)
         /\ decision.intents = <<e>> /\ Validates(c, e, ts) => Proper(c, decision, ts)
         /\ decision.intents = <<e, f>> /\ Validates(c, e, ts) /\ Validates(c, f, ts)
              => Proper(c, decision, ts)
<1>1. <<>> \in Seq({}) /\ <<e>> \in Seq({e}) /\ <<e, f>> \in Seq({e, f})
  OBVIOUS
<1>2. DOMAIN <<>> = {} /\ DOMAIN <<e>> = {1} /\ DOMAIN <<e, f>> = {1, 2}
  OBVIOUS
<1>3. <<e>>[1] = e /\ <<e, f>>[1] = e /\ <<e, f>>[2] = f
  OBVIOUS
<1>4. ASSUME decision.intents = <<>>
      PROVE  Proper(c, decision, ts)
  BY <1>1, <1>2, <1>4, Zenon DEF Proper, IsSequence
<1>5. ASSUME decision.intents = <<e>>, Validates(c, e, ts)
      PROVE  Proper(c, decision, ts)
  <2>1. IsSequence(decision.intents)
    BY <1>1, <1>5, Zenon DEF IsSequence
  <2>2. \A i \in DOMAIN decision.intents : Validates(c, decision.intents[i], ts)
    BY <1>2, <1>3, <1>5
  <2> QED BY <2>1, <2>2 DEF Proper
<1>6. ASSUME decision.intents = <<e, f>>, Validates(c, e, ts), Validates(c, f, ts)
      PROVE  Proper(c, decision, ts)
  <2>1. IsSequence(decision.intents)
    BY <1>1, <1>6, Zenon DEF IsSequence
  <2>2. \A i \in DOMAIN decision.intents : Validates(c, decision.intents[i], ts)
    BY <1>2, <1>3, <1>6
  <2> QED BY <2>1, <2>2 DEF Proper
<1> QED BY <1>4, <1>5, <1>6

\* The intents of a refusal or an allowance are those it is given.
LEMMA Refusals ==
  ASSUME NEW code, NEW intents
  PROVE  Deny(code, intents).intents = intents /\ Allow(intents).intents = intents
  BY DEF Deny, Allow

\* A party that is not effective is refused under its own name, if it has one.
LEMMA PartyProper ==
  ASSUME NEW c, WellFormed(c), NEW ref, NEW ts, ~IdentityEffective(c, ref, ts)
  PROVE  Proper(c, PartyRefusal(c, ref), ts)
<1> DEFINE e == Violation(ref)
<1>1. Fields(e, "policy_violation", ref, NoRef, NoRef, NoRef, NoRef, NoRef, NoRef, NoRef, NoRef,
             NoRef)
  BY Written DEF Violation
<1>2. ASSUME ref \in DOMAIN c.identities
      PROVE  Validates(c, e, ts)
  <2>1. References!FieldCodes(e) = {} /\ References!UnknownCodes(c, e) = {}
    BY <1>1, DeclaredClean DEF References!FieldCodes, References!RequiredFields, Declared, Fields
  <2>2. References!PartyCodes(c, e, ts) \subseteq {"ACTOR_REVOKED", "ACTOR_NOT_EFFECTIVE"}
    BY <1>1, <1>2 DEF References!PartyCodes, Fields
  <2>3. Codes(c, e, ts) \subseteq {"ACTOR_REVOKED", "ACTOR_NOT_EFFECTIVE"}
    BY <1>1, <2>1, <2>2, OthersClean DEF Codes, References!ReferenceCodes, Fields
  <2> QED BY <1>1, <2>3 DEF Validates, Excused, Fields
<1> QED BY <1>2, ProperIntents, Refusals DEF PartyRefusal

\* A capability request; the validator accepts the allowance because it finds the
\* same right, or the very delegation that the event names.
LEMMA CapabilityProper ==
  ASSUME NEW c, WellFormed(c), NEW r, NEW ts
  PROVE  Proper(c, Capability(c, r, ts), ts)
<1> DEFINE received  == Delegated(c, r.actor, r.capability, ts)
           d         == CHOOSE x \in received : TRUE
           requested == OfCapability("capability_requested", r.actor, r.capability)
           allowed   == OfCapability("capability_allowed", r.actor, r.capability)
           lent      == [allowed EXCEPT !.delegation = d]
           denied    == OfCapability("capability_denied", r.actor, r.capability)
           violation == Violation(r.actor)
<1>1. CASE ~IdentityEffective(c, r.actor, ts)
  BY <1>1, PartyProper DEF Capability
<1>2. CASE IdentityEffective(c, r.actor, ts) /\ r.capability \notin c.capabilities
  <2>1. Fields(violation, "policy_violation", r.actor, NoRef, NoRef, NoRef, NoRef, NoRef, NoRef,
               NoRef, NoRef, NoRef)
    BY Written DEF Violation
  <2>2. Validates(c, violation, ts)
    BY <1>2, <2>1, ViolationClean DEF Standing, Declared, Fields
  <2>3. Capability(c, r, ts).intents = <<violation>>
    BY <1>2, Refusals DEF Capability
  <2> QED BY <2>2, <2>3, ProperIntents
<1>3. CASE IdentityEffective(c, r.actor, ts) /\ r.capability \in c.capabilities
  <2>1. /\ Fields(requested, "capability_requested", r.actor, NoRef, r.capability, NoRef, NoRef,
                  NoRef, NoRef, NoRef, NoRef, NoRef)
        /\ Fields(allowed, "capability_allowed", r.actor, NoRef, r.capability, NoRef, NoRef,
                  NoRef, NoRef, NoRef, NoRef, NoRef)
        /\ Fields(denied, "capability_denied", r.actor, NoRef, r.capability, NoRef, NoRef,
                  NoRef, NoRef, NoRef, NoRef, NoRef)
    BY Written
  <2>2. Fields(lent, "capability_allowed", r.actor, NoRef, r.capability, d, NoRef,
               NoRef, NoRef, NoRef, NoRef, NoRef)
    BY DEF Fields, OfCapability, By, NoReferences
  <2>3. Validates(c, requested, ts) /\ Validates(c, denied, ts)
    <3>1. References!FieldCodes(requested) = {} /\ References!FieldCodes(denied) = {}
      BY <1>3, <2>1 DEF References!FieldCodes, References!RequiredFields, Fields, WellFormed
    <3>2. Standing(c, requested, ts) /\ Standing(c, denied, ts)
      BY <1>3, <2>1 DEF Standing, Fields
    <3>3. Declared(c, requested) /\ Declared(c, denied)
      BY <1>3, <2>1 DEF Declared, Fields
    <3> QED BY <2>1, <3>1, <3>2, <3>3, Clean, OthersClean DEF Fields
  <2>4. CASE HoldsCapability(c, r.actor, r.capability, ts)
    <3>1. Validates(c, allowed, ts)
      <4>1. References!FieldCodes(allowed) = {}
        BY <1>3, <2>1 DEF References!FieldCodes, References!RequiredFields, Fields, WellFormed
      <4>2. Standing(c, allowed, ts) /\ Declared(c, allowed)
        BY <1>3, <2>1 DEF Standing, Declared, Fields
      <4>3. References!CapabilityCodes(c, allowed, ts) = {}
        BY <2>1, <2>4, SameStanding DEF References!CapabilityCodes, Fields
      <4> QED BY <2>1, <4>1, <4>2, <4>3, Clean, OthersClean DEF Fields
    <3>2. Capability(c, r, ts).intents = <<requested, allowed>>
      BY <1>3, <2>4, Refusals DEF Capability
    <3> QED BY <2>3, <3>1, <3>2, ProperIntents
  <2>5. CASE ~HoldsCapability(c, r.actor, r.capability, ts) /\ received = {}
    <3>1. Capability(c, r, ts).intents = <<requested, denied>>
      BY <1>3, <2>5, Refusals DEF Capability
    <3> QED BY <2>3, <3>1, ProperIntents
  <2>6. CASE ~HoldsCapability(c, r.actor, r.capability, ts) /\ received # {}
    <3>1. d \in received
      BY <2>6
    <3>2. d \in DOMAIN c.delegations
      BY <3>1 DEF Delegated
    <3>3. Validates(c, lent, ts)
      <4>1. References!FieldCodes(lent) = {}
        BY <1>3, <2>2 DEF References!FieldCodes, References!RequiredFields, Fields, WellFormed
      <4>2. Standing(c, lent, ts) /\ Declared(c, lent)
        BY <1>3, <2>2, <3>2 DEF Standing, Declared, Fields
      <4>3. References!CapabilityCodes(c, lent, ts) = {}
        BY <2>2, <3>1, SameStanding DEF References!CapabilityCodes, Fields
      <4> QED BY <2>2, <4>1, <4>2, <4>3, Clean, OthersClean DEF Fields
    <3>4. Capability(c, r, ts).intents = <<requested, lent>>
      BY <1>3, <2>6 DEF Capability, Allow
    <3> QED BY <2>3, <3>3, <3>4, ProperIntents
  <2> QED BY <2>4, <2>5, <2>6
<1> QED BY <1>1, <1>2, <1>3

\* The same for the first of two parties that is not effective.
LEMMA PartiesProper ==
  ASSUME NEW c, WellFormed(c), NEW first, NEW second, NEW ts,
         ~(IdentityEffective(c, first, ts) /\ IdentityEffective(c, second, ts))
  PROVE  Proper(c, PartiesRefusal(c, first, second, ts), ts)
  BY PartyProper DEF PartiesRefusal

\* A decision that records one clean violation is proper.
LEMMA ViolationProper ==
  ASSUME NEW c, NEW e, NEW ts, NEW code, Standing(c, e, ts), Declared(c, e),
         e.type = "policy_violation"
  PROVE  Proper(c, Deny(code, <<e>>), ts)
  BY ViolationClean, ProperIntents, Refusals

\* A delegation that is effective for the core is neither expired nor revoked for the
\* validator, and its delegate is the actor of the acceptance.
LEMMA DelegationProper ==
  ASSUME NEW c, WellFormed(c), NEW r, NEW ts
  PROVE  Proper(c, Delegation(c, r, ts), ts)
<1> DEFINE del       == c.delegations[r.id]
           requested == [OfDelegation("delegation_requested", del.delegator, r.id)
                           EXCEPT !.target = del.delegate]
           accepted  == OfDelegation("delegation_accepted", del.delegate, r.id)
           rejected  == OfDelegation("delegation_rejected", del.delegate, r.id)
           effective == /\ IdentityEffective(c, del.delegator, ts)
                        /\ IdentityEffective(c, del.delegate, ts)
<1>1. CASE r.id \notin DOMAIN c.delegations
  BY <1>1, ProperIntents, Refusals DEF Delegation
<1>2. CASE r.id \in DOMAIN c.delegations /\ ~effective
  BY <1>2, PartiesProper DEF Delegation
<1>3. CASE r.id \in DOMAIN c.delegations /\ effective
  <2>1. /\ Fields(requested, "delegation_requested", del.delegator, del.delegate, NoRef, r.id,
                  NoRef, NoRef, NoRef, NoRef, NoRef, NoRef)
        /\ Fields(accepted, "delegation_accepted", del.delegate, NoRef, NoRef, r.id, NoRef,
                  NoRef, NoRef, NoRef, NoRef, NoRef)
        /\ Fields(rejected, "delegation_rejected", del.delegate, NoRef, NoRef, r.id, NoRef,
                  NoRef, NoRef, NoRef, NoRef, NoRef)
    <3>1. Fields(requested, "delegation_requested", del.delegator, del.delegate, NoRef, r.id,
                 NoRef, NoRef, NoRef, NoRef, NoRef, NoRef)
      BY DEF Fields, OfDelegation, By, NoReferences
    <3> QED BY <3>1, Written
  <2>2. /\ References!FieldCodes(requested) = {} /\ References!FieldCodes(accepted) = {}
        /\ References!FieldCodes(rejected) = {}
    <3>1. r.id # NoRef
      BY <1>3 DEF WellFormed
    <3> HIDE DEF requested, accepted, rejected
    <3>2. References!FieldCodes(requested) = {}
      BY <2>1, <3>1 DEF References!FieldCodes, References!RequiredFields, Fields
    <3>3. References!FieldCodes(accepted) = {}
      BY <2>1, <3>1 DEF References!FieldCodes, References!RequiredFields, Fields
    <3>4. References!FieldCodes(rejected) = {}
      BY <2>1, <3>1 DEF References!FieldCodes, References!RequiredFields, Fields
    <3> QED BY <3>2, <3>3, <3>4
  <2>3. Standing(c, requested, ts) /\ Standing(c, accepted, ts) /\ Standing(c, rejected, ts)
    BY <1>3, <2>1 DEF Standing, Fields
  <2>4. Declared(c, requested) /\ Declared(c, accepted) /\ Declared(c, rejected)
    BY <1>3, <2>1 DEF Declared, Fields
  <2>5. Validates(c, requested, ts) /\ Validates(c, rejected, ts)
    BY <2>1, <2>2, <2>3, <2>4, Clean, OthersClean DEF Fields
  <2>6. CASE DelegationEffective(c, r.id, ts)
    <3>1. References!DelegationCodes(c, accepted, ts) = {}
      BY <2>1, <2>6 DEF References!DelegationCodes, References!Contains, References!Revoked,
         References!DelegationTarget, DelegationTarget, DelegationEffective, Within, RevokedAt,
         Fields
    <3>2. Validates(c, accepted, ts)
      BY <2>1, <2>2, <2>3, <2>4, <3>1, Clean, OthersClean DEF Fields
    <3>3. Delegation(c, r, ts).intents = <<requested, accepted>>
      BY <1>3, <2>6, Refusals DEF Delegation
    <3> QED BY <2>5, <3>2, <3>3, ProperIntents
  <2>7. CASE ~DelegationEffective(c, r.id, ts)
    <3>1. Delegation(c, r, ts).intents = <<requested, rejected>>
      BY <1>3, <2>7, Refusals DEF Delegation
    <3> QED BY <2>5, <3>1, ProperIntents
  <2> QED BY <2>6, <2>7
<1> QED BY <1>1, <1>2, <1>3

\* A handoff request records at most the violation of its source.
LEMMA HandoffProper ==
  ASSUME NEW c, WellFormed(c), NEW r, NEW ts
  PROVE  Proper(c, Handoff(c, r, ts), ts)
<1> DEFINE hand      == c.handoffs[r.id]
           violation == [Violation(hand.source) EXCEPT !.target = hand.target, !.handoff = r.id]
           effective == /\ IdentityEffective(c, hand.source, ts)
                        /\ IdentityEffective(c, hand.target, ts)
           lacking   == \E k \in hand.capabilities :
                          /\ ~HoldsCapability(c, hand.target, k, ts)
                          /\ Delegated(c, hand.target, k, ts) = {}
<1>1. CASE r.id \notin DOMAIN c.handoffs
  BY <1>1, ProperIntents, Refusals DEF Handoff
<1>2. CASE r.id \in DOMAIN c.handoffs /\ ~effective
  BY <1>2, PartiesProper DEF Handoff
<1>3. CASE r.id \in DOMAIN c.handoffs /\ effective /\ lacking
  <2>1. Fields(violation, "policy_violation", hand.source, hand.target, NoRef, NoRef, r.id,
               NoRef, NoRef, NoRef, NoRef, NoRef)
    BY DEF Fields, Violation, By, NoReferences
  <2>2. Standing(c, violation, ts) /\ Declared(c, violation)
    BY <1>3, <2>1 DEF Standing, Declared, Fields
  <2>3. Handoff(c, r, ts) = Deny("HANDOFF_AUTHORITY", <<violation>>)
    BY <1>3 DEF Handoff
  <2>4. violation.type = "policy_violation"
    BY <2>1 DEF Fields
  <2> HIDE DEF violation
  <2> QED BY <2>2, <2>3, <2>4, ViolationProper
<1>4. CASE r.id \in DOMAIN c.handoffs /\ effective /\ ~lacking
  BY <1>4, ProperIntents, Refusals DEF Handoff
<1> QED BY <1>1, <1>2, <1>3, <1>4

\* A share request records at most the violation of the party that shares.
LEMMA ShareProper ==
  ASSUME NEW c, WellFormed(c), NEW r, NEW ts
  PROVE  Proper(c, DataShare(c, r, ts), ts)
<1> DEFINE violation == [Violation(r.actor) EXCEPT !.target = r.target]
           effective == IdentityEffective(c, r.actor, ts) /\ IdentityEffective(c, r.target, ts)
<1>1. CASE ~effective
  BY <1>1, PartiesProper DEF DataShare
<1>2. CASE effective
  <2>1. Fields(violation, "policy_violation", r.actor, r.target, NoRef, NoRef, NoRef, NoRef,
               NoRef, NoRef, NoRef, NoRef)
    BY DEF Fields, Violation, By, NoReferences
  <2>2. Standing(c, violation, ts) /\ Declared(c, violation)
    BY <1>2, <2>1 DEF Standing, Declared, Fields
  <2>3. \A code : Proper(c, Deny(code, <<violation>>), ts)
    BY <2>1, <2>2, ViolationProper DEF Fields
  <2>4. Proper(c, Allow(<<>>), ts)
    BY ProperIntents, Refusals
  <2> QED BY <1>2, <2>3, <2>4 DEF DataShare
<1> QED BY <1>1, <1>2

\* An approval is requested by its reference, declared or not.
LEMMA RequestedValidates ==
  ASSUME NEW c, WellFormed(c), NEW actor, NEW ref, NEW ts, IdentityEffective(c, actor, ts)
  PROVE  Validates(c, OfApproval("approval_requested", actor, ref), ts)
<1> DEFINE e == OfApproval("approval_requested", actor, ref)
<1>1. Fields(e, "approval_requested", actor, NoRef, NoRef, NoRef, NoRef, NoRef, NoRef, ref,
             NoRef, NoRef)
  BY Written
<1> HIDE DEF e
<1>2. References!FieldCodes(e) = IF ref = NoRef THEN {"FIELD_REQUIRED"} ELSE {}
  BY <1>1 DEF References!FieldCodes, References!RequiredFields, Fields
<1>3. References!UnknownCodes(c, e) =
        IF ref \in DOMAIN c.approvals \cup {NoRef} THEN {} ELSE {"APPROVAL_UNKNOWN"}
  BY <1>1 DEF References!UnknownCodes, Fields
<1>4. References!PartyCodes(c, e, ts) = {}
  <2>1. Standing(c, e, ts)
    BY <1>1 DEF Standing, Fields
  <2> QED BY <2>1, PartiesClean
<1>5. Codes(c, e, ts) = References!FieldCodes(e) \cup References!UnknownCodes(c, e)
  <2>1. e.type = "approval_requested"
    BY <1>1 DEF Fields
  <2> QED BY <1>4, <2>1, OthersClean DEF Codes, References!ReferenceCodes
<1>6. NoRef \notin DOMAIN c.approvals
  BY DEF WellFormed
<1>7. e.type = "approval_requested" /\ e.approval = ref
  BY <1>1 DEF Fields
<1>8. Validates(c, e, ts)
  BY <1>2, <1>3, <1>5, <1>6, <1>7 DEF Validates, Excused
<1> QED BY <1>8 DEF e

\* A grant or rejection of a declared approval; a grant names a human in a role of the
\* requirement.
LEMMA OutcomeValidates ==
  ASSUME NEW c, WellFormed(c), NEW actor, NEW a, NEW ts, NEW type,
         IdentityEffective(c, actor, ts), a.ref \in DOMAIN c.approvals, a.type # NoRef,
         \/ type = "approval_rejected"
         \/ type = "approval_granted" /\ a.type = "human" /\ a.role \in c.approvals[a.ref].roles
  PROVE  Validates(c, [OfApproval(type, actor, a.ref) EXCEPT !.approver = a.type,
                                                             !.role = a.role], ts)
<1> DEFINE e == [OfApproval(type, actor, a.ref) EXCEPT !.approver = a.type, !.role = a.role]
<1>1. Fields(e, type, actor, NoRef, NoRef, NoRef, NoRef, NoRef, NoRef, a.ref, a.type, a.role)
  BY DEF Fields, OfApproval, By, NoReferences
<1> HIDE DEF e
<1>2. References!FieldCodes(e) = {}
  BY <1>1 DEF References!FieldCodes, References!RequiredFields, Fields, WellFormed
<1>3. References!UnknownCodes(c, e) = {}
  <2>1. Declared(c, e)
    BY <1>1 DEF Declared, Fields
  <2> QED BY <2>1, DeclaredClean
<1>4. References!PartyCodes(c, e, ts) = {}
  <2>1. Standing(c, e, ts)
    BY <1>1 DEF Standing, Fields
  <2> QED BY <2>1, PartiesClean
<1>5. Codes(c, e, ts) = References!ApproverCodes(c, e)
  <2>1. e.type \in {"approval_granted", "approval_rejected"}
    BY <1>1 DEF Fields
  <2> QED BY <1>2, <1>3, <1>4, <2>1, OthersClean DEF Codes, References!ReferenceCodes
<1>6. CASE type = "approval_rejected"
  <2>1. References!ApproverCodes(c, e) = {}
    BY <1>1, <1>6, OthersClean DEF Fields
  <2> QED BY <1>5, <2>1 DEF Validates, e
<1>7. CASE /\ type = "approval_granted" /\ a.type = "human"
           /\ a.role \in c.approvals[a.ref].roles
  <2>1. \/ References!ApproverCodes(c, e) = {}
        \/ /\ References!ApproverCodes(c, e) = {"APPROVAL_ROLE_INVALID"}
           /\ e.role \notin References!ModuleRoles(c) \cup {NoRef}
    BY <1>1, <1>7 DEF References!ApproverCodes, Fields
  <2>2. a.ref = NetworkApproval => a.role \in References!ModuleRoles(c) \cup {NoRef}
    BY <1>7 DEF References!ModuleRoles
  <2>3. e.type = "approval_granted" /\ e.approval = a.ref /\ e.role = a.role
    BY <1>1, <1>7 DEF Fields
  <2>4. Validates(c, e, ts)
    BY <1>5, <1>7, <2>1, <2>2, <2>3 DEF Validates, Excused
  <2> QED BY <2>4 DEF e
<1> QED BY <1>6, <1>7

\* An approval request: a decided approval is requested and granted or rejected.
LEMMA ApprovalProper ==
  ASSUME NEW c, WellFormed(c), NEW actor, NEW a, NEW governed, NEW ts, a.type # NoRef
  PROVE  Proper(c, Approval(c, actor, a, governed, ts), ts)
<1> DEFINE req       == c.approvals[a.ref]
           code      == ApprovalCode(c, req, a, IF governed = {} THEN req.actions ELSE governed, ts)
           requested == OfApproval("approval_requested", actor, a.ref)
           granted   == [OfApproval("approval_granted", actor, a.ref)
                           EXCEPT !.approver = a.type, !.role = a.role]
           rejected  == [OfApproval("approval_rejected", actor, a.ref)
                           EXCEPT !.approver = a.type, !.role = a.role]
<1>1. CASE ~IdentityEffective(c, actor, ts)
  BY <1>1, PartyProper DEF Approval
<1>2. CASE IdentityEffective(c, actor, ts) /\ a.ref \notin DOMAIN c.approvals
  <2>1. Validates(c, requested, ts)
    BY <1>2, RequestedValidates
  <2>2. Approval(c, actor, a, governed, ts).intents = <<requested>>
    BY <1>2, Refusals DEF Approval
  <2> HIDE DEF requested
  <2> QED BY <2>1, <2>2, ProperIntents
<1>3. CASE IdentityEffective(c, actor, ts) /\ a.ref \in DOMAIN c.approvals
  <2>1. Validates(c, requested, ts)
    BY <1>3, RequestedValidates
  <2>2. Validates(c, rejected, ts)
    BY <1>3, OutcomeValidates
  <2>3. CASE code = "ALLOWED"
    <3>1. a.type = "human" /\ a.role \in req.roles
      BY <2>3 DEF ApprovalCode
    <3>2. Validates(c, granted, ts)
      BY <1>3, <3>1, OutcomeValidates
    <3>3. Approval(c, actor, a, governed, ts).intents = <<requested, granted>>
      BY <1>3, <2>3, Refusals DEF Approval
    <3> HIDE DEF requested, granted
    <3> QED BY <2>1, <3>2, <3>3, ProperIntents
  <2>4. CASE code # "ALLOWED"
    <3>1. Approval(c, actor, a, governed, ts).intents = <<requested, rejected>>
      BY <1>3, <2>4, Refusals DEF Approval
    <3> HIDE DEF requested, rejected
    <3> QED BY <2>1, <2>2, <3>1, ProperIntents
  <2> QED BY <2>3, <2>4
<1> QED BY <1>1, <1>2, <1>3

\* A violation that names two declared zones, or neither.
LEMMA ZoneViolation ==
  ASSUME NEW c, NEW actor, NEW source, NEW zone, NEW ts, NEW code,
         IdentityEffective(c, actor, ts), {source, zone} \subseteq DOMAIN c.zones \cup {NoRef}
  PROVE  Proper(c, Deny(code, <<OfZones("policy_violation", actor, source, zone)>>), ts)
<1> DEFINE e == OfZones("policy_violation", actor, source, zone)
<1>1. Fields(e, "policy_violation", actor, NoRef, NoRef, NoRef, NoRef, source, zone, NoRef,
             NoRef, NoRef)
  BY Written
<1> HIDE DEF e
<1>2. Standing(c, e, ts) /\ Declared(c, e) /\ e.type = "policy_violation"
  BY <1>1 DEF Standing, Declared, Fields
<1>3. Proper(c, Deny(code, <<e>>), ts)
  BY <1>2, ViolationProper
<1> QED BY <1>3 DEF e

\* An external crossing: a violation, a request for an approval, or an approval.
LEMMA ExternalProper ==
  ASSUME NEW c, WellFormed(c), NEW r, NEW ts, IdentityEffective(c, r.actor, ts),
         {r.source, r.zone} \subseteq DOMAIN c.zones,
         r.approval # NoRef => r.approval.type # NoRef
  PROVE  Proper(c, ExternalCrossing(c, r, ts), ts)
<1> DEFINE gates     == GoverningGates(c, r.source, r.zone)
           requiring == {g \in gates : r.approval.ref \in g.approvals}
           expected  == UNION {g.approvals : g \in gates}
           ref       == IF expected = {} THEN NoRef ELSE CHOOSE x \in expected : TRUE
           violation == OfZones("policy_violation", r.actor, r.source, r.zone)
           requested == OfApproval("approval_requested", r.actor, ref)
<1>1. \A code : Proper(c, Deny(code, <<violation>>), ts)
  BY ZoneViolation
<1>2. CASE gates # {} /\ r.approval = NoRef
  <2>1. Validates(c, requested, ts)
    BY RequestedValidates
  <2>2. ExternalCrossing(c, r, ts).intents = <<requested>>
    BY <1>2 DEF ExternalCrossing
  <2> HIDE DEF requested
  <2> QED BY <2>1, <2>2, ProperIntents
<1>3. CASE /\ gates # {} /\ r.approval # NoRef /\ requiring # {}
           /\ ~(\A g \in requiring : r.approval.action \notin g.actions)
  <2>1. ExternalCrossing(c, r, ts) = Approval(c, r.actor, r.approval, {r.approval.action}, ts)
    BY <1>3 DEF ExternalCrossing
  <2>2. r.approval.type # NoRef
    BY <1>3
  <2> QED BY <2>1, <2>2, ApprovalProper
<1>4. CASE \/ gates = {}
           \/ r.approval # NoRef /\ requiring = {}
           \/ r.approval # NoRef /\ \A g \in requiring : r.approval.action \notin g.actions
  <2>1. \E code : ExternalCrossing(c, r, ts) = Deny(code, <<violation>>)
    BY <1>4 DEF ExternalCrossing
  <2> HIDE DEF violation
  <2> QED BY <1>1, <2>1
<1> QED BY <1>2, <1>3, <1>4

\* A zone crossing names its zones only where they are declared.
LEMMA CrossingProper ==
  ASSUME NEW c, WellFormed(c), NEW r, NEW ts, r.approval # NoRef => r.approval.type # NoRef
  PROVE  Proper(c, ZoneCrossing(c, r, ts), ts)
<1> DEFINE declared(z) == IF z \in DOMAIN c.zones THEN z ELSE NoRef
           stray     == OfZones("policy_violation", r.actor, declared(r.source), declared(r.zone))
           violation == OfZones("policy_violation", r.actor, r.source, r.zone)
<1>1. CASE ~IdentityEffective(c, r.actor, ts)
  BY <1>1, PartyProper DEF ZoneCrossing
<1>2. CASE /\ IdentityEffective(c, r.actor, ts)
           /\ r.source \notin DOMAIN c.zones \/ r.zone \notin c.zones[r.source].targets
  <2>1. Proper(c, Deny("ZONE_CROSSING_DENIED", <<stray>>), ts)
    BY <1>2, ZoneViolation
  <2> QED BY <1>2, <2>1 DEF ZoneCrossing
<1>3. CASE /\ IdentityEffective(c, r.actor, ts)
           /\ r.source \in DOMAIN c.zones /\ r.zone \in c.zones[r.source].targets
  <2>1. {r.source, r.zone} \subseteq DOMAIN c.zones
    BY <1>3 DEF WellFormed
  <2>2. Proper(c, Deny("ZONE_CROSSING_DENIED", <<violation>>), ts)
    BY <1>3, <2>1, ZoneViolation
  <2>3. Proper(c, ExternalCrossing(c, r, ts), ts)
    BY <1>3, <2>1, ExternalProper
  <2>4. Proper(c, Allow(<<>>), ts)
    BY ProperIntents, Refusals
  <2> HIDE DEF violation
  <2>5. \/ ZoneCrossing(c, r, ts) = Deny("ZONE_CROSSING_DENIED", <<violation>>)
        \/ ZoneCrossing(c, r, ts) = ExternalCrossing(c, r, ts)
        \/ ZoneCrossing(c, r, ts) = Allow(<<>>)
    BY <1>3, <2>1 DEF ZoneCrossing, violation
  <2> QED BY <2>2, <2>3, <2>4, <2>5
<1> QED BY <1>1, <1>2, <1>3

\* A request that the facade can present.
Presentable(r) ==
  /\ r.kind \in {"capability", "delegation", "handoff", "approval", "crossing", "share"}
  /\ r.kind = "approval" => r.approval.type # NoRef
  /\ r.kind = "crossing" /\ r.approval # NoRef => r.approval.type # NoRef

\* The decision core and the validator agree, for every request, contract and instant:
\* whatever evaluate decides, its evidence validates at the instant of the decision,
\* but for the exceptions of Excused.
THEOREM EvidenceOfDecisionsValidates ==
  ASSUME NEW c, WellFormed(c), NEW r, Presentable(r), NEW ts
  PROVE  Proper(c, Evaluate(c, r, ts, c.revision), ts)
<1> DEFINE d == Evaluate(c, r, ts, c.revision)
<1>1. CASE r.kind = "capability"
  <2>1. d = Capability(c, r, ts)
    BY <1>1 DEF Evaluate
  <2> QED BY <2>1, CapabilityProper
<1>2. CASE r.kind = "delegation"
  <2>1. d = Delegation(c, r, ts)
    BY <1>2 DEF Evaluate
  <2> QED BY <2>1, DelegationProper
<1>3. CASE r.kind = "handoff"
  <2>1. d = Handoff(c, r, ts)
    BY <1>3 DEF Evaluate
  <2> QED BY <2>1, HandoffProper
<1>4. CASE r.kind = "approval"
  <2>1. d = Approval(c, r.actor, r.approval, {}, ts)
    BY <1>4 DEF Evaluate
  <2>2. r.approval.type # NoRef
    BY <1>4 DEF Presentable
  <2> QED BY <2>1, <2>2, ApprovalProper
<1>5. CASE r.kind = "crossing"
  <2>1. d = ZoneCrossing(c, r, ts)
    BY <1>5 DEF Evaluate
  <2>2. r.approval # NoRef => r.approval.type # NoRef
    BY <1>5 DEF Presentable
  <2> QED BY <2>1, <2>2, CrossingProper
<1>6. CASE r.kind = "share"
  <2>1. d = DataShare(c, r, ts)
    BY <1>6 DEF Evaluate
  <2> QED BY <2>1, ShareProper
<1> QED BY <1>1, <1>2, <1>3, <1>4, <1>5, <1>6 DEF Presentable

-----------------------------------------------------------------------------
(* The kernel's stream.                                                    *)

\* Every element of a concatenation comes from one of its parts.
LEMMA Concatenation ==
  ASSUME NEW s, NEW t, IsSequence(s), IsSequence(t)
  PROVE  /\ IsSequence(s \o t)
         /\ \A i \in DOMAIN (s \o t) : \/ \E j \in DOMAIN s : (s \o t)[i] = s[j]
                                       \/ \E j \in DOMAIN t : (s \o t)[i] = t[j]
<1>1. PICK S : s \in Seq(S)
  BY DEF IsSequence
<1>2. PICK T : t \in Seq(T)
  BY DEF IsSequence
<1> DEFINE U == S \cup T
<1>3. s \in Seq(U) /\ t \in Seq(U)
  BY <1>1, <1>2
<1> HIDE DEF U
<1>4. s \o t \in Seq(U)
  BY <1>3
<1>5. ASSUME NEW i \in DOMAIN (s \o t)
      PROVE  \/ \E j \in DOMAIN s : (s \o t)[i] = s[j]
             \/ \E j \in DOMAIN t : (s \o t)[i] = t[j]
  <2>1. Len(s) \in Nat /\ Len(t) \in Nat /\ i \in 1..(Len(s) + Len(t))
    BY <1>3, <1>4
  <2>2. CASE i <= Len(s)
    BY <1>3, <2>1, <2>2
  <2>3. CASE i > Len(s)
    <3>1. i - Len(s) \in DOMAIN t /\ (s \o t)[i] = t[i - Len(s)]
      BY <1>3, <2>1, <2>3
    <3> QED BY <3>1
  <2> QED BY <2>1, <2>2, <2>3
<1> QED BY <1>4, <1>5 DEF IsSequence

\* A stamped batch holds the events it was given, all at one instant.
LEMMA Stamped ==
  ASSUME NEW mission, NEW at, NEW events, IsSequence(events)
  PROVE  /\ IsSequence(Stamp(mission, at, events))
         /\ DOMAIN Stamp(mission, at, events) = DOMAIN events
         /\ \A i \in DOMAIN events : /\ Stamp(mission, at, events)[i].at = at
                                     /\ Stamp(mission, at, events)[i].event = events[i]
<1>1. PICK S : events \in Seq(S)
  BY DEF IsSequence
<1> DEFINE stamped == Stamp(mission, at, events)
           T == {stamped[i] : i \in DOMAIN events}
<1>2. stamped \in [DOMAIN events -> T]
  BY DEF Stamp
<1>3. DOMAIN events = 1..Len(events) /\ Len(events) \in Nat
  BY <1>1
<1>4. stamped \in Seq(T)
  <2> HIDE DEF stamped, T
  <2> QED BY <1>2, <1>3
<1>5. IsSequence(stamped)
  <2> HIDE DEF stamped, T
  <2> QED BY <1>4, Zenon DEF IsSequence
<1> QED BY <1>5 DEF Stamp

\* A recorder without events is always resumed.
LEMMA EmptyStream ==
  ASSUME NEW c
  PROVE  StreamCodes(c, <<>>) = {}
  BY DEF StreamCodes

\* What the kernel keeps: a stream of accountable events, calls that wait for an
\* observation and for nothing else, and a clock that has left the recorder behind
\* as soon as there is something to validate.
CallsObserve(s) ==
  /\ IsSequence(s)
  /\ \A i \in DOMAIN s :
       s[i].event.type \in ObservationTypes /\ "type" \in DOMAIN s[i].event
StreamAccountable(c, s) ==
  /\ IsSequence(s)
  /\ \A i \in DOMAIN s :
       s[i].event.type \notin ObservationTypes => Validates(c, s[i].event, s[i].at)
KInv ==
  /\ contract \in Contracts
  /\ clock \in Nat /\ contextAt \in Nat
  /\ StreamAccountable(contract, stream)
  /\ CallsObserve(calls)
  /\ Step # 0 /\ stream # <<>> => contextAt < clock

\* A new kernel satisfies the invariant.
LEMMA KInvInit == Init => KInv
<1> SUFFICES ASSUME Init PROVE KInv
  OBVIOUS
<1>1. <<>> \in Seq({}) /\ DOMAIN <<>> = {}
  OBVIOUS
<1>2. IsSequence(<<>>)
  BY <1>1, Zenon DEF IsSequence
<1> QED BY <1>1, <1>2, KernelAssumption DEF Init, KInv, StreamAccountable, CallsObserve

\* A step that adds a batch only if the recorder continues keeps the clock ahead.
LEMMA ClockAhead ==
  ASSUME KInv, Advance, ~Continues => stream' = stream
  PROVE  /\ contract' \in Contracts /\ contract' = contract
         /\ clock' \in Nat /\ contextAt' \in Nat
         /\ Step # 0 /\ stream' # <<>> => contextAt' < clock'
<1>1. Step \in Nat
  BY KernelAssumption
<1>2. CASE Continues
  BY <1>1, <1>2 DEF KInv, Advance
<1>3. CASE ~Continues
  <2>1. stream # <<>>
    BY <1>3, EmptyStream DEF Continues
  <2> QED BY <1>1, <1>3, <2>1 DEF KInv, Advance
<1> QED BY <1>2, <1>3

\* A batch of accountable events keeps the stream accountable.
LEMMA Accountable ==
  ASSUME NEW c, NEW s, StreamAccountable(c, s), NEW mission, NEW at, NEW events,
         IsSequence(events),
         \A i \in DOMAIN events :
           events[i].type \notin ObservationTypes => Validates(c, events[i], at)
  PROVE  StreamAccountable(c, s \o Stamp(mission, at, events))
<1> DEFINE t == Stamp(mission, at, events)
<1>1. /\ IsSequence(t) /\ DOMAIN t = DOMAIN events
      /\ \A i \in DOMAIN t : t[i].at = at /\ t[i].event = events[i]
  BY Stamped
<1> HIDE DEF t
<1>2. IsSequence(s) /\ \A j \in DOMAIN s :
        s[j].event.type \notin ObservationTypes => Validates(c, s[j].event, s[j].at)
  BY DEF StreamAccountable
<1>3. \A j \in DOMAIN t :
        t[j].event.type \notin ObservationTypes => Validates(c, t[j].event, t[j].at)
  BY <1>1
<1>4. StreamAccountable(c, s \o t)
  BY <1>1, <1>2, <1>3, Concatenation DEF StreamAccountable
<1> QED BY <1>4 DEF t

\* What is left of an allowed call is its observation.
LEMMA Awaited ==
  ASSUME NEW mission, NEW work, NEW e, e.type \in ObservationTypes,
         "type" \in DOMAIN e, NEW d
  PROVE  LET rest == <<[mission |-> mission, work |-> work, event |-> e]>>
         IN  CallsObserve([i \in DOMAIN rest |-> [rest[i] EXCEPT !.event.delegation = d]])
<1> DEFINE x    == [mission |-> mission, work |-> work, event |-> e]
           rest == <<x>>
           y    == [x EXCEPT !.event.delegation = d]
           left == [i \in DOMAIN rest |-> [rest[i] EXCEPT !.event.delegation = d]]
<1>1. y.event = [e EXCEPT !.delegation = d]
  OBVIOUS
<1>2. y.event.type = e.type /\ "type" \in DOMAIN y.event
  BY <1>1
<1>3. DOMAIN left = {1} /\ left[1] = y
  OBVIOUS
<1>4. left = <<y>>
  OBVIOUS
<1> HIDE DEF y, left
<1>5. left \in Seq({y})
  BY <1>4
<1>6. IsSequence(left)
  BY <1>5, Zenon DEF IsSequence
<1>7. CallsObserve(left)
  BY <1>2, <1>3, <1>6 DEF CallsObserve
<1> QED BY <1>7 DEF left

\* A decision alone awaits nothing.
LEMMA NothingAwaited ==
  ASSUME NEW d
  PROVE  CallsObserve([i \in DOMAIN <<>> |-> [<<>>[i] EXCEPT !.event.delegation = d]])
<1> DEFINE left == [i \in DOMAIN <<>> |-> [<<>>[i] EXCEPT !.event.delegation = d]]
<1>1. left = <<>>
  OBVIOUS
<1> HIDE DEF left
<1>2. left \in Seq({}) /\ DOMAIN left = {}
  BY <1>1
<1>3. IsSequence(left)
  BY <1>2, Zenon DEF IsSequence
<1>4. CallsObserve(left)
  BY <1>2, <1>3 DEF CallsObserve
<1> QED BY <1>4 DEF left

\* A nested call awaits its observation on top of the others.
LEMMA MoreAwaited ==
  ASSUME NEW s, NEW t, CallsObserve(s), CallsObserve(t)
  PROVE  CallsObserve(s \o t)
<1> DEFINE both == s \o t
<1>1. /\ IsSequence(both)
      /\ \A i \in DOMAIN both : \/ \E j \in DOMAIN s : both[i] = s[j]
                                \/ \E j \in DOMAIN t : both[i] = t[j]
  BY Concatenation DEF CallsObserve
<1> HIDE DEF both
<1>2. CallsObserve(both)
  BY <1>1 DEF CallsObserve
<1> QED BY <1>2 DEF both

\* _authorize keeps the invariant, whatever it decides.
LEMMA AuthorizeKeeps ==
  ASSUME KInv, NEW request, Presentable(request), NEW mission, NEW rest,
         \A d : CallsObserve([i \in DOMAIN rest |-> [rest[i] EXCEPT !.event.delegation = d]]),
         Authorize(request, mission, rest)
  PROVE  KInv'
<1> DEFINE decision == Evaluate(contract, request, clock, contract.revision)
           left == [i \in DOMAIN rest |-> [rest[i] EXCEPT !.event.delegation = decision.delegation]]
           longer == stream \o Stamp(mission, clock, decision.intents)
<1>1. /\ Advance
      /\ stream' = IF Continues THEN longer ELSE stream
      /\ calls' = IF Continues /\ decision.effect = "ALLOW" THEN calls \o left ELSE calls
  BY DEF Authorize
<1>2. Proper(contract, decision, clock)
  BY EvidenceOfDecisionsValidates, LoadedWellFormed DEF KInv
<1>3. CallsObserve(left)
  OBVIOUS
<1> HIDE DEF decision, left
<1>4. StreamAccountable(contract, longer)
  BY <1>2, Accountable DEF KInv, Proper
<1>5. CallsObserve(calls \o left)
  BY <1>3, MoreAwaited DEF KInv
<1> HIDE DEF longer
<1>6. /\ contract' \in Contracts /\ contract' = contract
      /\ clock' \in Nat /\ contextAt' \in Nat
      /\ Step # 0 /\ stream' # <<>> => contextAt' < clock'
  BY <1>1, ClockAhead
<1>7. StreamAccountable(contract, stream') /\ CallsObserve(calls')
  BY <1>1, <1>4, <1>5 DEF KInv
<1> QED BY <1>6, <1>7 DEF KInv, StreamAccountable, CallsObserve

\* _record_observation keeps the invariant: observations are not bound by it.
LEMMA ObserveKeeps ==
  ASSUME KInv, calls # <<>>, NEW type \in ObservationTypes, Observe(type)
  PROVE  KInv'
<1> DEFINE call == calls[Len(calls)]
           events == <<[call.event EXCEPT !.type = type]>>
           longer == stream \o Stamp(call.mission, clock, events)
<1>1. PICK S : calls \in Seq(S)
  BY DEF KInv, CallsObserve, IsSequence
<1>2. Len(calls) \in Nat \ {0} /\ Len(calls) \in DOMAIN calls
  BY <1>1
<1>3. events[1].type = type /\ DOMAIN events = {1}
  BY <1>2 DEF KInv, CallsObserve
<1>4. events \in Seq({events[1]})
  OBVIOUS
<1> HIDE DEF events
<1>5. IsSequence(events)
  BY <1>4, Zenon DEF IsSequence
<1>6. StreamAccountable(contract, longer)
  BY <1>3, <1>5, Accountable DEF KInv
<1>7. CallsObserve(calls')
  <2> DEFINE shorter == SubSeq(calls, 1, Len(calls) - 1)
  <2>1. shorter \in Seq(S) /\ \A i \in DOMAIN shorter : i \in DOMAIN calls /\ shorter[i] = calls[i]
    BY <1>1, <1>2
  <2> HIDE DEF shorter
  <2>2. IsSequence(shorter)
    BY <2>1, Zenon DEF IsSequence
  <2>3. CallsObserve(shorter)
    BY <2>1, <2>2 DEF KInv, CallsObserve
  <2> QED BY <2>3 DEF Observe, shorter
<1>8. Advance /\ stream' = IF Continues THEN longer ELSE stream
  BY DEF Observe, events
<1> HIDE DEF longer
<1>9. /\ contract' \in Contracts /\ contract' = contract
      /\ clock' \in Nat /\ contextAt' \in Nat
      /\ Step # 0 /\ stream' # <<>> => contextAt' < clock'
  BY <1>8, ClockAhead
<1>10. StreamAccountable(contract, stream')
  BY <1>6, <1>8 DEF KInv
<1> QED BY <1>7, <1>9, <1>10 DEF KInv, StreamAccountable, CallsObserve

\* So does every call of the facade.
LEMMA CallKeeps ==
  ASSUME KInv, NEW mission, Call(mission)
  PROVE  KInv'
<1>1. ASSUME NEW r \in Requests, Check(r, mission)
      PROVE  KInv'
  <2>1. Presentable(r) /\ Authorize(r, mission, <<>>)
    BY <1>1 DEF Check, Presentable
  <2> QED BY <2>1, NothingAwaited, AuthorizeKeeps
<1>2. ASSUME NEW r \in Requests, Execute(r, mission)
      PROVE  KInv'
  <2> DEFINE e == OfCapability("tool_invoked", r.actor, r.capability)
  <2>1. e.type = "tool_invoked" /\ "type" \in DOMAIN e
    BY DEF OfCapability, By, NoReferences
  <2>2. Presentable(r) /\ Authorize(r, mission, Working(mission, e))
    BY <1>2 DEF Execute, Presentable
  <2> HIDE DEF e
  <2>3. e.type \in ObservationTypes
    BY <2>1 DEF ObservationTypes
  <2> QED BY <2>1, <2>2, <2>3, Awaited, AuthorizeKeeps DEF Working
<1>3. ASSUME NEW r \in Requests, RequestHandoff(r, mission)
      PROVE  KInv'
  <2> DEFINE e == HandoffEvent("handoff_initiated", r.id)
  <2>1. e.type = "handoff_initiated" /\ "type" \in DOMAIN e
    BY DEF HandoffEvent, By, NoReferences
  <2>2. Presentable(r) /\ Authorize(r, mission, Observing(mission, e))
    BY <1>3 DEF RequestHandoff, Presentable
  <2> HIDE DEF e
  <2>3. e.type \in ObservationTypes
    BY <2>1 DEF ObservationTypes
  <2> QED BY <2>1, <2>2, <2>3, Awaited, AuthorizeKeeps DEF Observing
<1>4. ASSUME NEW r \in Requests, ShareData(r, mission)
      PROVE  KInv'
  <2> DEFINE e == [OfZones("data_shared", r.actor, r.source, r.zone)
                     EXCEPT !.target = r.target, !.categories = r.categories]
  <2>1. e.type = "data_shared" /\ "type" \in DOMAIN e
    BY DEF OfZones, By, NoReferences
  <2>2. Presentable(r) /\ Authorize(r, mission, Observing(mission, e))
    BY <1>4 DEF ShareData, Presentable
  <2> HIDE DEF e
  <2>3. e.type \in ObservationTypes
    BY <2>1 DEF ObservationTypes
  <2> QED BY <2>1, <2>2, <2>3, Awaited, AuthorizeKeeps DEF Observing
<1>5. ASSUME NEW h \in DOMAIN contract.handoffs, CompleteHandoff(h, mission)
      PROVE  KInv'
  <2> DEFINE e      == HandoffEvent("handoff_completed", h)
             events == <<e>>
             longer == stream \o Stamp(mission, clock, events)
  <2>1. e.type = "handoff_completed"
    BY DEF HandoffEvent, By, NoReferences
  <2>2. /\ Advance /\ calls' = calls
        /\ stream' = IF Continues THEN longer ELSE stream
    BY <1>5 DEF CompleteHandoff
  <2> HIDE DEF e
  <2>3. events \in Seq({e}) /\ DOMAIN events = {1} /\ events[1] = e
    OBVIOUS
  <2> HIDE DEF events
  <2>4. IsSequence(events)
    BY <2>3, Zenon DEF IsSequence
  <2>5. StreamAccountable(contract, longer)
    BY <2>1, <2>3, <2>4, Accountable DEF KInv, ObservationTypes
  <2> HIDE DEF longer
  <2>6. /\ contract' \in Contracts /\ contract' = contract
        /\ clock' \in Nat /\ contextAt' \in Nat
        /\ Step # 0 /\ stream' # <<>> => contextAt' < clock'
    BY <2>2, ClockAhead
  <2>7. StreamAccountable(contract, stream')
    BY <2>2, <2>5 DEF KInv
  <2> QED BY <2>2, <2>6, <2>7 DEF KInv, StreamAccountable, CallsObserve
<1>6. ASSUME NEW actor, NEW ref, NEW record \in Records,
             RequireApproval(actor, ref, record, mission)
      PROVE  KInv'
  <2> DEFINE r == [kind |-> "approval", actor |-> actor,
                   approval |-> Assertion(ref, record, NoRef)]
  <2>1. r.kind = "approval" /\ r.approval.type = record.type
    BY DEF Assertion
  <2>2. Authorize(r, mission, <<>>)
    BY <1>6 DEF RequireApproval
  <2> HIDE DEF r
  <2>3. Presentable(r)
    BY <2>1, ReferenceAssumption DEF Presentable
  <2> QED BY <2>2, <2>3, NothingAwaited, AuthorizeKeeps
<1>7. ASSUME NEW x \in Crossings, CrossZone(x, mission)
      PROVE  KInv'
  <2> DEFINE e == [OfZones("trust_zone_crossed", x.actor, x.source, x.zone)
                     EXCEPT !.approval = x.approval]
             Request(assertion) == [kind |-> "crossing", actor |-> x.actor, source |-> x.source,
                                    zone |-> x.zone, approval |-> assertion]
  <2>1. e.type = "trust_zone_crossed" /\ "type" \in DOMAIN e
    BY DEF OfZones, By, NoReferences
  <2>2. \E assertion :
          /\ assertion # NoRef => assertion.type # NoRef
          /\ Authorize(Request(assertion), mission, Observing(mission, e))
    <3>1. CASE Authorize(Request(NoRef), mission, Observing(mission, e))
      BY <3>1
    <3>2. CASE \E role \in contract.approvals[x.approval].roles :
                 Authorize(Request(Assertion(x.approval, Granted(role),
                                             ZoneAction(x.source, x.zone, x.approval))),
                           mission, Observing(mission, e))
      <4>1. PICK role : Authorize(Request(Assertion(x.approval, Granted(role),
                                                    ZoneAction(x.source, x.zone, x.approval))),
                                  mission, Observing(mission, e))
        BY <3>2
      <4>2. Assertion(x.approval, Granted(role), ZoneAction(x.source, x.zone, x.approval)).type
              = "human"
        BY DEF Assertion, Granted
      <4> QED BY <4>1, <4>2, ReferenceAssumption
    <3> QED BY <1>7, <3>1, <3>2 DEF CrossZone
  <2>3. PICK assertion :
          /\ assertion # NoRef => assertion.type # NoRef
          /\ Authorize(Request(assertion), mission, Observing(mission, e))
    BY <2>2
  <2>4. Presentable(Request(assertion))
    BY <2>3 DEF Presentable
  <2> HIDE DEF e, Request
  <2>5. e.type \in ObservationTypes
    BY <2>1 DEF ObservationTypes
  <2> QED BY <2>1, <2>3, <2>4, <2>5, Awaited, AuthorizeKeeps DEF Observing
<1> QED BY <1>1, <1>2, <1>3, <1>4, <1>5, <1>6, <1>7 DEF Call

\* And every step.
LEMMA KInvNext == KInv /\ [Next]_vars => KInv'
<1> SUFFICES ASSUME KInv, [Next]_vars
             PROVE  KInv'
  OBVIOUS
<1>1. ASSUME NEW m \in Missions, Call(m)
      PROVE  KInv'
  BY <1>1, CallKeeps
<1>2. CASE Finish
  <2>1. PICK type \in {"tool_invoked", "runtime_failed"} : Observe(type)
    BY <1>2 DEF Finish
  <2>2. calls # <<>> /\ type \in ObservationTypes
    BY <1>2 DEF Finish, ObservationTypes
  <2> QED BY <2>1, <2>2, ObserveKeeps
<1>3. CASE Note
  <2> DEFINE type == calls[Len(calls)].event.type
  <2>1. calls # <<>> /\ Observe(type)
    BY <1>3 DEF Note
  <2>2. type \in ObservationTypes
    <3>1. PICK S : calls \in Seq(S)
      BY DEF KInv, CallsObserve, IsSequence
    <3>2. Len(calls) \in DOMAIN calls
      BY <2>1, <3>1
    <3> QED BY <3>2 DEF KInv, CallsObserve
  <2> HIDE DEF type
  <2> QED BY <2>1, <2>2, ObserveKeeps
<1>4. CASE UNCHANGED vars
  BY <1>4 DEF vars, KInv, StreamAccountable, CallsObserve
<1> QED BY <1>1, <1>2, <1>3, <1>4 DEF Next

\* KInv holds of every reachable state: the evidence is accountable, the calls in
\* progress wait for an observation, and the clock is ahead of a recorder with events.
THEOREM KernelInvariant == Spec => []KInv
  BY KInvInit, KInvNext, PTL DEF Spec

\* Whatever contract a kernel is loaded with and whatever it is asked, the validator
\* accepts the evidence of its decisions but for the three exceptions of Excused.
THEOREM DecisionsAlwaysValidate == Spec => []DecisionsValidate
<1>1. KInv => DecisionsValidate
  BY DEF KInv, StreamAccountable, DecisionsValidate
<1> QED BY <1>1, KernelInvariant, PTL

\* A kernel whose clock moves adds nothing to a stream that does not validate,
\* however deeply its calls are nested.
THEOREM AlwaysFailsClosed ==
  ASSUME Step # 0
  PROVE  Spec => FailsClosed
<1>1. ASSUME KInv, StreamCodes(contract, stream) # {}, [Next]_vars
      PROVE  stream' = stream
  <2>1. ~Continues
    BY <1>1, EmptyStream DEF KInv, Continues
  <2>2. CASE UNCHANGED vars
    BY <2>2 DEF vars
  <2>3. ASSUME NEW request, NEW mission, NEW rest, Authorize(request, mission, rest)
        PROVE  stream' = stream
    BY <2>1, <2>3 DEF Authorize
  <2>4. ASSUME NEW type, Observe(type)
        PROVE  stream' = stream
    BY <2>1, <2>4 DEF Observe
  <2>5. ASSUME NEW m \in Missions, Call(m)
        PROVE  stream' = stream
    <3>1. ASSUME NEW r \in Requests,
                 Check(r, m) \/ Execute(r, m) \/ RequestHandoff(r, m) \/ ShareData(r, m)
          PROVE  stream' = stream
      BY <2>3, <3>1 DEF Check, Execute, RequestHandoff, ShareData
    <3>2. ASSUME NEW h, CompleteHandoff(h, m)
          PROVE  stream' = stream
      BY <2>1, <3>2 DEF CompleteHandoff
    <3>3. ASSUME NEW actor, NEW ref, NEW record, RequireApproval(actor, ref, record, m)
          PROVE  stream' = stream
      BY <2>3, <3>3 DEF RequireApproval
    <3>4. ASSUME NEW x, CrossZone(x, m)
          PROVE  stream' = stream
      BY <2>3, <3>4 DEF CrossZone
    <3> QED BY <2>5, <3>1, <3>2, <3>3, <3>4 DEF Call
  <2> QED BY <1>1, <2>2, <2>4, <2>5 DEF Next, Finish, Note
<1>2. KInv /\ [Next]_vars => (StreamCodes(contract, stream) # {} => stream' = stream)
  BY <1>1
<1> QED BY <1>2, KernelInvariant, PTL DEF Spec, FailsClosed

-----------------------------------------------------------------------------
(* What the batches of a stream are made of.                               *)

\* The right that a capability decision looks for.
Right(c, actor, capability, ts) ==
  HoldsCapability(c, actor, capability, ts) \/ Delegated(c, actor, capability, ts) # {}

\* The second intent of a decision answers the first.
Answers(c, e, f, ts) ==
  \/ /\ e.type = "capability_requested" /\ f.type \in {"capability_allowed", "capability_denied"}
     /\ f.type = "capability_allowed" => Right(c, f.actor, f.capability, ts)
     /\ f.type = "capability_denied" => ~Right(c, f.actor, f.capability, ts)
  \/ /\ e.type = "delegation_requested" /\ f.type \in {"delegation_accepted", "delegation_rejected"}
     /\ f.delegation = e.delegation
  \/ /\ e.type = "approval_requested" /\ f.type \in {"approval_granted", "approval_rejected"}
     /\ f.approval = e.approval

\* The intents of a decision: none, a violation or an open request, or a request
\* and its answer.
Wellmade(c, events, ts) ==
  \/ events = <<>>
  \/ \E e : events = <<e>> /\ e.type \in {"policy_violation", "approval_requested"}
  \/ \E e, f : events = <<e, f>> /\ Answers(c, e, f, ts)

\* An observation names what its call was made for, and nothing else.
Seen(c, e) ==
  /\ DOMAIN e = DOMAIN NoReferences
  /\ \/ /\ e.type \in {"tool_invoked", "runtime_failed"}
        /\ Fields(e, e.type, e.actor, NoRef, e.capability, e.delegation, NoRef, NoRef, NoRef,
                  NoRef, NoRef, NoRef)
     \/ /\ e.type \in {"handoff_initiated", "handoff_completed"}
        /\ Fields(e, e.type, c.handoffs[e.handoff].source, c.handoffs[e.handoff].target, NoRef,
                  e.delegation, e.handoff, NoRef, NoRef, NoRef, NoRef, NoRef)
     \/ /\ e.type = "trust_zone_crossed"
        /\ Fields(e, e.type, e.actor, NoRef, NoRef, NoRef, NoRef, e.source, e.zone, e.approval,
                  NoRef, NoRef)
        /\ e.source \in DOMAIN c.zones /\ e.zone \in c.zones[e.source].targets
        /\ e.approval \in DOMAIN c.approvals \cup {NoRef}
     \/ /\ e.type = "data_shared"
        /\ Fields(e, e.type, e.actor, e.target, NoRef, e.delegation, NoRef, e.source, e.zone,
                  NoRef, NoRef, NoRef)

\* A call in progress awaits an observation of its own kind.
Awaits(c, call) ==
  /\ Seen(c, call.event)
  /\ call.event.type \in {"tool_invoked", "handoff_initiated", "trust_zone_crossed", "data_shared"}
  /\ call.work = (call.event.type = "tool_invoked")

\* The transitions that a decision opens itself.
SelfOpened == {"delegation_accepted", "delegation_rejected", "approval_granted", "approval_rejected"}

\* What holds of every event of a stream, whoever made it.
EventsInv(c, s) ==
  /\ IsSequence(s)
  /\ \A j \in DOMAIN s : s[j].event.type \in ObservationTypes => Seen(c, s[j].event)
  /\ \A j \in DOMAIN s :
       /\ s[j].event.type = "capability_allowed" =>
            Right(c, s[j].event.actor, s[j].event.capability, s[j].at)
       /\ s[j].event.type = "capability_denied" =>
            ~Right(c, s[j].event.actor, s[j].event.capability, s[j].at)
  /\ \A j \in DOMAIN s : s[j].event.type \in SelfOpened =>
       \E i \in 1..(j - 1) :
         /\ s[i].mission = s[j].mission
         /\ s[i].event.type = Rules!Opener[s[j].event.type]
         /\ Subject(s[i].event) = Subject(s[j].event)

-----------------------------------------------------------------------------
(* How often tools ran and were allowed.                                   *)

Tools == {"tool_invoked", "runtime_failed"}

\* Of the calls in progress as of the events: how many runs a capability still owes.
Budget(s, cs) ==
  \A actor, capability, mission :
    Count(s, Tools, actor, capability, mission)
      + Count(cs, {"tool_invoked"}, actor, capability, mission)
      <= Count(s, {"capability_allowed"}, actor, capability, mission)

\* AllowedAsOften, of any stream.
PrefixBudget(s) ==
  \A n \in DOMAIN s :
    s[n].event.type \in Tools =>
      LET e == s[n].event IN
      Count(SubSeq(s, 1, n), Tools, e.actor, e.capability, s[n].mission)
        <= Count(SubSeq(s, 1, n), {"capability_allowed"}, e.actor, e.capability, s[n].mission)

Runs(s) == Cardinality({i \in DOMAIN s : s[i].event.type \in Tools})

\* The inductive invariant: runs never exceed allowances, the calls in progress
\* counted as runs to come; and every run is recorded unless the recorder refused a
\* stream that does not validate, which it then refuses for good.
OInv ==
  /\ EventsInv(contract, stream)
  /\ IsSequence(calls) /\ \A i \in DOMAIN calls : Awaits(contract, calls[i])
  /\ Budget(stream, calls) /\ PrefixBudget(stream)
  /\ ran \in Nat /\ (StreamCodes(contract, stream) = {} \/ Step = 0 => ran = Runs(stream))
  /\ Step = 0 /\ stream # <<>> => contextAt = clock
  /\ \A i \in DOMAIN stream : stream[i].at \in Nat /\ stream[i].at <= clock

\* A party that is not effective is refused with a violation or nothing.
LEMMA PartyWellmade ==
  ASSUME NEW c, NEW ref, NEW ts
  PROVE  Wellmade(c, PartyRefusal(c, ref).intents, ts) /\ PartyRefusal(c, ref).effect = "DENY"
<1>1. CASE ref \in DOMAIN c.identities
  <2>1. PartyRefusal(c, ref).intents = <<Violation(ref)>> /\ PartyRefusal(c, ref).effect = "DENY"
    BY <1>1 DEF PartyRefusal, Deny
  <2>2. Violation(ref).type = "policy_violation"
    BY DEF Violation, By, NoReferences
  <2> HIDE DEF Violation
  <2> QED BY <2>1, <2>2 DEF Wellmade
<1>2. CASE ref \notin DOMAIN c.identities
  BY <1>2 DEF PartyRefusal, Deny, Wellmade
<1> QED BY <1>1, <1>2

\* Nor do two parties change that.
LEMMA PartiesWellmade ==
  ASSUME NEW c, NEW first, NEW second, NEW ts
  PROVE  /\ Wellmade(c, PartiesRefusal(c, first, second, ts).intents, ts)
         /\ PartiesRefusal(c, first, second, ts).effect = "DENY"
  BY PartyWellmade DEF PartiesRefusal

\* One violation, one request, or a request and its answer.
LEMMA WellmadeIntents ==
  ASSUME NEW c, NEW ts, NEW code, NEW e, NEW f
  PROVE  /\ Wellmade(c, Deny(code, <<>>).intents, ts) /\ Wellmade(c, Allow(<<>>).intents, ts)
         /\ e.type \in {"policy_violation", "approval_requested"} =>
              Wellmade(c, Deny(code, <<e>>).intents, ts) /\ Wellmade(c, <<e>>, ts)
         /\ Answers(c, e, f, ts) => /\ Wellmade(c, Deny(code, <<e, f>>).intents, ts)
                                    /\ Wellmade(c, Allow(<<e, f>>).intents, ts)
<1>1. /\ Deny(code, <<>>).intents = <<>> /\ Allow(<<>>).intents = <<>>
      /\ Deny(code, <<e>>).intents = <<e>>
      /\ Deny(code, <<e, f>>).intents = <<e, f>> /\ Allow(<<e, f>>).intents = <<e, f>>
  BY Refusals
<1>2. Wellmade(c, <<>>, ts)
  BY DEF Wellmade
<1>3. e.type \in {"policy_violation", "approval_requested"} => Wellmade(c, <<e>>, ts)
  BY DEF Wellmade
<1>4. Answers(c, e, f, ts) => Wellmade(c, <<e, f>>, ts)
  BY Zenon DEF Wellmade
<1> QED BY <1>1, <1>2, <1>3, <1>4

\* A capability decision answers its own request, by the right the actor has; an
\* allowance names the actor and the capability of the request.
LEMMA CapabilityWellmade ==
  ASSUME NEW c, NEW r, NEW ts
  PROVE  /\ Wellmade(c, Capability(c, r, ts).intents, ts)
         /\ Capability(c, r, ts).effect = "ALLOW" =>
              \E e, f : /\ Capability(c, r, ts).intents = <<e, f>>
                        /\ f.type = "capability_allowed"
                        /\ f.actor = r.actor /\ f.capability = r.capability
<1> DEFINE received  == Delegated(c, r.actor, r.capability, ts)
           d         == CHOOSE x \in received : TRUE
           requested == OfCapability("capability_requested", r.actor, r.capability)
           allowed   == OfCapability("capability_allowed", r.actor, r.capability)
           lent      == [allowed EXCEPT !.delegation = d]
           denied    == OfCapability("capability_denied", r.actor, r.capability)
           violation == Violation(r.actor)
           decision  == Capability(c, r, ts)
<1>1. CASE ~IdentityEffective(c, r.actor, ts)
  <2>1. decision = PartyRefusal(c, r.actor)
    BY <1>1 DEF Capability
  <2> QED BY <2>1, PartyWellmade
<1>2. CASE IdentityEffective(c, r.actor, ts) /\ r.capability \notin c.capabilities
  <2>1. decision = Deny("CAPABILITY_UNKNOWN", <<violation>>)
    BY <1>2 DEF Capability
  <2>2. violation.type = "policy_violation"
    BY DEF Violation, By, NoReferences
  <2> HIDE DEF decision, violation
  <2>3. Wellmade(c, decision.intents, ts) /\ decision.effect = "DENY"
    BY <2>1, <2>2, WellmadeIntents DEF Deny
  <2> QED BY <2>3 DEF decision
<1>3. /\ requested.type = "capability_requested"
      /\ allowed.type = "capability_allowed" /\ lent.type = "capability_allowed"
      /\ denied.type = "capability_denied"
      /\ allowed.actor = r.actor /\ allowed.capability = r.capability
      /\ lent.actor = r.actor /\ lent.capability = r.capability
      /\ denied.actor = r.actor /\ denied.capability = r.capability
  BY DEF OfCapability, By, NoReferences
<1>4. CASE /\ IdentityEffective(c, r.actor, ts) /\ r.capability \in c.capabilities
           /\ HoldsCapability(c, r.actor, r.capability, ts)
  <2>1. decision = Allow(<<requested, allowed>>)
    BY <1>4 DEF Capability
  <2>2. Answers(c, requested, allowed, ts)
    BY <1>3, <1>4 DEF Answers, Right
  <2> HIDE DEF requested, allowed, decision
  <2>3. Wellmade(c, decision.intents, ts) /\ decision.intents = <<requested, allowed>>
    BY <2>1, <2>2, WellmadeIntents DEF Allow
  <2> QED BY <1>3, <2>3 DEF decision
<1>5. CASE /\ IdentityEffective(c, r.actor, ts) /\ r.capability \in c.capabilities
           /\ ~HoldsCapability(c, r.actor, r.capability, ts) /\ received = {}
  <2>1. decision = Deny("CAPABILITY_DENIED", <<requested, denied>>)
    BY <1>5 DEF Capability
  <2>2. Answers(c, requested, denied, ts)
    BY <1>3, <1>5 DEF Answers, Right
  <2> HIDE DEF requested, denied, decision
  <2>3. Wellmade(c, decision.intents, ts) /\ decision.effect = "DENY"
    BY <2>1, <2>2, WellmadeIntents DEF Deny
  <2> QED BY <2>3 DEF decision
<1>6. CASE /\ IdentityEffective(c, r.actor, ts) /\ r.capability \in c.capabilities
           /\ ~HoldsCapability(c, r.actor, r.capability, ts) /\ received # {}
  <2>1. decision = [Allow(<<requested, lent>>) EXCEPT !.delegation = d]
    BY <1>6 DEF Capability
  <2>2. Answers(c, requested, lent, ts)
    BY <1>3, <1>6 DEF Answers, Right
  <2> HIDE DEF requested, lent, decision, d
  <2>3. decision.intents = <<requested, lent>> /\ decision.intents = Allow(<<requested, lent>>).intents
    BY <2>1 DEF Allow
  <2>4. Wellmade(c, decision.intents, ts)
    BY <2>2, <2>3, WellmadeIntents
  <2> QED BY <1>3, <2>3, <2>4 DEF decision
<1> QED BY <1>1, <1>2, <1>4, <1>5, <1>6

\* A delegation decision answers for the delegation it was requested for.
LEMMA DelegationWellmade ==
  ASSUME NEW c, NEW r, NEW ts
  PROVE  Wellmade(c, Delegation(c, r, ts).intents, ts)
<1> DEFINE del       == c.delegations[r.id]
           requested == [OfDelegation("delegation_requested", del.delegator, r.id)
                           EXCEPT !.target = del.delegate]
           accepted  == OfDelegation("delegation_accepted", del.delegate, r.id)
           rejected  == OfDelegation("delegation_rejected", del.delegate, r.id)
           decision  == Delegation(c, r, ts)
<1>1. /\ Answers(c, requested, accepted, ts) /\ Answers(c, requested, rejected, ts)
  BY DEF Answers, OfDelegation, By, NoReferences
<1> HIDE DEF requested, accepted, rejected
<1>2. \/ decision = Deny("DELEGATION_UNKNOWN", <<>>)
      \/ decision = PartiesRefusal(c, del.delegator, del.delegate, ts)
      \/ decision = Allow(<<requested, accepted>>)
      \/ decision = Deny("DELEGATION_INACTIVE", <<requested, rejected>>)
  BY DEF Delegation, requested, accepted, rejected
<1> HIDE DEF decision
<1>3. Wellmade(c, decision.intents, ts)
  BY <1>1, <1>2, WellmadeIntents, PartiesWellmade
<1> QED BY <1>3 DEF decision

\* A handoff or a share is refused with a violation, or allowed without evidence.
LEMMA HandoffWellmade ==
  ASSUME NEW c, NEW r, NEW ts
  PROVE  Wellmade(c, Handoff(c, r, ts).intents, ts)
<1> DEFINE hand == c.handoffs[r.id]
           violation == [Violation(hand.source) EXCEPT !.target = hand.target, !.handoff = r.id]
           decision == Handoff(c, r, ts)
<1>1. violation.type = "policy_violation"
  BY DEF Violation, By, NoReferences
<1> HIDE DEF violation
<1>2. \/ decision = Deny("HANDOFF_UNKNOWN", <<>>)
      \/ decision = PartiesRefusal(c, hand.source, hand.target, ts)
      \/ decision = Deny("HANDOFF_AUTHORITY", <<violation>>)
      \/ decision = Allow(<<>>)
  BY DEF Handoff, violation
<1> HIDE DEF decision
<1>3. Wellmade(c, decision.intents, ts)
  BY <1>1, <1>2, WellmadeIntents, PartiesWellmade
<1> QED BY <1>3 DEF decision

\* The intents of a data share are well made.
LEMMA ShareWellmade ==
  ASSUME NEW c, NEW r, NEW ts
  PROVE  Wellmade(c, DataShare(c, r, ts).intents, ts)
<1> DEFINE violation == [Violation(r.actor) EXCEPT !.target = r.target]
           decision == DataShare(c, r, ts)
<1>1. violation.type = "policy_violation"
  BY DEF Violation, By, NoReferences
<1> HIDE DEF violation
<1>2. \/ decision = PartiesRefusal(c, r.actor, r.target, ts)
      \/ decision = Deny("SENSITIVE_SHARING", <<violation>>)
      \/ decision = Deny("SHARE_NOT_ALLOWED", <<violation>>)
      \/ decision = Allow(<<>>)
  BY DEF DataShare, violation
<1> HIDE DEF decision
<1>3. Wellmade(c, decision.intents, ts)
  BY <1>1, <1>2, WellmadeIntents, PartiesWellmade
<1> QED BY <1>3 DEF decision

\* An approval decision answers for the approval it was requested for, and rests on
\* no delegation.
LEMMA ApprovalWellmade ==
  ASSUME NEW c, NEW actor, NEW a, NEW governed, NEW ts
  PROVE  /\ Wellmade(c, Approval(c, actor, a, governed, ts).intents, ts)
         /\ Approval(c, actor, a, governed, ts).delegation = NoRef
<1> DEFINE decision == Approval(c, actor, a, governed, ts)
           requested == OfApproval("approval_requested", actor, a.ref)
           granted == [OfApproval("approval_granted", actor, a.ref)
                         EXCEPT !.approver = a.type, !.role = a.role]
           rejected == [OfApproval("approval_rejected", actor, a.ref)
                          EXCEPT !.approver = a.type, !.role = a.role]
           code == ApprovalCode(c, c.approvals[a.ref], a,
                                IF governed = {} THEN c.approvals[a.ref].actions ELSE governed, ts)
<1>1. requested.type = "approval_requested" /\ requested.approval = a.ref
  BY DEF OfApproval, By, NoReferences
<1>2. /\ granted.type = "approval_granted" /\ granted.approval = a.ref
      /\ rejected.type = "approval_rejected" /\ rejected.approval = a.ref
  BY DEF OfApproval, By, NoReferences
<1>3. \/ decision = PartyRefusal(c, actor)
      \/ decision = Deny("REQUEST_MALFORMED", <<requested>>)
      \/ decision = Allow(<<requested, granted>>)
      \/ decision = Deny(code, <<requested, rejected>>)
  BY DEF Approval
<1> HIDE DEF decision, requested, granted, rejected, code
<1>4. Answers(c, requested, granted, ts) /\ Answers(c, requested, rejected, ts)
  BY <1>1, <1>2 DEF Answers
<1>5. Wellmade(c, decision.intents, ts)
  BY <1>1, <1>3, <1>4, WellmadeIntents, PartyWellmade
<1>6. decision.delegation = NoRef
  BY <1>3 DEF PartyRefusal, Deny, Allow
<1> QED BY <1>5, <1>6 DEF decision

\* A crossing is allowed only between declared zones that the contract connects, and
\* rests on no delegation.
LEMMA CrossingWellmade ==
  ASSUME NEW c, NEW r, NEW ts
  PROVE  /\ Wellmade(c, ZoneCrossing(c, r, ts).intents, ts)
         /\ ZoneCrossing(c, r, ts).effect = "ALLOW" =>
              r.source \in DOMAIN c.zones /\ r.zone \in c.zones[r.source].targets
         /\ ZoneCrossing(c, r, ts).delegation = NoRef
<1> DEFINE decision == ZoneCrossing(c, r, ts)
           declared(z) == IF z \in DOMAIN c.zones THEN z ELSE NoRef
           stray     == OfZones("policy_violation", r.actor, declared(r.source), declared(r.zone))
           violation == OfZones("policy_violation", r.actor, r.source, r.zone)
           expected  == UNION {g.approvals : g \in GoverningGates(c, r.source, r.zone)}
           asked     == OfApproval("approval_requested", r.actor,
                                   IF expected = {} THEN NoRef ELSE CHOOSE x \in expected : TRUE)
           waiting   == [effect |-> "APPROVAL_REQUIRED", code |-> "CROSSING_APPROVAL_REQUIRED",
                         delegation |-> NoRef, intents |-> <<asked>>]
           external  == ExternalCrossing(c, r, ts)
           approved  == Approval(c, r.actor, r.approval, {r.approval.action}, ts)
<1>1. stray.type = "policy_violation" /\ violation.type = "policy_violation"
  BY DEF OfZones, By, NoReferences
<1>2. asked.type = "approval_requested"
  BY DEF OfApproval, By, NoReferences
<1> HIDE DEF stray, asked, violation
<1>3. Wellmade(c, external.intents, ts) /\ external.delegation = NoRef
  <2>1. \/ external = Deny("ZONE_CROSSING_DENIED", <<violation>>)
        \/ external = waiting
        \/ external = Deny("CROSSING_APPROVAL_REQUIRED", <<violation>>)
        \/ external = Deny("APPROVAL_ACTION_MISMATCH", <<violation>>)
        \/ external = approved
    BY DEF ExternalCrossing, violation, asked
  <2>2. Wellmade(c, waiting.intents, ts) /\ waiting.delegation = NoRef
    BY <1>2, WellmadeIntents
  <2>3. Wellmade(c, approved.intents, ts) /\ approved.delegation = NoRef
    BY ApprovalWellmade
  <2>4. ASSUME NEW code
        PROVE  Wellmade(c, Deny(code, <<violation>>).intents, ts)
               /\ Deny(code, <<violation>>).delegation = NoRef
    BY <1>1, WellmadeIntents DEF Deny
  <2> HIDE DEF external, waiting, approved
  <2> QED BY <2>1, <2>2, <2>3, <2>4
<1>4. \/ decision = PartyRefusal(c, r.actor)
      \/ decision = Deny("ZONE_CROSSING_DENIED", <<stray>>)
      \/ decision = Deny("ZONE_CROSSING_DENIED", <<violation>>)
      \/ decision = external
      \/ decision = Allow(<<>>)
  BY DEF ZoneCrossing, stray, violation
<1>5. \/ r.source \in DOMAIN c.zones /\ r.zone \in c.zones[r.source].targets
      \/ decision = PartyRefusal(c, r.actor)
      \/ decision = Deny("ZONE_CROSSING_DENIED", <<stray>>)
  BY DEF ZoneCrossing, stray
<1> HIDE DEF decision, external
<1>6. Wellmade(c, decision.intents, ts)
  BY <1>1, <1>3, <1>4, WellmadeIntents, PartyWellmade
<1>7. decision.delegation = NoRef
  BY <1>3, <1>4 DEF PartyRefusal, Deny, Allow
<1>8. decision.effect = "ALLOW" => r.source \in DOMAIN c.zones /\ r.zone \in c.zones[r.source].targets
  BY <1>5 DEF PartyRefusal, Deny
<1> QED BY <1>6, <1>7, <1>8 DEF decision

\* Whatever the request, the intents of a decision are well made.
LEMMA DecisionWellmade ==
  ASSUME NEW c, NEW r, Presentable(r), NEW ts
  PROVE  Wellmade(c, Evaluate(c, r, ts, c.revision).intents, ts)
<1> DEFINE d == Evaluate(c, r, ts, c.revision)
<1>1. r.kind = "capability" => d = Capability(c, r, ts)
  BY DEF Evaluate
<1>2. r.kind = "delegation" => d = Delegation(c, r, ts)
  BY DEF Evaluate
<1>3. r.kind = "handoff" => d = Handoff(c, r, ts)
  BY DEF Evaluate
<1>4. r.kind = "approval" => d = Approval(c, r.actor, r.approval, {}, ts)
  BY DEF Evaluate
<1>5. r.kind = "crossing" => d = ZoneCrossing(c, r, ts)
  BY DEF Evaluate
<1>6. r.kind = "share" => d = DataShare(c, r, ts)
  BY DEF Evaluate
<1> HIDE DEF d
<1>7. Wellmade(c, d.intents, ts)
  BY <1>1, <1>2, <1>3, <1>4, <1>5, <1>6, CapabilityWellmade, DelegationWellmade, HandoffWellmade,
     ApprovalWellmade, CrossingWellmade, ShareWellmade DEF Presentable
<1> QED BY <1>7 DEF d

-----------------------------------------------------------------------------
(* Streams that grow by one batch.                                         *)

\* Where the elements of a concatenation come from.
LEMMA Positions ==
  ASSUME NEW s, NEW t, IsSequence(s), IsSequence(t)
  PROVE  /\ IsSequence(s \o t)
         /\ Len(s) \in Nat /\ Len(t) \in Nat /\ Len(s \o t) = Len(s) + Len(t)
         /\ DOMAIN s = 1..Len(s) /\ DOMAIN t = 1..Len(t)
         /\ DOMAIN (s \o t) = 1..(Len(s) + Len(t))
         /\ \A i \in DOMAIN s : (s \o t)[i] = s[i]
         /\ \A i \in DOMAIN t : (s \o t)[Len(s) + i] = t[i]
<1>1. PICK S : s \in Seq(S)
  BY DEF IsSequence
<1>2. PICK T : t \in Seq(T)
  BY DEF IsSequence
<1> DEFINE U == S \cup T
<1>3. s \in Seq(U) /\ t \in Seq(U)
  BY <1>1, <1>2
<1> HIDE DEF U
<1>4. s \o t \in Seq(U)
  BY <1>3
<1>5. IsSequence(s \o t)
  BY <1>4, Zenon DEF IsSequence
<1>6. \A i \in DOMAIN t : (s \o t)[Len(s) + i] = t[i]
  BY <1>3
<1> QED BY <1>3, <1>5, <1>6

\* A batch keeps EventsInv if it satisfies it itself.
LEMMA EventsGrow ==
  ASSUME NEW c, NEW s, NEW t, EventsInv(c, s), EventsInv(c, t)
  PROVE  EventsInv(c, s \o t)
<1> DEFINE u == s \o t
<1>1. /\ IsSequence(u)
      /\ Len(s) \in Nat /\ Len(t) \in Nat
      /\ DOMAIN s = 1..Len(s) /\ DOMAIN t = 1..Len(t)
      /\ DOMAIN u = 1..(Len(s) + Len(t))
      /\ \A i \in DOMAIN s : u[i] = s[i]
      /\ \A i \in DOMAIN t : u[Len(s) + i] = t[i]
  BY Positions DEF EventsInv
<1> HIDE DEF u
<1>2. ASSUME NEW j \in DOMAIN u
      PROVE  \/ j \in DOMAIN s /\ u[j] = s[j]
             \/ j > Len(s) /\ j - Len(s) \in DOMAIN t /\ u[j] = t[j - Len(s)]
  <2>1. CASE j <= Len(s)
    BY <1>1, <2>1
  <2>2. CASE j > Len(s)
    <3>1. j - Len(s) \in DOMAIN t /\ Len(s) + (j - Len(s)) = j
      BY <1>1, <2>2
    <3> QED BY <1>1, <2>2, <3>1
  <2> QED BY <1>1, <2>1, <2>2
<1>3. \A j \in DOMAIN u : u[j].event.type \in ObservationTypes => Seen(c, u[j].event)
  BY <1>2 DEF EventsInv
<1>4. \A j \in DOMAIN u :
        /\ u[j].event.type = "capability_allowed" =>
             Right(c, u[j].event.actor, u[j].event.capability, u[j].at)
        /\ u[j].event.type = "capability_denied" =>
             ~Right(c, u[j].event.actor, u[j].event.capability, u[j].at)
  BY <1>2 DEF EventsInv
<1>5. ASSUME NEW j \in DOMAIN u, u[j].event.type \in SelfOpened
      PROVE  \E i \in 1..(j - 1) :
               /\ u[i].mission = u[j].mission
               /\ u[i].event.type = Rules!Opener[u[j].event.type]
               /\ Subject(u[i].event) = Subject(u[j].event)
  <2>1. CASE j \in DOMAIN s /\ u[j] = s[j]
    <3>1. PICK i \in 1..(j - 1) : /\ s[i].mission = s[j].mission
                                  /\ s[i].event.type = Rules!Opener[s[j].event.type]
                                  /\ Subject(s[i].event) = Subject(s[j].event)
      BY <1>5, <2>1 DEF EventsInv
    <3>2. i \in DOMAIN s
      BY <1>1, <2>1
    <3> QED BY <1>1, <2>1, <3>1, <3>2
  <2>2. CASE j > Len(s) /\ j - Len(s) \in DOMAIN t /\ u[j] = t[j - Len(s)]
    <3>1. PICK i \in 1..((j - Len(s)) - 1) :
            /\ t[i].mission = t[j - Len(s)].mission
            /\ t[i].event.type = Rules!Opener[t[j - Len(s)].event.type]
            /\ Subject(t[i].event) = Subject(t[j - Len(s)].event)
      BY <1>5, <2>2 DEF EventsInv
    <3>2. j \in Int /\ j <= Len(s) + Len(t) /\ i \in Int /\ 1 <= i /\ i <= (j - Len(s)) - 1
      BY <1>1
    <3>3. i \in DOMAIN t /\ Len(s) + i \in 1..(j - 1)
      BY <1>1, <3>2
    <3>4. u[Len(s) + i] = t[i]
      BY <1>1, <3>3
    <3> QED BY <2>2, <3>1, <3>3, <3>4
  <2> QED BY <1>2, <2>1, <2>2
<1>6. EventsInv(c, u)
  BY <1>1, <1>3, <1>4, <1>5 DEF EventsInv
<1> QED BY <1>6 DEF u

\* What a stamped batch holds.
LEMMA StampedEvents ==
  ASSUME NEW mission, NEW at, NEW events, IsSequence(events)
  PROVE  LET t == Stamp(mission, at, events)
         IN  /\ IsSequence(t) /\ DOMAIN t = DOMAIN events
             /\ \A i \in DOMAIN t : t[i].mission = mission /\ t[i].at = at /\ t[i].event = events[i]
  BY Stamped DEF Stamp

\* Well-made intents are a sequence and none of them is an observation.
LEMMA WellmadeTypes ==
  ASSUME NEW c, NEW events, NEW ts, Wellmade(c, events, ts)
  PROVE  /\ IsSequence(events)
         /\ \A i \in DOMAIN events : events[i].type \notin ObservationTypes
<1>1. CASE events = <<>>
  <2>1. events \in Seq({}) /\ DOMAIN events = {}
    BY <1>1
  <2>2. IsSequence(events)
    BY <2>1, Zenon DEF IsSequence
  <2> QED BY <2>1, <2>2
<1>2. ASSUME NEW e, events = <<e>>, e.type \in {"policy_violation", "approval_requested"}
      PROVE  /\ IsSequence(events)
             /\ \A i \in DOMAIN events : events[i].type \notin ObservationTypes
  <2>1. events \in Seq({e}) /\ DOMAIN events = {1} /\ events[1] = e
    BY <1>2
  <2>2. IsSequence(events)
    BY <2>1, Zenon DEF IsSequence
  <2> QED BY <1>2, <2>1, <2>2 DEF ObservationTypes
<1>3. ASSUME NEW e, NEW f, events = <<e, f>>, Answers(c, e, f, ts)
      PROVE  /\ IsSequence(events)
             /\ \A i \in DOMAIN events : events[i].type \notin ObservationTypes
  <2>1. events \in Seq({e, f}) /\ DOMAIN events = {1, 2} /\ events[1] = e /\ events[2] = f
    BY <1>3
  <2>2. IsSequence(events)
    BY <2>1, Zenon DEF IsSequence
  <2>3. e.type \notin ObservationTypes /\ f.type \notin ObservationTypes
    BY <1>3 DEF Answers, ObservationTypes
  <2> QED BY <2>1, <2>2, <2>3
<1> QED BY <1>1, <1>2, <1>3 DEF Wellmade

\* The evidence of a decision keeps EventsInv.
LEMMA WellmadeEvents ==
  ASSUME NEW c, NEW events, NEW at, Wellmade(c, events, at), NEW mission
  PROVE  EventsInv(c, Stamp(mission, at, events))
<1> DEFINE t == Stamp(mission, at, events)
<1>1. /\ IsSequence(events)
      /\ \A i \in DOMAIN events : events[i].type \notin ObservationTypes
  BY WellmadeTypes
<1>2. /\ IsSequence(t) /\ DOMAIN t = DOMAIN events
      /\ \A i \in DOMAIN t : t[i].mission = mission /\ t[i].at = at /\ t[i].event = events[i]
  BY <1>1, StampedEvents
<1> HIDE DEF t
<1>3. ASSUME NEW e, events = <<e>>, e.type \in {"policy_violation", "approval_requested"}
      PROVE  EventsInv(c, t)
  <2>1. DOMAIN events = {1} /\ events[1] = e
    BY <1>3
  <2> QED BY <1>1, <1>2, <1>3, <2>1 DEF EventsInv, SelfOpened
<1>4. ASSUME NEW e, NEW f, events = <<e, f>>, Answers(c, e, f, at)
      PROVE  EventsInv(c, t)
  <2>1. DOMAIN events = {1, 2} /\ events[1] = e /\ events[2] = f
    BY <1>4
  <2>2. t[1].event = e /\ t[2].event = f /\ t[1].at = at /\ t[2].at = at
        /\ t[1].mission = t[2].mission
    BY <1>2, <2>1
  <2>3. \A j \in DOMAIN t : t[j].event.type \in ObservationTypes => Seen(c, t[j].event)
    BY <1>1, <1>2
  <2>4. \A j \in DOMAIN t :
          /\ t[j].event.type = "capability_allowed" =>
               Right(c, t[j].event.actor, t[j].event.capability, t[j].at)
          /\ t[j].event.type = "capability_denied" =>
               ~Right(c, t[j].event.actor, t[j].event.capability, t[j].at)
    BY <1>2, <1>4, <2>1, <2>2 DEF Answers
  <2>5. e.type \notin SelfOpened
    BY <1>4 DEF Answers, SelfOpened
  <2>6. f.type \in SelfOpened => e.type = Rules!Opener[f.type] /\ Subject(e) = Subject(f)
    BY <1>4 DEF Answers, SelfOpened, Rules!Opener, Subject
  <2>7. ASSUME NEW j \in DOMAIN t, t[j].event.type \in SelfOpened
        PROVE  \E i \in 1..(j - 1) :
                 /\ t[i].mission = t[j].mission
                 /\ t[i].event.type = Rules!Opener[t[j].event.type]
                 /\ Subject(t[i].event) = Subject(t[j].event)
    <3>1. j = 2 /\ 1 \in 1..(j - 1)
      BY <1>2, <2>1, <2>2, <2>5, <2>7
    <3> QED BY <2>2, <2>6, <2>7, <3>1
  <2> QED BY <1>2, <2>3, <2>4, <2>7 DEF EventsInv
<1>5. ASSUME events = <<>>
      PROVE  EventsInv(c, t)
  <2>1. DOMAIN <<>> = {}
    OBVIOUS
  <2>2. DOMAIN t = {}
    BY <1>2, <1>5, <2>1
  <2>3. \A j \in DOMAIN t : FALSE
    BY <2>2
  <2> QED BY <1>2, <2>3, Zenon DEF EventsInv
<1>6. EventsInv(c, t)
  <2>1. \/ events = <<>>
        \/ \E e : events = <<e>> /\ e.type \in {"policy_violation", "approval_requested"}
        \/ \E e, f : events = <<e, f>> /\ Answers(c, e, f, at)
    BY Zenon DEF Wellmade
  <2>2. CASE \E e : events = <<e>> /\ e.type \in {"policy_violation", "approval_requested"}
    <3>1. PICK e : events = <<e>> /\ e.type \in {"policy_violation", "approval_requested"}
      BY <2>2
    <3> QED BY <1>3, <3>1
  <2>3. CASE \E e, f : events = <<e, f>> /\ Answers(c, e, f, at)
    <3>1. PICK e, f : events = <<e, f>> /\ Answers(c, e, f, at)
      BY <2>3
    <3> QED BY <1>4, <3>1
  <2> QED BY <1>5, <2>1, <2>2, <2>3
<1> QED BY <1>6 DEF t

\* So does an observation.
LEMMA SeenEvents ==
  ASSUME NEW c, NEW e, Seen(c, e), NEW at, NEW mission
  PROVE  EventsInv(c, Stamp(mission, at, <<e>>))
<1> DEFINE events == <<e>>
           t == Stamp(mission, at, events)
<1>1. events \in Seq({e}) /\ DOMAIN events = {1} /\ events[1] = e
  OBVIOUS
<1>2. IsSequence(events)
  <2> HIDE DEF events
  <2> QED BY <1>1, Zenon DEF IsSequence
<1>3. /\ IsSequence(t) /\ DOMAIN t = {1}
      /\ t[1].mission = mission /\ t[1].at = at /\ t[1].event = e
  <2> HIDE DEF events
  <2> QED BY <1>1, <1>2, StampedEvents
<1>4. e.type \notin SelfOpened /\ e.type # "capability_allowed" /\ e.type # "capability_denied"
  BY DEF Seen, SelfOpened
<1> HIDE DEF t, events
<1>5. EventsInv(c, t)
  BY <1>3, <1>4 DEF EventsInv
<1> QED BY <1>5 DEF t, events

-----------------------------------------------------------------------------
(* Counting.                                                               *)

\* A set of indices of a concatenation, and its shares in the two parts.
Splits(K, I, J, m, n) ==
  /\ m \in Nat /\ n \in Nat
  /\ I \in SUBSET (1..m) /\ J \in SUBSET (1..n) /\ K \in SUBSET (1..(m + n))
  /\ \A i \in 1..m : i \in K <=> i \in I
  /\ \A j \in 1..n : m + j \in K <=> j \in J

\* Its size is the sum of theirs.
LEMMA Shifted ==
  ASSUME NEW m, NEW n, NEW I, NEW J, NEW K, Splits(K, I, J, m, n)
  PROVE  /\ Cardinality(I) \in Nat /\ Cardinality(J) \in Nat
         /\ Cardinality(K) = Cardinality(I) + Cardinality(J)
<1> USE DEF Splits
<1> DEFINE H == {m + j : j \in J}
           f == [j \in J |-> m + j]
<1>1. IsFiniteSet(1..m) /\ IsFiniteSet(1..n)
  BY FS_Interval
<1>2. IsFiniteSet(I) /\ IsFiniteSet(J)
  BY <1>1, FS_Subset
<1>3. f \in Bijection(J, H)
  BY DEF Bijection, Injection, Surjection, IsInjective
<1>4. K = I \cup H
  <2>1. ASSUME NEW k \in K
        PROVE  k \in I \cup H
    <3>1. CASE k <= m
      BY <3>1
    <3>2. CASE k > m
      <4> DEFINE j == k - m
      <4>1. j \in 1..n /\ k = m + j
        BY <3>2
      <4> HIDE DEF j
      <4> QED BY <4>1
    <3> QED BY <3>1, <3>2
  <2> QED BY <2>1
<1>5. I \cap H = {}
  OBVIOUS
<1> HIDE DEF f, H
<1>6. ExistsBijection(J, H)
  BY <1>3, Zenon DEF ExistsBijection
<1>7. IsFiniteSet(H) /\ Cardinality(H) = Cardinality(J)
  BY <1>2, <1>6, FS_Bijection
<1>8. /\ Cardinality(I) \in Nat /\ Cardinality(J) \in Nat
      /\ Cardinality(I \cup H) = Cardinality(I) + Cardinality(H) - Cardinality(I \cap H)
  BY <1>2, <1>7, FS_Union, FS_CardinalityType
<1>9. Cardinality(I \cap H) = 0
  BY <1>5, FS_EmptySet
<1> QED BY <1>4, <1>7, <1>8, <1>9

\* The counts of a concatenation are the sums of its parts'.
LEMMA CountsAdd ==
  ASSUME NEW s, NEW t, IsSequence(s), IsSequence(t),
         NEW types, NEW actor, NEW capability, NEW mission
  PROVE  /\ Count(s, types, actor, capability, mission) \in Nat
         /\ Count(t, types, actor, capability, mission) \in Nat
         /\ Count(s \o t, types, actor, capability, mission)
              = Count(s, types, actor, capability, mission)
                  + Count(t, types, actor, capability, mission)
<1> DEFINE u == s \o t
           Of(x, i) == /\ x[i].mission = mission /\ x[i].event.type \in types
                       /\ x[i].event.actor = actor /\ x[i].event.capability = capability
           I == {i \in DOMAIN s : Of(s, i)}
           J == {i \in DOMAIN t : Of(t, i)}
           K == {i \in DOMAIN u : Of(u, i)}
<1>1. /\ Len(s) \in Nat /\ Len(t) \in Nat
      /\ DOMAIN s = 1..Len(s) /\ DOMAIN t = 1..Len(t) /\ DOMAIN u = 1..(Len(s) + Len(t))
      /\ \A i \in DOMAIN s : u[i] = s[i]
      /\ \A i \in DOMAIN t : u[Len(s) + i] = t[i]
  BY Positions
<1> HIDE DEF u
<1>2. /\ \A i \in 1..Len(s) : i \in K <=> i \in I
      /\ \A j \in 1..Len(t) : Len(s) + j \in K <=> j \in J
  BY <1>1
<1>3. Splits(K, I, J, Len(s), Len(t))
  BY <1>1, <1>2 DEF Splits
<1>4. /\ Count(s, types, actor, capability, mission) = Cardinality(I)
      /\ Count(t, types, actor, capability, mission) = Cardinality(J)
      /\ Count(u, types, actor, capability, mission) = Cardinality(K)
  BY DEF Count
<1> HIDE DEF I, J, K
<1>5. /\ Cardinality(I) \in Nat /\ Cardinality(J) \in Nat
      /\ Cardinality(K) = Cardinality(I) + Cardinality(J)
  BY <1>3, Shifted
<1>6. /\ Count(s, types, actor, capability, mission) \in Nat
      /\ Count(t, types, actor, capability, mission) \in Nat
      /\ Count(u, types, actor, capability, mission)
           = Count(s, types, actor, capability, mission)
               + Count(t, types, actor, capability, mission)
  BY <1>4, <1>5
<1> QED BY <1>6 DEF u

\* So are the runs.
LEMMA RunsAdd ==
  ASSUME NEW s, NEW t, IsSequence(s), IsSequence(t)
  PROVE  Runs(s) \in Nat /\ Runs(t) \in Nat /\ Runs(s \o t) = Runs(s) + Runs(t)
<1> DEFINE u == s \o t
           I == {i \in DOMAIN s : s[i].event.type \in Tools}
           J == {i \in DOMAIN t : t[i].event.type \in Tools}
           K == {i \in DOMAIN u : u[i].event.type \in Tools}
<1>1. /\ Len(s) \in Nat /\ Len(t) \in Nat
      /\ DOMAIN s = 1..Len(s) /\ DOMAIN t = 1..Len(t) /\ DOMAIN u = 1..(Len(s) + Len(t))
      /\ \A i \in DOMAIN s : u[i] = s[i]
      /\ \A i \in DOMAIN t : u[Len(s) + i] = t[i]
  BY Positions
<1> HIDE DEF u
<1>2. /\ \A i \in 1..Len(s) : i \in K <=> i \in I
      /\ \A j \in 1..Len(t) : Len(s) + j \in K <=> j \in J
  BY <1>1
<1>3. Splits(K, I, J, Len(s), Len(t))
  BY <1>1, <1>2 DEF Splits
<1>4. Runs(s) = Cardinality(I) /\ Runs(t) = Cardinality(J) /\ Runs(u) = Cardinality(K)
  BY DEF Runs
<1> HIDE DEF I, J, K
<1>5. /\ Cardinality(I) \in Nat /\ Cardinality(J) \in Nat
      /\ Cardinality(K) = Cardinality(I) + Cardinality(J)
  BY <1>3, Shifted
<1>6. Runs(s) \in Nat /\ Runs(t) \in Nat /\ Runs(u) = Runs(s) + Runs(t)
  BY <1>4, <1>5
<1> QED BY <1>6 DEF u

\* A single element counts once or not at all, and so do those of no such type.
LEMMA CountSingle ==
  ASSUME NEW x, NEW types, NEW actor, NEW capability, NEW mission
  PROVE  Count(<<x>>, types, actor, capability, mission)
           = IF /\ x.mission = mission /\ x.event.type \in types
                /\ x.event.actor = actor /\ x.event.capability = capability THEN 1 ELSE 0
<1> DEFINE s == <<x>>
           I == {i \in DOMAIN s : /\ s[i].mission = mission /\ s[i].event.type \in types
                                  /\ s[i].event.actor = actor /\ s[i].event.capability = capability}
           matches == /\ x.mission = mission /\ x.event.type \in types
                      /\ x.event.actor = actor /\ x.event.capability = capability
<1>1. DOMAIN s = {1} /\ s[1] = x
  OBVIOUS
<1>2. Count(s, types, actor, capability, mission) = Cardinality(I)
  BY DEF Count
<1> HIDE DEF s
<1>3. (matches => I = {1}) /\ (~matches => I = {})
  BY <1>1
<1>4. Cardinality({1}) = 1 /\ Cardinality({}) = 0
  BY FS_Singleton, FS_EmptySet
<1> HIDE DEF I
<1>5. Count(s, types, actor, capability, mission) = IF matches THEN 1 ELSE 0
  BY <1>2, <1>3, <1>4
<1> QED BY <1>5 DEF s

\* A stream without events of these types counts none.
LEMMA CountNone ==
  ASSUME NEW s, NEW types, NEW actor, NEW capability, NEW mission,
         \A i \in DOMAIN s : s[i].event.type \notin types
  PROVE  Count(s, types, actor, capability, mission) = 0
<1>1. {i \in DOMAIN s : /\ s[i].mission = mission /\ s[i].event.type \in types
                        /\ s[i].event.actor = actor /\ s[i].event.capability = capability} = {}
  OBVIOUS
<1> QED BY <1>1, FS_EmptySet DEF Count

\* The same of runs.
LEMMA RunsSingle ==
  ASSUME NEW x
  PROVE  Runs(<<x>>) = IF x.event.type \in Tools THEN 1 ELSE 0
<1> DEFINE s == <<x>>
           I == {i \in DOMAIN s : s[i].event.type \in Tools}
<1>1. DOMAIN s = {1} /\ s[1] = x
  OBVIOUS
<1>2. Runs(s) = Cardinality(I)
  BY DEF Runs
<1> HIDE DEF s
<1>3. (x.event.type \in Tools => I = {1}) /\ (x.event.type \notin Tools => I = {})
  BY <1>1
<1>4. Cardinality({1}) = 1 /\ Cardinality({}) = 0
  BY FS_Singleton, FS_EmptySet
<1> HIDE DEF I
<1>5. Runs(s) = IF x.event.type \in Tools THEN 1 ELSE 0
  BY <1>2, <1>3, <1>4
<1> QED BY <1>5 DEF s

\* A stream without tool events records no run.
LEMMA RunsNone ==
  ASSUME NEW s, \A i \in DOMAIN s : s[i].event.type \notin Tools
  PROVE  Runs(s) = 0
<1>1. {i \in DOMAIN s : s[i].event.type \in Tools} = {}
  OBVIOUS
<1> QED BY <1>1, FS_EmptySet DEF Runs

\* What is counted somewhere is there.
LEMMA CountPositive ==
  ASSUME NEW s, NEW types, NEW actor, NEW capability, NEW mission, NEW j \in DOMAIN s,
         IsSequence(s),
         s[j].mission = mission, s[j].event.type \in types,
         s[j].event.actor = actor, s[j].event.capability = capability
  PROVE  Count(s, types, actor, capability, mission) \in Nat \ {0}
<1> DEFINE I == {i \in DOMAIN s : /\ s[i].mission = mission /\ s[i].event.type \in types
                                  /\ s[i].event.actor = actor /\ s[i].event.capability = capability}
<1>1. Len(s) \in Nat /\ DOMAIN s = 1..Len(s)
  BY Positions
<1>2. IsFiniteSet(1..Len(s)) /\ I \subseteq 1..Len(s)
  BY <1>1, FS_Interval
<1>3. j \in I
  OBVIOUS
<1>4. Count(s, types, actor, capability, mission) = Cardinality(I)
  BY DEF Count
<1> HIDE DEF I
<1>5. IsFiniteSet(I) /\ I # {}
  BY <1>2, <1>3, FS_Subset
<1>6. Cardinality(I) \in Nat /\ Cardinality(I) # 0
  BY <1>5, FS_CardinalityType, FS_EmptySet
<1> QED BY <1>4, <1>6

-----------------------------------------------------------------------------
(* The moves of the kernel.                                                *)

\* A batch of one event.
LEMMA StampSingle ==
  ASSUME NEW mission, NEW at, NEW e
  PROVE  Stamp(mission, at, <<e>>) = <<[mission |-> mission, at |-> at, event |-> e]>>
  BY DEF Stamp

\* A prefix never runs a tool more often than allowed if the longer stream adds a
\* run only at its end, and only within its budget.
LEMMA PrefixesGrow ==
  ASSUME NEW s, NEW t, IsSequence(s), IsSequence(t), PrefixBudget(s),
         \A i \in DOMAIN t : t[i].event.type \in Tools =>
           /\ i = Len(t)
           /\ Count(s \o t, Tools, t[i].event.actor, t[i].event.capability, t[i].mission)
                <= Count(s \o t, {"capability_allowed"}, t[i].event.actor, t[i].event.capability,
                         t[i].mission)
  PROVE  PrefixBudget(s \o t)
<1> DEFINE u == s \o t
           Fits(v, x) ==
             Count(v, Tools, x.event.actor, x.event.capability, x.mission)
               <= Count(v, {"capability_allowed"}, x.event.actor, x.event.capability, x.mission)
<1>1. PICK S : s \in Seq(S)
  BY DEF IsSequence
<1>2. PICK T : t \in Seq(T)
  BY DEF IsSequence
<1> DEFINE U == S \cup T
<1>3. s \in Seq(U) /\ t \in Seq(U)
  BY <1>1, <1>2
<1> HIDE DEF U
<1>4. /\ u \in Seq(U) /\ Len(s) \in Nat /\ Len(t) \in Nat /\ Len(u) = Len(s) + Len(t)
      /\ DOMAIN s = 1..Len(s) /\ DOMAIN t = 1..Len(t) /\ DOMAIN u = 1..Len(u)
  BY <1>3
<1>5. \A i \in DOMAIN s : u[i] = s[i]
  BY <1>3
<1>6. \A i \in DOMAIN t : u[Len(s) + i] = t[i]
  BY <1>3
<1>7. ASSUME NEW n \in DOMAIN s
      PROVE  SubSeq(u, 1, n) = SubSeq(s, 1, n)
  BY <1>3, <1>4
<1>8. ASSUME Len(t) # 0
      PROVE  SubSeq(u, 1, Len(u)) = u
  <2> HIDE DEF u
  <2> QED BY <1>4, <1>8
<1>9. ASSUME NEW n \in DOMAIN u, u[n].event.type \in Tools
      PROVE  Fits(SubSeq(u, 1, n), u[n])
  <2>1. CASE n <= Len(s)
    <3>1. n \in DOMAIN s
      BY <1>4, <2>1
    <3>2. Fits(SubSeq(s, 1, n), s[n])
      BY <1>5, <1>9, <3>1 DEF PrefixBudget
    <3> HIDE DEF u
    <3> QED BY <1>5, <1>7, <3>1, <3>2
  <2>2. CASE n > Len(s)
    <3> DEFINE i == n - Len(s)
    <3>1. i \in DOMAIN t /\ n = Len(s) + i
      BY <1>4, <2>2
    <3> HIDE DEF i
    <3>2. u[n] = t[i]
      BY <1>6, <3>1
    <3>3. i = Len(t) /\ Fits(u, t[i])
      BY <1>9, <3>1, <3>2
    <3>4. n = Len(u) /\ Len(t) # 0
      BY <1>4, <3>1, <3>3
    <3> HIDE DEF u
    <3> QED BY <1>8, <3>2, <3>3, <3>4
  <2> QED BY <1>4, <2>1, <2>2
<1>10. PrefixBudget(u)
  <2> HIDE DEF u
  <2> QED BY <1>9 DEF PrefixBudget
<1> QED BY <1>10 DEF u

\* A recorder that continues has validated what it holds; one that does not is
\* stuck with a stream that does not validate.
LEMMA ContinuesValidated ==
  ASSUME KInv, OInv
  PROVE  /\ Continues => StreamCodes(contract, stream) = {} \/ Step = 0
         /\ ~Continues => Step # 0 /\ StreamCodes(contract, stream) # {}
<1>1. ASSUME Continues, Step # 0
      PROVE  StreamCodes(contract, stream) = {}
  <2>1. CASE stream = <<>>
    BY <2>1, EmptyStream
  <2>2. CASE stream # <<>>
    BY <1>1, <2>2 DEF KInv, Continues
  <2> QED BY <2>1, <2>2
<1>2. ASSUME ~Continues
      PROVE  Step # 0 /\ StreamCodes(contract, stream) # {}
  <2>1. clock # contextAt /\ StreamCodes(contract, stream) # {}
    BY <1>2 DEF OInv, Continues
  <2>2. stream # <<>>
    BY <2>1, EmptyStream
  <2> QED BY <2>1, <2>2 DEF OInv
<1> QED BY <1>1, <1>2

\* What a step owes the invariant beyond the bookkeeping that all steps share.
LEMMA BatchKeeps ==
  ASSUME KInv, OInv, Advance, NEW t, NEW n \in Nat, EventsInv(contract, t),
         \A i \in DOMAIN t : t[i].at = clock,
         stream' = IF Continues THEN stream \o t ELSE stream,
         IsSequence(calls'), \A i \in DOMAIN calls' : Awaits(contract, calls'[i]),
         ran' = ran + n, Continues => n = Runs(t),
         Budget(stream', calls'), PrefixBudget(stream')
  PROVE  OInv'
<1>1. contract' = contract /\ clock' = clock + Step /\ clock \in Nat /\ Step \in Nat
  BY KernelAssumption DEF Advance, KInv
<1>2. CASE Continues
  <2>1. stream' = stream \o t /\ contextAt' = clock
    BY <1>2 DEF Advance
  <2>2. EventsInv(contract, stream')
    BY <2>1, EventsGrow DEF OInv
  <2>3. Runs(stream) \in Nat /\ Runs(stream') = Runs(stream) + Runs(t)
    BY <2>1, RunsAdd DEF OInv, EventsInv
  <2>4. StreamCodes(contract, stream) = {} \/ Step = 0
    BY <1>2, ContinuesValidated
  <2>5. ran' = Runs(stream')
    BY <1>2, <2>3, <2>4 DEF OInv
  <2>6. \A i \in DOMAIN stream' : stream'[i].at \in Nat /\ stream'[i].at <= clock'
    <3> DEFINE u == stream \o t
    <3> IsSequence(stream) /\ IsSequence(t)
      BY DEF OInv, EventsInv
    <3>1. \A i \in DOMAIN u : \/ \E j \in DOMAIN stream : u[i] = stream[j]
                              \/ \E j \in DOMAIN t : u[i] = t[j]
      BY Concatenation
    <3> HIDE DEF u
    <3>2. ASSUME NEW i \in DOMAIN u
          PROVE  u[i].at \in Nat /\ u[i].at <= clock + Step
      <4>1. CASE \E j \in DOMAIN stream : u[i] = stream[j]
        BY <1>1, <4>1 DEF OInv
      <4>2. CASE \E j \in DOMAIN t : u[i] = t[j]
        BY <1>1, <4>2
      <4> QED BY <3>1, <4>1, <4>2
    <3> QED BY <1>1, <2>1, <3>2 DEF u
  <2>7. Step = 0 => contextAt' = clock'
    BY <1>1, <2>1
  <2> QED BY <1>1, <2>2, <2>5, <2>6, <2>7 DEF OInv
<1>3. CASE ~Continues
  <2>1. stream' = stream /\ Step # 0 /\ StreamCodes(contract, stream) # {}
    BY <1>3, ContinuesValidated
  <2>2. \A i \in DOMAIN stream' : stream'[i].at \in Nat /\ stream'[i].at <= clock'
    BY <1>1, <2>1 DEF OInv
  <2>3. ran' \in Nat
    BY DEF OInv
  <2> QED BY <1>1, <2>1, <2>2, <2>3 DEF OInv
<1> QED BY <1>2, <1>3

\* A decision and what it leaves to be observed: nothing, or a call whose run, if it
\* is to run a tool, the decision has just allowed.
Decides(mission, events, more) ==
  /\ Advance
  /\ stream' = IF Continues THEN stream \o Stamp(mission, clock, events) ELSE stream
  /\ calls' = IF Continues THEN calls \o more ELSE calls
  /\ ran' = ran
  /\ Wellmade(contract, events, clock)
  /\ \/ more = <<>>
     \/ \E call :
          /\ more = <<call>> /\ call.mission = mission /\ Awaits(contract, call)
          /\ call.work => \E e, f : /\ events = <<e, f>> /\ f.type = "capability_allowed"
                                    /\ f.actor = call.event.actor
                                    /\ f.capability = call.event.capability

\* Nothing appended is nothing changed.
LEMMA NothingMore ==
  ASSUME NEW s, IsSequence(s)
  PROVE  s \o <<>> = s
<1>1. PICK S : s \in Seq(S)
  BY DEF IsSequence
<1> QED BY <1>1

\* A decision that queues nothing.
LEMMA DecidesAlone ==
  ASSUME OInv, NEW r, Presentable(r), NEW mission, Authorize(r, mission, <<>>)
  PROVE  \E events, more : Decides(mission, events, more)
<1> DEFINE decision == Evaluate(contract, r, clock, contract.revision)
           left == [i \in DOMAIN <<>> |-> [<<>>[i] EXCEPT !.event.delegation = decision.delegation]]
<1>1. left = <<>>
  OBVIOUS
<1>2. Wellmade(contract, decision.intents, clock)
  BY DecisionWellmade
<1>3. calls \o <<>> = calls
  BY NothingMore DEF OInv
<1>4. /\ Advance
      /\ stream' = IF Continues THEN stream \o Stamp(mission, clock, decision.intents) ELSE stream
      /\ calls' = IF Continues /\ decision.effect = "ALLOW" THEN calls \o left ELSE calls
      /\ ran' = ran
  BY DEF Authorize
<1> HIDE DEF decision, left
<1>5. calls' = IF Continues THEN calls \o <<>> ELSE calls
  BY <1>1, <1>3, <1>4
<1>6. Decides(mission, decision.intents, <<>>)
  BY <1>2, <1>4, <1>5 DEF Decides
<1> QED BY <1>6

\* A decision that may leave an observation to be made.
LEMMA DecidesAwaiting ==
  ASSUME OInv, NEW r, Presentable(r), NEW mission, NEW work, NEW e,
         Authorize(r, mission, <<[mission |-> mission, work |-> work, event |-> e]>>),
         LET d    == Evaluate(contract, r, clock, contract.revision)
             call == [mission |-> mission, work |-> work,
                      event |-> [e EXCEPT !.delegation = d.delegation]]
         IN  d.effect = "ALLOW" =>
               /\ Awaits(contract, call)
               /\ call.work => \E x, f : /\ d.intents = <<x, f>> /\ f.type = "capability_allowed"
                                         /\ f.actor = call.event.actor
                                         /\ f.capability = call.event.capability
  PROVE  \E events, more : Decides(mission, events, more)
<1> DEFINE decision == Evaluate(contract, r, clock, contract.revision)
           x == [mission |-> mission, work |-> work, event |-> e]
           rest == <<x>>
           left == [i \in DOMAIN rest |-> [rest[i] EXCEPT !.event.delegation = decision.delegation]]
           call == [mission |-> mission, work |-> work,
                    event |-> [e EXCEPT !.delegation = decision.delegation]]
<1>1. left = <<call>>
  <2>1. [x EXCEPT !.event.delegation = decision.delegation] = call
    OBVIOUS
  <2> HIDE DEF x, call, decision
  <2>2. DOMAIN rest = {1} /\ rest[1] = x
    OBVIOUS
  <2>3. left = [i \in {1} |-> call]
    BY <2>1, <2>2
  <2> QED BY <2>3
<1>2. Wellmade(contract, decision.intents, clock)
  BY DecisionWellmade
<1>3. calls \o <<>> = calls
  BY NothingMore DEF OInv
<1>4. /\ Advance
      /\ stream' = IF Continues THEN stream \o Stamp(mission, clock, decision.intents) ELSE stream
      /\ calls' = IF Continues /\ decision.effect = "ALLOW" THEN calls \o left ELSE calls
      /\ ran' = ran
  BY DEF Authorize
<1>5. call.mission = mission
  OBVIOUS
<1>6. decision.effect = "ALLOW" =>
        /\ Awaits(contract, call)
        /\ call.work => \E y, f : /\ decision.intents = <<y, f>> /\ f.type = "capability_allowed"
                                  /\ f.actor = call.event.actor
                                  /\ f.capability = call.event.capability
  OBVIOUS
<1> HIDE DEF decision, left, call
<1>7. CASE decision.effect = "ALLOW"
  <2>1. calls' = IF Continues THEN calls \o <<call>> ELSE calls
    BY <1>1, <1>4, <1>7
  <2>2. Decides(mission, decision.intents, <<call>>)
    BY <1>2, <1>4, <1>5, <1>6, <1>7, <2>1 DEF Decides
  <2> QED BY <2>2
<1>8. CASE decision.effect # "ALLOW"
  <2>1. calls' = IF Continues THEN calls \o <<>> ELSE calls
    BY <1>3, <1>4, <1>8
  <2>2. Decides(mission, decision.intents, <<>>)
    BY <1>2, <1>4, <2>1 DEF Decides
  <2> QED BY <2>2
<1> QED BY <1>7, <1>8

\* A decision keeps the invariant: the run it queues is one it has allowed.
LEMMA DecisionKeeps ==
  ASSUME KInv, OInv, NEW mission, NEW events, NEW more, Decides(mission, events, more)
  PROVE  OInv'
<1> DEFINE t == Stamp(mission, clock, events)
<1>1. /\ Advance /\ ran' = ran
      /\ stream' = IF Continues THEN stream \o t ELSE stream
      /\ calls' = IF Continues THEN calls \o more ELSE calls
      /\ Wellmade(contract, events, clock)
  BY DEF Decides
<1>2. IsSequence(events) /\ \A i \in DOMAIN events : events[i].type \notin ObservationTypes
  BY <1>1, WellmadeTypes
<1>3. /\ IsSequence(t) /\ DOMAIN t = DOMAIN events
      /\ \A i \in DOMAIN t : t[i].mission = mission /\ t[i].at = clock /\ t[i].event = events[i]
  BY <1>2, StampedEvents
<1>4. EventsInv(contract, t)
  BY <1>1, WellmadeEvents
<1> HIDE DEF t
<1>5. \A i \in DOMAIN t : t[i].event.type \notin Tools
  BY <1>2, <1>3 DEF Tools, ObservationTypes
<1>6. Runs(t) = 0
  BY <1>5, RunsNone
<1>7. /\ IsSequence(more) /\ \A i \in DOMAIN more : Awaits(contract, more[i])
      /\ \A actor, capability, m : Count(more, {"tool_invoked"}, actor, capability, m)
                                     <= Count(t, {"capability_allowed"}, actor, capability, m)
  <2>1. CASE more = <<>>
    <3>1. more \in Seq({}) /\ DOMAIN more = {}
      BY <2>1
    <3>2. IsSequence(more)
      BY <3>1, Zenon DEF IsSequence
    <3>3. ASSUME NEW actor, NEW capability, NEW m
          PROVE  Count(more, {"tool_invoked"}, actor, capability, m)
                   <= Count(t, {"capability_allowed"}, actor, capability, m)
      <4>1. Count(more, {"tool_invoked"}, actor, capability, m) = 0
        BY <3>1, CountNone
      <4>2. Count(t, {"capability_allowed"}, actor, capability, m) \in Nat
        BY <1>3, CountsAdd
      <4> QED BY <4>1, <4>2
    <3> QED BY <3>1, <3>2, <3>3
  <2>2. ASSUME NEW call, more = <<call>>, call.mission = mission, Awaits(contract, call),
               call.work => \E e, f : /\ events = <<e, f>> /\ f.type = "capability_allowed"
                                      /\ f.actor = call.event.actor
                                      /\ f.capability = call.event.capability
        PROVE  /\ IsSequence(more) /\ \A i \in DOMAIN more : Awaits(contract, more[i])
               /\ \A actor, capability, m :
                    Count(more, {"tool_invoked"}, actor, capability, m)
                      <= Count(t, {"capability_allowed"}, actor, capability, m)
    <3>1. more \in Seq({call}) /\ DOMAIN more = {1} /\ more[1] = call
      BY <2>2
    <3>2. IsSequence(more)
      BY <3>1, Zenon DEF IsSequence
    <3>3. ASSUME NEW actor, NEW capability, NEW m
          PROVE  Count(more, {"tool_invoked"}, actor, capability, m)
                   <= Count(t, {"capability_allowed"}, actor, capability, m)
      <4> DEFINE matches == /\ call.mission = m /\ call.event.type \in {"tool_invoked"}
                            /\ call.event.actor = actor /\ call.event.capability = capability
      <4>1. Count(more, {"tool_invoked"}, actor, capability, m) = IF matches THEN 1 ELSE 0
        BY <2>2, CountSingle
      <4>2. Count(t, {"capability_allowed"}, actor, capability, m) \in Nat
        BY <1>3, CountsAdd
      <4>3. ASSUME matches
            PROVE  Count(t, {"capability_allowed"}, actor, capability, m) # 0
        <5>1. call.work
          BY <2>2, <4>3 DEF Awaits
        <5>2. PICK e, f : /\ events = <<e, f>> /\ f.type = "capability_allowed"
                          /\ f.actor = call.event.actor /\ f.capability = call.event.capability
          BY <2>2, <5>1
        <5>3. 2 \in DOMAIN t /\ t[2].event = f /\ t[2].mission = mission
          BY <1>3, <5>2
        <5>4. t[2].event.type \in {"capability_allowed"} /\ t[2].mission = m
              /\ t[2].event.actor = actor /\ t[2].event.capability = capability
          BY <2>2, <4>3, <5>2, <5>3
        <5>5. Count(t, {"capability_allowed"}, actor, capability, m) \in Nat \ {0}
          BY <1>3, <5>3, <5>4, CountPositive
        <5> QED BY <5>5
      <4> HIDE DEF matches
      <4> QED BY <4>1, <4>2, <4>3
    <3> QED BY <2>2, <3>1, <3>2, <3>3
  <2> QED BY <2>1, <2>2 DEF Decides
<1>8. IsSequence(calls') /\ \A i \in DOMAIN calls' : Awaits(contract, calls'[i])
  <2>1. IsSequence(calls) /\ \A i \in DOMAIN calls : Awaits(contract, calls[i])
    BY DEF OInv
  <2> DEFINE both == calls \o more
  <2>2. /\ IsSequence(both)
        /\ \A i \in DOMAIN both : \/ \E j \in DOMAIN calls : both[i] = calls[j]
                                  \/ \E j \in DOMAIN more : both[i] = more[j]
    BY <1>7, <2>1, Concatenation
  <2> HIDE DEF both
  <2>3. \A i \in DOMAIN both : Awaits(contract, both[i])
    BY <1>7, <2>1, <2>2
  <2> QED BY <1>1, <2>1, <2>2, <2>3 DEF both
<1>9. Budget(stream', calls')
  <2>1. CASE ~Continues
    BY <1>1, <2>1 DEF OInv
  <2>2. CASE Continues
    <3>1. ASSUME NEW actor, NEW capability, NEW m
          PROVE  Count(stream \o t, Tools, actor, capability, m)
                   + Count(calls \o more, {"tool_invoked"}, actor, capability, m)
                   <= Count(stream \o t, {"capability_allowed"}, actor, capability, m)
      <4>1. Count(t, Tools, actor, capability, m) = 0
        BY <1>5, CountNone
      <4>2. /\ Count(stream, Tools, actor, capability, m) \in Nat
            /\ Count(stream \o t, Tools, actor, capability, m)
                 = Count(stream, Tools, actor, capability, m)
                     + Count(t, Tools, actor, capability, m)
        BY <1>3, CountsAdd DEF OInv, EventsInv
      <4>3. /\ Count(stream, {"capability_allowed"}, actor, capability, m) \in Nat
            /\ Count(t, {"capability_allowed"}, actor, capability, m) \in Nat
            /\ Count(stream \o t, {"capability_allowed"}, actor, capability, m)
                 = Count(stream, {"capability_allowed"}, actor, capability, m)
                     + Count(t, {"capability_allowed"}, actor, capability, m)
        BY <1>3, CountsAdd DEF OInv, EventsInv
      <4>4. /\ Count(calls, {"tool_invoked"}, actor, capability, m) \in Nat
            /\ Count(more, {"tool_invoked"}, actor, capability, m) \in Nat
            /\ Count(calls \o more, {"tool_invoked"}, actor, capability, m)
                 = Count(calls, {"tool_invoked"}, actor, capability, m)
                     + Count(more, {"tool_invoked"}, actor, capability, m)
        BY <1>7, CountsAdd DEF OInv
      <4>5. /\ Count(stream, Tools, actor, capability, m)
                 + Count(calls, {"tool_invoked"}, actor, capability, m)
                 <= Count(stream, {"capability_allowed"}, actor, capability, m)
            /\ Count(more, {"tool_invoked"}, actor, capability, m)
                 <= Count(t, {"capability_allowed"}, actor, capability, m)
        BY <1>7 DEF OInv, Budget
      <4> QED BY <4>1, <4>2, <4>3, <4>4, <4>5
    <3> QED BY <1>1, <2>2, <3>1 DEF Budget
  <2> QED BY <2>1, <2>2
<1>10. PrefixBudget(stream')
  <2>1. PrefixBudget(stream \o t)
    BY <1>3, <1>5, PrefixesGrow DEF OInv, EventsInv
  <2> QED BY <1>1, <2>1 DEF OInv
<1>11. ran' = ran + 0
  BY <1>1 DEF OInv
<1> QED BY <1>1, <1>3, <1>4, <1>6, <1>8, <1>9, <1>10, <1>11, BatchKeeps

\* An observation keeps the invariant: it spends one of the runs that were owed, or
\* the recorder refuses it for good.
LEMMA ObservationKeeps ==
  ASSUME KInv, OInv, calls # <<>>, NEW type, Observe(type),
         LET call == calls[Len(calls)]
         IN  /\ call.work => type \in Tools /\ ran' = ran + 1
             /\ ~call.work => type = call.event.type /\ ran' = ran
  PROVE  OInv'
<1> DEFINE call == calls[Len(calls)]
           e == [call.event EXCEPT !.type = type]
           x == [mission |-> call.mission, at |-> clock, event |-> e]
           t == <<x>>
           shorter == SubSeq(calls, 1, Len(calls) - 1)
           n == IF call.work THEN 1 ELSE 0
<1>1. PICK S : calls \in Seq(S)
  BY DEF OInv, IsSequence
<1>2. /\ Len(calls) \in Nat \ {0} /\ Len(calls) \in DOMAIN calls
      /\ shorter \in Seq(S) /\ calls = shorter \o <<call>>
      /\ DOMAIN shorter \subseteq DOMAIN calls /\ \A i \in DOMAIN shorter : shorter[i] = calls[i]
  BY <1>1
<1>3. Awaits(contract, call)
  BY <1>2 DEF OInv
<1>4. /\ call.work = (call.event.type = "tool_invoked")
      /\ type \in Tools <=> call.event.type = "tool_invoked"
  BY <1>3 DEF Awaits, Tools
<1>5. e.type = type /\ e.actor = call.event.actor /\ e.capability = call.event.capability
  BY <1>3 DEF Awaits, Seen, NoReferences
<1>6. Seen(contract, e)
  <2>1. DOMAIN e = DOMAIN NoReferences
    BY <1>3 DEF Awaits, Seen
  <2>2. CASE call.event.type = "tool_invoked"
    <3>1. Fields(e, e.type, e.actor, NoRef, e.capability, e.delegation, NoRef, NoRef, NoRef,
                 NoRef, NoRef, NoRef)
      BY <1>3, <2>2 DEF Awaits, Seen, NoReferences, Fields
    <3>2. e.type \in {"tool_invoked", "runtime_failed"}
      BY <1>4, <1>5, <2>2 DEF Tools
    <3> HIDE DEF e
    <3> QED BY <2>1, <3>1, <3>2 DEF Seen
  <2>3. CASE call.event.type # "tool_invoked"
    <3>1. type = call.event.type
      BY <1>4, <2>3
    <3>2. \A f \in DOMAIN NoReferences : e[f] = call.event[f]
      BY <1>3, <3>1 DEF Awaits, Seen
    <3>3. /\ e.type = call.event.type /\ e.actor = call.event.actor
          /\ e.target = call.event.target /\ e.capability = call.event.capability
          /\ e.delegation = call.event.delegation /\ e.handoff = call.event.handoff
          /\ e.source = call.event.source /\ e.zone = call.event.zone
          /\ e.approval = call.event.approval /\ e.approver = call.event.approver
          /\ e.role = call.event.role
      BY <3>2 DEF NoReferences
    <3> HIDE DEF e
    <3> QED BY <1>3, <2>1, <3>3 DEF Awaits, Seen, Fields
  <2> QED BY <2>2, <2>3
<1>7. Stamp(call.mission, clock, <<e>>) = t
  BY StampSingle
<1>8. EventsInv(contract, t)
  BY <1>6, <1>7, SeenEvents
<1>9. /\ Advance
      /\ stream' = IF Continues THEN stream \o t ELSE stream
      /\ calls' = shorter
  BY <1>7 DEF Observe
<1>10. t \in Seq({x}) /\ DOMAIN t = {1} /\ t[1] = x /\ Len(t) = 1
  OBVIOUS
<1>11. x.mission = call.mission /\ x.at = clock /\ x.event = e
  OBVIOUS
<1> HIDE DEF e, x, shorter
<1>12. Runs(t) = n /\ ran' = ran + n /\ n \in Nat
  <2>1. Runs(t) = IF x.event.type \in Tools THEN 1 ELSE 0
    BY RunsSingle
  <2>2. ran \in Nat
    BY DEF OInv
  <2> HIDE DEF t
  <2>3. CASE call.work
    <3>1. call.event.type = "tool_invoked"
      BY <1>4, <2>3
    <3> QED BY <1>4, <1>5, <1>11, <2>1, <2>2, <2>3, <3>1
  <2>4. CASE ~call.work
    <3>1. call.event.type # "tool_invoked"
      BY <1>4, <2>4
    <3> QED BY <1>4, <1>5, <1>11, <2>1, <2>2, <2>4, <3>1
  <2> QED BY <2>3, <2>4
<1> HIDE DEF t, call
<1>13. IsSequence(t) /\ IsSequence(shorter) /\ \A i \in DOMAIN shorter : Awaits(contract, shorter[i])
  <2>1. IsSequence(t) /\ IsSequence(shorter)
    BY <1>2, <1>10, Zenon DEF IsSequence
  <2> QED BY <1>2, <2>1 DEF OInv
<1>14. <<call>> \in Seq({call})
  OBVIOUS
<1>15. IsSequence(<<call>>)
  BY <1>14, Zenon DEF IsSequence
<1>16. ASSUME NEW actor, NEW capability, NEW m
       PROVE  /\ Count(stream, Tools, actor, capability, m)
                   + Count(shorter, {"tool_invoked"}, actor, capability, m)
                   <= Count(stream, {"capability_allowed"}, actor, capability, m)
              /\ Count(stream \o t, Tools, actor, capability, m)
                   + Count(shorter, {"tool_invoked"}, actor, capability, m)
                   <= Count(stream \o t, {"capability_allowed"}, actor, capability, m)
              /\ Count(stream \o t, Tools, actor, capability, m)
                   <= Count(stream \o t, {"capability_allowed"}, actor, capability, m)
  <2>1. Count(t, Tools, actor, capability, m)
          = Count(<<call>>, {"tool_invoked"}, actor, capability, m)
    <3>1. Count(t, Tools, actor, capability, m)
            = IF /\ x.mission = m /\ x.event.type \in Tools
                 /\ x.event.actor = actor /\ x.event.capability = capability THEN 1 ELSE 0
      BY CountSingle DEF t
    <3>2. Count(<<call>>, {"tool_invoked"}, actor, capability, m)
            = IF /\ call.mission = m /\ call.event.type \in {"tool_invoked"}
                 /\ call.event.actor = actor /\ call.event.capability = capability THEN 1 ELSE 0
      BY CountSingle
    <3> QED BY <1>4, <1>5, <1>11, <3>1, <3>2
  <2>2. /\ Count(stream, Tools, actor, capability, m) \in Nat
        /\ Count(t, Tools, actor, capability, m) \in Nat
        /\ Count(stream \o t, Tools, actor, capability, m)
             = Count(stream, Tools, actor, capability, m) + Count(t, Tools, actor, capability, m)
    BY <1>13, CountsAdd DEF OInv, EventsInv
  <2>3. /\ Count(stream, {"capability_allowed"}, actor, capability, m) \in Nat
        /\ Count(t, {"capability_allowed"}, actor, capability, m) \in Nat
        /\ Count(stream \o t, {"capability_allowed"}, actor, capability, m)
             = Count(stream, {"capability_allowed"}, actor, capability, m)
                 + Count(t, {"capability_allowed"}, actor, capability, m)
    BY <1>13, CountsAdd DEF OInv, EventsInv
  <2>4. /\ Count(shorter, {"tool_invoked"}, actor, capability, m) \in Nat
        /\ Count(<<call>>, {"tool_invoked"}, actor, capability, m) \in Nat
        /\ Count(calls, {"tool_invoked"}, actor, capability, m)
             = Count(shorter, {"tool_invoked"}, actor, capability, m)
                 + Count(<<call>>, {"tool_invoked"}, actor, capability, m)
    BY <1>2, <1>13, <1>15, CountsAdd
  <2>5. Count(stream, Tools, actor, capability, m)
          + Count(calls, {"tool_invoked"}, actor, capability, m)
          <= Count(stream, {"capability_allowed"}, actor, capability, m)
    BY DEF OInv, Budget
  <2> QED BY <2>1, <2>2, <2>3, <2>4, <2>5
<1>17. Budget(stream', calls')
  <2>1. CASE Continues
    BY <1>9, <1>16, <2>1 DEF Budget
  <2>2. CASE ~Continues
    BY <1>9, <1>16, <2>2 DEF Budget
  <2> QED BY <2>1, <2>2
<1>18. PrefixBudget(stream')
  <2>1. PrefixBudget(stream \o t)
    <3>1. IsSequence(stream) /\ PrefixBudget(stream)
      BY DEF OInv, EventsInv
    <3> QED BY <1>10, <1>13, <1>16, <3>1, PrefixesGrow
  <2> QED BY <1>9, <2>1 DEF OInv
<1> HIDE DEF n
<1>19. \A i \in DOMAIN t : t[i].at = clock
  BY <1>10, <1>11
<1>20. IsSequence(calls') /\ \A i \in DOMAIN calls' : Awaits(contract, calls'[i])
  BY <1>9, <1>13
<1> QED BY <1>8, <1>9, <1>12, <1>17, <1>18, <1>19, <1>20, BatchKeeps

\* A completion asks nothing of the decision core, and neither runs nor allows a tool.
LEMMA CompletionKeeps ==
  ASSUME KInv, OInv, NEW mission, NEW h, CompleteHandoff(h, mission)
  PROVE  OInv'
<1> DEFINE e == HandoffEvent("handoff_completed", h)
           x == [mission |-> mission, at |-> clock, event |-> e]
           t == <<x>>
<1>1. e.type = "handoff_completed" /\ Seen(contract, e)
  BY DEF HandoffEvent, By, NoReferences, Seen, Fields
<1>2. Stamp(mission, clock, <<e>>) = t
  BY StampSingle
<1>3. EventsInv(contract, t)
  BY <1>1, <1>2, SeenEvents
<1>4. /\ Advance
      /\ stream' = IF Continues THEN stream \o t ELSE stream
      /\ calls' = calls /\ ran' = ran + 0
  BY <1>2 DEF CompleteHandoff, OInv
<1>5. t \in Seq({x}) /\ DOMAIN t = {1} /\ t[1] = x /\ x.event = e /\ x.at = clock
  OBVIOUS
<1> HIDE DEF e, x, t
<1>6. IsSequence(t) /\ \A i \in DOMAIN t : t[i].at = clock
  <2>1. IsSequence(t)
    BY <1>5, Zenon DEF IsSequence
  <2> QED BY <1>5, <2>1
<1>7. \A i \in DOMAIN t : t[i].event.type \notin Tools
  BY <1>1, <1>5 DEF Tools
<1>8. Runs(t) = 0
  BY <1>7, RunsNone
<1>9. IsSequence(stream) /\ PrefixBudget(stream) /\ Budget(stream, calls)
  BY DEF OInv, EventsInv
<1>10. Budget(stream \o t, calls)
  <2>1. ASSUME NEW actor, NEW capability, NEW m
        PROVE  Count(stream \o t, Tools, actor, capability, m)
                 + Count(calls, {"tool_invoked"}, actor, capability, m)
                 <= Count(stream \o t, {"capability_allowed"}, actor, capability, m)
    <3>1. Count(t, Tools, actor, capability, m) = 0
      BY <1>7, CountNone
    <3>2. /\ Count(stream, Tools, actor, capability, m) \in Nat
          /\ Count(stream \o t, Tools, actor, capability, m)
               = Count(stream, Tools, actor, capability, m) + Count(t, Tools, actor, capability, m)
      BY <1>6, <1>9, CountsAdd
    <3>3. /\ Count(stream, {"capability_allowed"}, actor, capability, m) \in Nat
          /\ Count(t, {"capability_allowed"}, actor, capability, m) \in Nat
          /\ Count(stream \o t, {"capability_allowed"}, actor, capability, m)
               = Count(stream, {"capability_allowed"}, actor, capability, m)
                   + Count(t, {"capability_allowed"}, actor, capability, m)
      BY <1>6, <1>9, CountsAdd
    <3>4. Count(calls, {"tool_invoked"}, actor, capability, m) \in Nat
      BY CountsAdd DEF OInv
    <3> QED BY <1>9, <3>1, <3>2, <3>3, <3>4 DEF Budget
  <2> QED BY <2>1 DEF Budget
<1>11. PrefixBudget(stream \o t)
  BY <1>6, <1>7, <1>9, PrefixesGrow
<1>12. /\ Budget(stream', calls') /\ PrefixBudget(stream')
       /\ IsSequence(calls') /\ \A i \in DOMAIN calls' : Awaits(contract, calls'[i])
  BY <1>4, <1>9, <1>10, <1>11 DEF OInv
<1> QED BY <1>3, <1>4, <1>6, <1>8, <1>12, BatchKeeps

\* Every call of the facade is one of these moves.
LEMMA CallMoves ==
  ASSUME KInv, OInv, NEW mission, Call(mission)
  PROVE  OInv'
<1>1. ASSUME NEW r \in Requests, Check(r, mission)
      PROVE  \E events, more : Decides(mission, events, more)
  <2>1. Presentable(r) /\ Authorize(r, mission, <<>>)
    BY <1>1 DEF Check, Presentable
  <2> QED BY <2>1, DecidesAlone
<1>2. ASSUME NEW r \in Requests, Execute(r, mission)
      PROVE  \E events, more : Decides(mission, events, more)
  <2> DEFINE e == OfCapability("tool_invoked", r.actor, r.capability)
             d == Evaluate(contract, r, clock, contract.revision)
             lent == [e EXCEPT !.delegation = d.delegation]
             call == [mission |-> mission, work |-> TRUE, event |-> lent]
  <2>1. /\ Presentable(r) /\ r.kind = "capability"
        /\ Authorize(r, mission, <<[mission |-> mission, work |-> TRUE, event |-> e]>>)
    BY <1>2 DEF Execute, Presentable, Working
  <2>2. d = Capability(contract, r, clock)
    BY <2>1 DEF Evaluate
  <2> HIDE DEF d
  <2>3. /\ Seen(contract, lent) /\ lent.type = "tool_invoked"
        /\ lent.actor = r.actor /\ lent.capability = r.capability
    BY DEF OfCapability, By, NoReferences, Seen, Fields
  <2>4. d.effect = "ALLOW" => \E x, f : /\ d.intents = <<x, f>> /\ f.type = "capability_allowed"
                                        /\ f.actor = r.actor /\ f.capability = r.capability
    BY <2>2, CapabilityWellmade
  <2>5. Awaits(contract, call)
    BY <2>3 DEF Awaits
  <2>6. call.event.actor = r.actor /\ call.event.capability = r.capability
    BY <2>3
  <2>7. d.effect = "ALLOW" =>
          /\ Awaits(contract, call)
          /\ call.work => \E x, f : /\ d.intents = <<x, f>> /\ f.type = "capability_allowed"
                                    /\ f.actor = call.event.actor
                                    /\ f.capability = call.event.capability
    <3> HIDE DEF call
    <3> QED BY <2>4, <2>5, <2>6
  <2> HIDE DEF e
  <2> QED BY <2>1, <2>7, DecidesAwaiting DEF d
<1>3. ASSUME NEW r \in Requests, RequestHandoff(r, mission)
      PROVE  \E events, more : Decides(mission, events, more)
  <2> DEFINE e == HandoffEvent("handoff_initiated", r.id)
             d == Evaluate(contract, r, clock, contract.revision)
             lent == [e EXCEPT !.delegation = d.delegation]
             call == [mission |-> mission, work |-> FALSE, event |-> lent]
  <2>1. /\ Presentable(r)
        /\ Authorize(r, mission, <<[mission |-> mission, work |-> FALSE, event |-> e]>>)
    BY <1>3 DEF RequestHandoff, Presentable, Observing
  <2> HIDE DEF d
  <2>2. Seen(contract, lent) /\ lent.type = "handoff_initiated"
    BY DEF HandoffEvent, By, NoReferences, Seen, Fields
  <2>3. Awaits(contract, call) /\ ~call.work
    BY <2>2 DEF Awaits
  <2> HIDE DEF e
  <2> QED BY <2>1, <2>3, DecidesAwaiting DEF d
<1>4. ASSUME NEW r \in Requests, ShareData(r, mission)
      PROVE  \E events, more : Decides(mission, events, more)
  <2> DEFINE e == [OfZones("data_shared", r.actor, r.source, r.zone)
                     EXCEPT !.target = r.target, !.categories = r.categories]
             d == Evaluate(contract, r, clock, contract.revision)
             lent == [e EXCEPT !.delegation = d.delegation]
             call == [mission |-> mission, work |-> FALSE, event |-> lent]
  <2>1. /\ Presentable(r)
        /\ Authorize(r, mission, <<[mission |-> mission, work |-> FALSE, event |-> e]>>)
    BY <1>4 DEF ShareData, Presentable, Observing
  <2> HIDE DEF d
  <2>2. Seen(contract, lent) /\ lent.type = "data_shared"
    BY DEF OfZones, By, NoReferences, Seen, Fields
  <2>3. Awaits(contract, call) /\ ~call.work
    BY <2>2 DEF Awaits
  <2> HIDE DEF e
  <2> QED BY <2>1, <2>3, DecidesAwaiting DEF d
<1>5. ASSUME NEW h, CompleteHandoff(h, mission)
      PROVE  OInv'
  BY <1>5, CompletionKeeps
<1>6. ASSUME NEW actor, NEW ref, NEW record \in Records,
             RequireApproval(actor, ref, record, mission)
      PROVE  \E events, more : Decides(mission, events, more)
  <2> DEFINE r == [kind |-> "approval", actor |-> actor,
                   approval |-> Assertion(ref, record, NoRef)]
  <2>1. r.kind = "approval" /\ r.approval.type = record.type
    BY DEF Assertion
  <2>2. Authorize(r, mission, <<>>)
    BY <1>6 DEF RequireApproval
  <2> HIDE DEF r
  <2>3. Presentable(r)
    BY <2>1, ReferenceAssumption DEF Presentable
  <2> QED BY <2>2, <2>3, DecidesAlone
<1>7. ASSUME NEW x \in Crossings, CrossZone(x, mission)
      PROVE  \E events, more : Decides(mission, events, more)
  <2> DEFINE e == [OfZones("trust_zone_crossed", x.actor, x.source, x.zone)
                     EXCEPT !.approval = x.approval]
             Request(assertion) == [kind |-> "crossing", actor |-> x.actor, source |-> x.source,
                                    zone |-> x.zone, approval |-> assertion]
  <2>1. x.approval \in DOMAIN contract.approvals \cup {NoRef}
    BY <1>7 DEF CrossZone
  <2>2. \E assertion :
          /\ assertion # NoRef => assertion.type # NoRef
          /\ Authorize(Request(assertion), mission, Observing(mission, e))
    <3>1. CASE Authorize(Request(NoRef), mission, Observing(mission, e))
      BY <3>1
    <3>2. CASE \E role \in contract.approvals[x.approval].roles :
                 Authorize(Request(Assertion(x.approval, Granted(role),
                                             ZoneAction(x.source, x.zone, x.approval))),
                           mission, Observing(mission, e))
      <4>1. PICK role : Authorize(Request(Assertion(x.approval, Granted(role),
                                                    ZoneAction(x.source, x.zone, x.approval))),
                                  mission, Observing(mission, e))
        BY <3>2
      <4>2. Assertion(x.approval, Granted(role), ZoneAction(x.source, x.zone, x.approval)).type
              = "human"
        BY DEF Assertion, Granted
      <4> QED BY <4>1, <4>2, ReferenceAssumption
    <3> QED BY <1>7, <3>1, <3>2 DEF CrossZone
  <2>3. PICK assertion :
          /\ assertion # NoRef => assertion.type # NoRef
          /\ Authorize(Request(assertion), mission, Observing(mission, e))
    BY <2>2
  <2> DEFINE r == Request(assertion)
             d == Evaluate(contract, r, clock, contract.revision)
             lent == [e EXCEPT !.delegation = d.delegation]
             call == [mission |-> mission, work |-> FALSE, event |-> lent]
  <2>4. /\ Presentable(r)
        /\ Authorize(r, mission, <<[mission |-> mission, work |-> FALSE, event |-> e]>>)
    BY <2>3 DEF Presentable, Observing
  <2>5. r.kind = "crossing" /\ r.source = x.source /\ r.zone = x.zone
    OBVIOUS
  <2> HIDE DEF r
  <2>6. d = ZoneCrossing(contract, r, clock)
    BY <2>5 DEF Evaluate
  <2> HIDE DEF d
  <2>7. /\ d.delegation = NoRef
        /\ d.effect = "ALLOW" => /\ x.source \in DOMAIN contract.zones
                                 /\ x.zone \in contract.zones[x.source].targets
    BY <2>5, <2>6, CrossingWellmade
  <2>8. /\ DOMAIN lent = DOMAIN NoReferences /\ lent.type = "trust_zone_crossed"
        /\ Fields(lent, lent.type, lent.actor, NoRef, NoRef, NoRef, NoRef, lent.source, lent.zone,
                  lent.approval, NoRef, NoRef)
        /\ lent.source = x.source /\ lent.zone = x.zone /\ lent.approval = x.approval
    BY <2>7 DEF OfZones, By, NoReferences, Fields
  <2>9. call.event = lent /\ ~call.work /\ call.work = FALSE
    OBVIOUS
  <2> HIDE DEF e, lent
  <2>10. d.effect = "ALLOW" => Awaits(contract, call)
    <3>1. d.effect = "ALLOW" => Seen(contract, lent)
      BY <2>1, <2>7, <2>8 DEF Seen
    <3> HIDE DEF call
    <3> QED BY <2>8, <2>9, <3>1 DEF Awaits
  <2> QED BY <2>4, <2>9, <2>10, DecidesAwaiting DEF d, lent
<1>8. (\E events, more : Decides(mission, events, more)) => OInv'
  BY DecisionKeeps
<1> QED BY <1>1, <1>2, <1>3, <1>4, <1>5, <1>6, <1>7, <1>8 DEF Call

\* A new kernel satisfies the invariant.
LEMMA OInvInit == Init => OInv
<1> SUFFICES ASSUME Init PROVE OInv
  OBVIOUS
<1>1. <<>> \in Seq({}) /\ DOMAIN <<>> = {}
  OBVIOUS
<1>2. IsSequence(<<>>)
  BY <1>1, Zenon DEF IsSequence
<1>3. EventsInv(contract, <<>>) /\ PrefixBudget(<<>>)
  BY <1>1, <1>2 DEF EventsInv, PrefixBudget
<1>4. Budget(<<>>, <<>>)
  <2>1. ASSUME NEW types, NEW actor, NEW capability, NEW m
        PROVE  Count(<<>>, types, actor, capability, m) = 0
    BY <1>1, CountNone
  <2> QED BY <2>1 DEF Budget
<1>5. Runs(<<>>) = 0
  BY <1>1, RunsNone
<1> QED BY <1>1, <1>2, <1>3, <1>4, <1>5 DEF Init, OInv

\* And so does every successor of a state that does.
LEMMA OInvNext == KInv /\ OInv /\ [Next]_vars => OInv'
<1> SUFFICES ASSUME KInv, OInv, [Next]_vars
             PROVE  OInv'
  OBVIOUS
<1>1. ASSUME NEW m \in Missions, Call(m)
      PROVE  OInv'
  BY <1>1, CallMoves
<1>2. CASE Finish
  <2>1. PICK type \in Tools : Observe(type)
    BY <1>2 DEF Finish, Tools
  <2>2. calls # <<>> /\ calls[Len(calls)].work /\ ran' = ran + 1
    BY <1>2 DEF Finish
  <2> QED BY <2>1, <2>2, ObservationKeeps
<1>3. CASE Note
  <2> DEFINE type == calls[Len(calls)].event.type
  <2>1. calls # <<>> /\ Observe(type) /\ ~calls[Len(calls)].work /\ ran' = ran
    BY <1>3 DEF Note
  <2> QED BY <2>1, ObservationKeeps
<1>4. CASE UNCHANGED vars
  BY <1>4 DEF vars, OInv
<1> QED BY <1>1, <1>2, <1>3, <1>4 DEF Next

\* OInv holds of every reachable state.
THEOREM RunsInvariant == Spec => []OInv
  BY OInvInit, OInvNext, KernelInvariant, PTL DEF Spec

\* However calls nest, and whatever the recorder refuses in between, no prefix of the
\* evidence runs a tool more often than the decision core allowed it before.
THEOREM RunsAreAllowed == Spec => []AllowedAsOften
<1>1. OInv => AllowedAsOften
  BY DEF OInv, PrefixBudget, AllowedAsOften, Tools
<1> QED BY <1>1, RunsInvariant, PTL

\* A run that a nested call kept from being recorded leaves a stream that does not
\* validate, whatever the steps of the clock.
THEOREM NoRunIsSilent == Spec => []NoSilentRun
<1>1. OInv => NoSilentRun
  BY DEF OInv, Runs, NoSilentRun, Tools
<1> QED BY <1>1, RunsInvariant, PTL

-----------------------------------------------------------------------------
(* What the validator says of observations and of transitions.             *)

\* The observation of a run whose capability a new decision would allow again.
LEMMA ToolObserved ==
  ASSUME NEW c, WellFormed(c), NEW e, Seen(c, e), e.type \in {"tool_invoked", "runtime_failed"},
         NEW ts, NEW r, r.actor = e.actor, r.capability = e.capability,
         Capability(c, r, ts).effect = "ALLOW", Capability(c, r, ts).delegation = e.delegation
  PROVE  Codes(c, e, ts) = {}
<1> DEFINE received == Delegated(c, r.actor, r.capability, ts)
           d == CHOOSE x \in received : TRUE
           requested == OfCapability("capability_requested", r.actor, r.capability)
           allowed   == OfCapability("capability_allowed", r.actor, r.capability)
           denied    == OfCapability("capability_denied", r.actor, r.capability)
           decision  == Capability(c, r, ts)
<1>1. Fields(e, e.type, e.actor, NoRef, e.capability, e.delegation, NoRef, NoRef, NoRef, NoRef,
             NoRef, NoRef)
  BY DEF Seen
<1>2. decision.effect = "ALLOW" /\ decision.delegation = e.delegation
  OBVIOUS
<1>3. IdentityEffective(c, r.actor, ts)
  <2>1. CASE ~IdentityEffective(c, r.actor, ts)
    <3>1. decision = PartyRefusal(c, r.actor)
      BY <2>1 DEF Capability
    <3> HIDE DEF decision
    <3> QED BY <1>2, <3>1, PartyWellmade
  <2> QED BY <2>1
<1>4. r.capability \in c.capabilities
  <2>1. CASE r.capability \notin c.capabilities
    <3>1. decision = Deny("CAPABILITY_UNKNOWN", <<Violation(r.actor)>>)
      BY <1>3, <2>1 DEF Capability
    <3> HIDE DEF decision
    <3> QED BY <1>2, <3>1 DEF Deny
  <2> QED BY <2>1
<1>5. \/ HoldsCapability(c, r.actor, r.capability, ts) /\ e.delegation = NoRef
      \/ e.delegation \in received
  <2>1. CASE HoldsCapability(c, r.actor, r.capability, ts)
    <3>1. decision = Allow(<<requested, allowed>>)
      BY <1>3, <1>4, <2>1 DEF Capability
    <3> HIDE DEF decision
    <3> QED BY <1>2, <2>1, <3>1 DEF Allow
  <2>2. CASE ~HoldsCapability(c, r.actor, r.capability, ts) /\ received = {}
    <3>1. decision = Deny("CAPABILITY_DENIED", <<requested, denied>>)
      BY <1>3, <1>4, <2>2 DEF Capability
    <3> HIDE DEF decision
    <3> QED BY <1>2, <3>1 DEF Deny
  <2>3. CASE ~HoldsCapability(c, r.actor, r.capability, ts) /\ received # {}
    <3>1. decision = [Allow(<<requested, [allowed EXCEPT !.delegation = d]>>)
                        EXCEPT !.delegation = d]
      BY <1>3, <1>4, <2>3 DEF Capability
    <3>2. d \in received
      BY <2>3
    <3> HIDE DEF decision, d, requested, allowed, received
    <3>3. decision.delegation = d
      BY <3>1 DEF Allow
    <3> QED BY <1>2, <3>2, <3>3
  <2> QED BY <2>1, <2>2, <2>3
<1>6. Standing(c, e, ts)
  BY <1>1, <1>3 DEF Standing, Fields
<1>7. Declared(c, e)
  BY <1>1, <1>4, <1>5 DEF Declared, Fields, Delegated
<1>8. References!FieldCodes(e) = {}
  <2>1. e.capability # NoRef
    BY <1>4 DEF WellFormed
  <2>2. CASE e.type = "tool_invoked"
    BY <2>1, <2>2 DEF References!FieldCodes, References!RequiredFields
  <2>3. CASE e.type = "runtime_failed"
    BY <2>3 DEF References!FieldCodes, References!RequiredFields
  <2> QED BY <2>2, <2>3
<1>9. References!CapabilityCodes(c, e, ts) = {}
  <2>1. HoldsCapability(c, e.actor, e.capability, ts)
          => References!Holds(c, e.actor, e.capability, ts)
    BY SameStanding
  <2>2. e.delegation \in Delegated(c, e.actor, e.capability, ts)
          => References!Receives(c, e.actor, e.capability, e.delegation, ts)
    BY SameStanding
  <2> QED BY <1>5, <2>1, <2>2 DEF References!CapabilityCodes
<1> QED BY <1>6, <1>7, <1>8, <1>9, PartiesClean, DeclaredClean, OthersClean
        DEF Codes, References!ReferenceCodes

\* The observation of a handoff that would be allowed again, initiated or completed.
LEMMA HandoffObserved ==
  ASSUME NEW c, WellFormed(c), NEW e, Seen(c, e),
         e.type \in {"handoff_initiated", "handoff_completed"},
         NEW ts, NEW r, r.id = e.handoff,
         Handoff(c, r, ts).effect = "ALLOW", Handoff(c, r, ts).delegation = e.delegation
  PROVE  Codes(c, e, ts) = {}
<1> DEFINE hand == c.handoffs[e.handoff]
           decision == Handoff(c, r, ts)
           violation == [Violation(hand.source) EXCEPT !.target = hand.target, !.handoff = e.handoff]
<1>1. Fields(e, e.type, hand.source, hand.target, NoRef, e.delegation, e.handoff, NoRef, NoRef,
             NoRef, NoRef, NoRef)
  BY DEF Seen
<1>2. /\ decision.effect = "ALLOW" /\ decision.delegation = e.delegation
  OBVIOUS
<1>3. \/ decision = Deny("HANDOFF_UNKNOWN", <<>>)
      \/ decision = PartiesRefusal(c, hand.source, hand.target, ts)
      \/ decision = Deny("HANDOFF_AUTHORITY", <<violation>>)
      \/ /\ decision = Allow(<<>>) /\ e.handoff \in DOMAIN c.handoffs
         /\ IdentityEffective(c, hand.source, ts) /\ IdentityEffective(c, hand.target, ts)
  BY DEF Handoff
<1> HIDE DEF decision, violation
<1>4. /\ decision = Allow(<<>>) /\ e.handoff \in DOMAIN c.handoffs
      /\ IdentityEffective(c, hand.source, ts) /\ IdentityEffective(c, hand.target, ts)
  BY <1>2, <1>3, PartiesWellmade DEF Deny
<1>5. e.delegation = NoRef
  BY <1>2, <1>4 DEF Allow
<1>6. Standing(c, e, ts)
  BY <1>1, <1>4 DEF Standing, Fields
<1>7. Declared(c, e)
  BY <1>1, <1>4, <1>5 DEF Declared, Fields
<1>8. References!FieldCodes(e) = {}
  <2>1. e.handoff # NoRef /\ e.target # NoRef
    BY <1>1, <1>4 DEF WellFormed, IdentityEffective, Fields
  <2>2. References!RequiredFields(e.type) = {"handoff", "target"}
    <3>1. CASE e.type = "handoff_initiated"
      BY <3>1 DEF References!RequiredFields
    <3>2. CASE e.type = "handoff_completed"
      BY <3>2 DEF References!RequiredFields
    <3> QED BY <3>1, <3>2
  <2> QED BY <2>1, <2>2 DEF References!FieldCodes
<1>9. References!HandoffCodes(c, e) = {}
  BY <1>1 DEF References!HandoffCodes, Fields
<1> QED BY <1>6, <1>7, <1>8, <1>9, PartiesClean, DeclaredClean, OthersClean
        DEF Codes, References!ReferenceCodes

\* The observation of a crossing by a party that is still effective.
LEMMA CrossingObserved ==
  ASSUME NEW c, WellFormed(c), NEW e, Seen(c, e), e.type = "trust_zone_crossed",
         NEW ts, IdentityEffective(c, e.actor, ts)
  PROVE  Codes(c, e, ts) \subseteq {"CROSSING_UNGOVERNED", "CROSSING_APPROVAL_MISSING"}
<1>1. /\ Fields(e, e.type, e.actor, NoRef, NoRef, NoRef, NoRef, e.source, e.zone, e.approval,
                NoRef, NoRef)
      /\ e.source \in DOMAIN c.zones /\ e.zone \in c.zones[e.source].targets
      /\ e.approval \in DOMAIN c.approvals \cup {NoRef}
  BY DEF Seen
<1>2. e.zone \in DOMAIN c.zones /\ e.source # NoRef /\ e.zone # NoRef
  BY <1>1 DEF WellFormed
<1>3. Standing(c, e, ts)
  BY <1>1 DEF Standing, Fields
<1>4. Declared(c, e)
  BY <1>1, <1>2 DEF Declared, Fields
<1>5. References!FieldCodes(e) = {}
  BY <1>2 DEF References!FieldCodes, References!RequiredFields
<1>6. References!CrossingCodes(c, e) \subseteq {"CROSSING_UNGOVERNED", "CROSSING_APPROVAL_MISSING"}
  BY <1>1 DEF References!CrossingCodes
<1> QED BY <1>3, <1>4, <1>5, <1>6, PartiesClean, DeclaredClean, OthersClean
        DEF Codes, References!ReferenceCodes

\* The observation of a share that would be allowed again: the validator asks for
\* categories and declared zones even where nothing was shared.
LEMMA ShareObserved ==
  ASSUME NEW c, WellFormed(c), NEW e, Seen(c, e), e.type = "data_shared", NEW ts,
         NEW r, r.actor = e.actor, r.target = e.target, r.source = e.source, r.zone = e.zone,
         r.categories = e.categories,
         DataShare(c, r, ts).effect = "ALLOW", DataShare(c, r, ts).delegation = e.delegation
  PROVE  Codes(c, e, ts) \subseteq IF e.categories = {} THEN {"FIELD_REQUIRED", "ZONE_UNKNOWN"} ELSE {}
<1> DEFINE decision == DataShare(c, r, ts)
           violation == [Violation(e.actor) EXCEPT !.target = e.target]
<1>1. Fields(e, e.type, e.actor, e.target, NoRef, e.delegation, NoRef, e.source, e.zone, NoRef,
             NoRef, NoRef)
  BY DEF Seen
<1>2. decision.effect = "ALLOW" /\ decision.delegation = e.delegation
  OBVIOUS
<1>3. \/ decision = PartiesRefusal(c, e.actor, e.target, ts)
      \/ decision = Deny("SENSITIVE_SHARING", <<violation>>)
      \/ decision = Deny("SHARE_NOT_ALLOWED", <<violation>>)
      \/ /\ decision = Allow(<<>>)
         /\ IdentityEffective(c, e.actor, ts) /\ IdentityEffective(c, e.target, ts)
         /\ e.categories \cap SensitiveCategories = {}
         /\ e.categories \subseteq Allowlist(c, e.source) \cap Allowlist(c, e.zone)
  BY DEF DataShare
<1> HIDE DEF decision, violation
<1>4. /\ decision = Allow(<<>>)
      /\ IdentityEffective(c, e.actor, ts) /\ IdentityEffective(c, e.target, ts)
      /\ e.categories \cap SensitiveCategories = {}
      /\ e.categories \subseteq Allowlist(c, e.source) \cap Allowlist(c, e.zone)
  BY <1>2, <1>3, PartiesWellmade DEF Deny
<1>5. e.delegation = NoRef
  BY <1>2, <1>4 DEF Allow
<1>6. References!PartyCodes(c, e, ts) = {}
  BY <1>4, PartiesClean DEF Standing
<1>7. /\ References!FieldCodes(e) \subseteq {"FIELD_REQUIRED"}
      /\ e.categories # {} => References!FieldCodes(e) = {}
  <2>1. References!FieldCodes(e) \subseteq {"FIELD_REQUIRED"}
    BY DEF References!FieldCodes
  <2>2. References!RequiredFields(e.type) = {"categories", "target"}
    BY DEF References!RequiredFields
  <2>3. e.target # NoRef
    BY <1>4 DEF WellFormed, IdentityEffective
  <2> QED BY <2>1, <2>2, <2>3 DEF References!FieldCodes
<1>8. /\ References!UnknownCodes(c, e) \subseteq {"ZONE_UNKNOWN"}
      /\ e.categories # {} => References!UnknownCodes(c, e) = {}
  <2>1. References!UnknownCodes(c, e) \subseteq {"ZONE_UNKNOWN"}
    BY <1>1, <1>5 DEF References!UnknownCodes, Fields
  <2>2. e.categories # {} => e.source \in DOMAIN c.zones /\ e.zone \in DOMAIN c.zones
    BY <1>4 DEF Allowlist
  <2> QED BY <1>1, <1>5, <2>1, <2>2 DEF References!UnknownCodes, Fields
<1>9. References!ShareCodes(c, e) = {}
  BY <1>4 DEF References!ShareCodes, Allowlist
<1>10. /\ References!CapabilityCodes(c, e, ts) = {} /\ References!DelegationCodes(c, e, ts) = {}
       /\ References!HandoffCodes(c, e) = {} /\ References!CrossingCodes(c, e) = {}
       /\ References!ApproverCodes(c, e) = {}
  BY OthersClean
<1> QED BY <1>6, <1>7, <1>8, <1>9, <1>10 DEF Codes, References!ReferenceCodes

\* An observation whose decision still stands is one the validator accepts, but for
\* the differences between the two readings that ObservationsValidate lists.
THEOREM ObservationsAlwaysValidate == Spec => []ObservationsValidate
<1>1. ASSUME KInv, OInv
      PROVE  ObservationsValidate
  <2> SUFFICES ASSUME NEW i \in DOMAIN stream, stream[i].event.type \in ObservationTypes,
                      StillAllowed(stream[i])
               PROVE  Codes(contract, stream[i].event, stream[i].at) \subseteq
                        CASE stream[i].event.type = "trust_zone_crossed" ->
                               {"CROSSING_UNGOVERNED", "CROSSING_APPROVAL_MISSING"}
                          [] stream[i].event.type = "data_shared"
                               /\ stream[i].event.categories = {} ->
                               {"FIELD_REQUIRED", "ZONE_UNKNOWN"}
                          [] OTHER -> {}
    BY DEF ObservationsValidate
  <2> DEFINE e == stream[i].event
             at == stream[i].at
  <2>1. WellFormed(contract) /\ Seen(contract, e)
    BY <1>1, LoadedWellFormed DEF KInv, OInv, EventsInv
  <2>2. CASE e.type \in {"tool_invoked", "runtime_failed"}
    <3> DEFINE r == [kind |-> "capability", actor |-> e.actor, capability |-> e.capability]
    <3>1. Evaluate(contract, r, at, contract.revision) = Capability(contract, r, at)
      BY DEF Evaluate
    <3>2. /\ Capability(contract, r, at).effect = "ALLOW"
          /\ Capability(contract, r, at).delegation = e.delegation
      BY <2>2, <3>1 DEF StillAllowed
    <3>3. Codes(contract, e, at) = {}
      BY <2>1, <2>2, <3>2, ToolObserved
    <3> QED BY <3>3
  <2>3. CASE e.type \in {"handoff_initiated", "handoff_completed"}
    <3> DEFINE r == [kind |-> "handoff", id |-> e.handoff]
    <3>1. Evaluate(contract, r, at, contract.revision) = Handoff(contract, r, at)
      BY DEF Evaluate
    <3>2. /\ Handoff(contract, r, at).effect = "ALLOW"
          /\ Handoff(contract, r, at).delegation = e.delegation
      BY <2>3, <3>1 DEF StillAllowed
    <3>3. Codes(contract, e, at) = {}
      BY <2>1, <2>3, <3>2, HandoffObserved
    <3> QED BY <3>3
  <2>4. CASE e.type = "trust_zone_crossed"
    <3>1. Codes(contract, e, at) \subseteq {"CROSSING_UNGOVERNED", "CROSSING_APPROVAL_MISSING"}
      BY <2>1, <2>4, CrossingObserved DEF StillAllowed
    <3> QED BY <2>4, <3>1
  <2>5. CASE e.type = "data_shared"
    <3> DEFINE r == [kind |-> "share", actor |-> e.actor, target |-> e.target,
                     source |-> e.source, zone |-> e.zone, categories |-> e.categories]
    <3>1. Evaluate(contract, r, at, contract.revision) = DataShare(contract, r, at)
      BY DEF Evaluate
    <3>2. /\ DataShare(contract, r, at).effect = "ALLOW"
          /\ DataShare(contract, r, at).delegation = e.delegation
      BY <2>5, <3>1 DEF StillAllowed
    <3>3. Codes(contract, e, at) \subseteq
            IF e.categories = {} THEN {"FIELD_REQUIRED", "ZONE_UNKNOWN"} ELSE {}
      BY <2>1, <2>5, <3>2, ShareObserved
    <3> QED BY <2>5, <3>3
  <2> QED BY <2>1, <2>2, <2>3, <2>4, <2>5 DEF Seen
<1> QED BY <1>1, KernelInvariant, RunsInvariant, PTL

\* A mission's transitions are the stream's, and the earlier ones come earlier.
LEMMA TransitionOf ==
  ASSUME NEW s, NEW m
  PROVE  /\ DOMAIN Transitions(s, m) = DOMAIN s
         /\ \A i \in DOMAIN s :
              /\ s[i].mission = m => /\ Transitions(s, m)[i].type = s[i].event.type
                                     /\ Transitions(s, m)[i].subject = Subject(s[i].event)
              /\ s[i].mission # m => Transitions(s, m)[i].type = "none"
  BY DEF Transitions

\* A tool that was observed was allowed earlier in its mission.
LEMMA AllowedBefore ==
  ASSUME NEW s, IsSequence(s), PrefixBudget(s), NEW j \in DOMAIN s, s[j].event.type = "tool_invoked"
  PROVE  \E i \in 1..(j - 1) :
           /\ s[i].mission = s[j].mission /\ s[i].event.type = "capability_allowed"
           /\ s[i].event.actor = s[j].event.actor
           /\ s[i].event.capability = s[j].event.capability
<1> DEFINE p == SubSeq(s, 1, j)
           e == s[j].event
           m == s[j].mission
           I == {i \in DOMAIN p : /\ p[i].mission = m /\ p[i].event.type \in {"capability_allowed"}
                                  /\ p[i].event.actor = e.actor
                                  /\ p[i].event.capability = e.capability}
<1>1. PICK S : s \in Seq(S)
  BY DEF IsSequence
<1>2. /\ j \in 1..Len(s) /\ Len(s) \in Nat
      /\ p \in Seq(S) /\ DOMAIN p = 1..j /\ \A i \in 1..j : p[i] = s[i]
  BY <1>1
<1>3. Count(p, Tools, e.actor, e.capability, m)
        <= Count(p, {"capability_allowed"}, e.actor, e.capability, m)
  BY DEF PrefixBudget, Tools
<1>4. Count(p, {"capability_allowed"}, e.actor, e.capability, m) = Cardinality(I)
  BY DEF Count
<1> HIDE DEF p
<1>5. IsSequence(p)
  BY <1>2, Zenon DEF IsSequence
<1>6. Count(p, Tools, e.actor, e.capability, m) \in Nat \ {0}
  <2>1. j \in DOMAIN p /\ p[j] = s[j] /\ e.type \in Tools
    BY <1>2 DEF Tools
  <2> QED BY <1>5, <2>1, CountPositive
<1>7. I # {}
  <2>1. ASSUME I = {}
        PROVE  FALSE
    <3>1. Cardinality(I) = 0
      BY <2>1, FS_EmptySet
    <3> HIDE DEF I
    <3> QED BY <1>3, <1>4, <1>6, <3>1
  <2> QED BY <2>1
<1>8. PICK i \in I : TRUE
  BY <1>7
<1>9. i \in 1..j /\ i # j /\ p[i] = s[i]
  BY <1>2, <1>8
<1> QED BY <1>2, <1>8, <1>9

\* The only transitions of a mission that nothing opens are completions that nobody
\* initiated, and the only contradictions are of decisions at different instants.
THEOREM TransitionsAlwaysValidate == Spec => []TransitionsValidate
<1>1. ASSUME OInv, NEW m \in Missions, Rules!Unopened(Transitions(stream, m), FALSE)
      PROVE  LET s == Transitions(stream, m)
             IN  \E i \in DOMAIN s :
                   /\ s[i].type = "handoff_completed"
                   /\ \A j \in 1..(i - 1) : s[j] # [s[i] EXCEPT !.type = "handoff_initiated"]
  <2> DEFINE s == Transitions(stream, m)
  <2>1. /\ IsSequence(stream) /\ PrefixBudget(stream) /\ EventsInv(contract, stream)
    BY <1>1 DEF OInv, EventsInv
  <2>2. /\ DOMAIN s = DOMAIN stream
        /\ \A i \in DOMAIN stream :
             /\ stream[i].mission = m => /\ s[i].type = stream[i].event.type
                                         /\ s[i].subject = Subject(stream[i].event)
             /\ stream[i].mission # m => s[i].type = "none"
    BY TransitionOf
  <2>3. /\ Len(stream) \in Nat /\ DOMAIN stream = 1..Len(stream)
    BY <2>1, Positions
  <2>4. PICK j \in DOMAIN s :
          /\ s[j].type \in DOMAIN Rules!Opener
          /\ \A i \in 1..(j - 1) :
               s[i].type = Rules!Opener[s[j].type] => ~Rules!SameScope(s[i], s[j], FALSE)
    BY <1>1 DEF Rules!Unopened
  <2> DEFINE type == s[j].type
  <2>5. type \in {"tool_invoked", "delegation_accepted", "delegation_rejected",
                  "handoff_completed", "approval_granted", "approval_rejected"}
    BY <2>4 DEF Rules!Opener
  <2>6. stream[j].mission = m /\ type = stream[j].event.type /\ s[j].subject = Subject(stream[j].event)
    BY <2>2, <2>4, <2>5
  <2>7. ASSUME NEW i \in 1..(j - 1), stream[i].mission = m,
               stream[i].event.type = Rules!Opener[type],
               Subject(stream[i].event) = Subject(stream[j].event)
        PROVE  FALSE
    <3>1. i \in DOMAIN stream
      BY <2>2, <2>3
    <3>2. s[i].type = Rules!Opener[type] /\ s[i].subject = s[j].subject
      BY <2>2, <2>6, <2>7, <3>1
    <3> HIDE DEF s
    <3>3. Rules!SameScope(s[i], s[j], FALSE)
      BY <3>2 DEF Rules!SameScope, Rules!Scope
    <3> QED BY <2>4, <3>2, <3>3
  <2> HIDE DEF s
  <2>8. CASE type = "tool_invoked"
    <3>1. PICK i \in 1..(j - 1) :
            /\ stream[i].mission = m /\ stream[i].event.type = "capability_allowed"
            /\ stream[i].event.actor = stream[j].event.actor
            /\ stream[i].event.capability = stream[j].event.capability
      BY <2>1, <2>2, <2>6, <2>8, AllowedBefore
    <3>2. Rules!Opener[type] = "capability_allowed"
      BY <2>8 DEF Rules!Opener
    <3>3. Subject(stream[i].event) = Subject(stream[j].event)
      BY <2>6, <2>8, <3>1 DEF Subject
    <3> QED BY <2>7, <3>1, <3>2, <3>3
  <2>9. CASE type \in SelfOpened
    <3>1. PICK i \in 1..(j - 1) :
            /\ stream[i].mission = stream[j].mission
            /\ stream[i].event.type = Rules!Opener[stream[j].event.type]
            /\ Subject(stream[i].event) = Subject(stream[j].event)
      BY <2>1, <2>2, <2>6, <2>9 DEF EventsInv
    <3> QED BY <2>6, <2>7, <3>1
  <2>10. CASE type = "handoff_completed"
    <3>1. ASSUME NEW i \in 1..(j - 1), s[i] = [s[j] EXCEPT !.type = "handoff_initiated"]
          PROVE  FALSE
      <4>1. i \in DOMAIN stream
        BY <2>2, <2>3
      <4>2. s[j] = [type |-> stream[j].event.type, subject |-> Subject(stream[j].event)]
        BY <2>2, <2>6 DEF s, Transitions
      <4>3. s[i].type = "handoff_initiated" /\ s[i].subject = s[j].subject
        BY <3>1, <4>2
      <4>4. stream[i].mission = m /\ stream[i].event.type = "handoff_initiated"
            /\ Subject(stream[i].event) = Subject(stream[j].event)
        BY <2>2, <2>6, <4>1, <4>3
      <4>5. Rules!Opener[type] = "handoff_initiated"
        BY <2>10 DEF Rules!Opener
      <4> QED BY <2>7, <4>4, <4>5
    <3> QED BY <2>10, <3>1 DEF s
  <2> QED BY <2>5, <2>8, <2>9, <2>10 DEF SelfOpened
<1>2. ASSUME OInv, NEW m \in Missions, Rules!DecisionContradiction(Transitions(stream, m), FALSE)
      PROVE  \E i, j \in DOMAIN stream :
               /\ stream[i].event.type = "capability_allowed"
               /\ stream[j].event.type = "capability_denied"
               /\ stream[i].at # stream[j].at
  <2> DEFINE s == Transitions(stream, m)
  <2>1. PICK i, j \in DOMAIN s :
          /\ s[i].type = "capability_allowed" /\ s[j].type = "capability_denied"
          /\ Rules!SameScope(s[i], s[j], FALSE)
    BY <1>2 DEF Rules!DecisionContradiction
  <2>2. /\ DOMAIN s = DOMAIN stream
        /\ \A k \in DOMAIN stream :
             /\ stream[k].mission = m => /\ s[k].type = stream[k].event.type
                                         /\ s[k].subject = Subject(stream[k].event)
             /\ stream[k].mission # m => s[k].type = "none"
    BY TransitionOf
  <2> HIDE DEF s
  <2>3. /\ stream[i].event.type = "capability_allowed" /\ stream[j].event.type = "capability_denied"
        /\ s[i].subject = Subject(stream[i].event) /\ s[j].subject = Subject(stream[j].event)
    BY <2>1, <2>2
  <2>4. Subject(stream[i].event) = Subject(stream[j].event)
    BY <2>1, <2>3 DEF Rules!SameScope
  <2>5. /\ stream[i].event.actor = stream[j].event.actor
        /\ stream[i].event.capability = stream[j].event.capability
    BY <2>3, <2>4 DEF Subject
  <2>6. /\ Right(contract, stream[i].event.actor, stream[i].event.capability, stream[i].at)
        /\ ~Right(contract, stream[j].event.actor, stream[j].event.capability, stream[j].at)
    BY <1>2, <2>1, <2>2, <2>3 DEF OInv, EventsInv
  <2> QED BY <2>1, <2>2, <2>3, <2>5, <2>6
<1>3. OInv => TransitionsValidate
  BY <1>1, <1>2 DEF TransitionsValidate
<1> QED BY <1>3, RunsInvariant, PTL

=============================================================================
