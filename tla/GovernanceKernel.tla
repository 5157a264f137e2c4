--------------------------- MODULE GovernanceKernel ---------------------------
(***************************************************************************)
(* GovernanceKernel of integrations/nornyx_reference_adapters: the facade  *)
(* that authorizes each call through the decision core, runs the protected *)
(* work, and records both in one legacy stream.  Its clock moves with each *)
(* decision and each observation; every move but a zero one resumes the    *)
(* recorder, which validates the whole stream so far.  Protected work may  *)
(* call the kernel again before it returns.                                *)
(***************************************************************************)
EXTENDS Authorizer, FiniteSets

CONSTANTS
  Contracts,       \* the contracts a kernel is loaded with
  AsOf,            \* as_of, the validation time and the first decision_at
  Start, Step,     \* DeterministicClock
  Missions,
  Requests,        \* capability, delegation, handoff and share requests
  Crossings,       \* [actor, source, zone, approval], approval a reference or NoRef
  Records,         \* approval records: [type, role, granted, action, issued, expires, revision,
                   \*   evidence, given]; given says that evidence_refs is supplied
  ApprovalRefs,
  UnsupportedAction,  \* "legacy.unsupported"
  MaxClock,        \* bound on the clock of a new call
  MaxDepth         \* bound on nested calls

ASSUME KernelAssumption ==
  /\ {AsOf, Start, Step, MaxClock, MaxDepth} \subseteq Nat
  /\ \A c \in Contracts : Loadable(c, AsOf)

\* An absent reference is not the name of anything.
ASSUME ReferenceAssumption ==
  /\ NoRef # "human" /\ \A r \in Records : r.type # NoRef
  /\ \A c \in Contracts :
       NoRef \notin DOMAIN c.identities \cup c.capabilities \cup DOMAIN c.delegations
                     \cup DOMAIN c.approvals \cup DOMAIN c.handoffs \cup DOMAIN c.zones

VARIABLES
  contract,        \* Authorizer.state
  clock,           \* what the clock's next() returns next
  contextAt,       \* context.decision_at of the current recorder
  stream,          \* the recorder's events: [mission, at, event]
  calls,           \* the calls that were allowed and not yet observed, innermost last
  ran              \* how many protected callables have returned or raised

vars == <<contract, clock, contextAt, stream, calls, ran>>

References == INSTANCE EventReferences
Rules == INSTANCE OccurrenceRules
           WITH Operations <- {}, Occurrences <- {}, MaxAttempt <- 1, Subjects <- {}

-----------------------------------------------------------------------------
(* Validation of the cumulative stream.                                    *)

\* The table key of a legacy transition.
Subject(e) ==
  IF e.type \in {"delegation_requested", "delegation_accepted", "delegation_rejected"}
    THEN <<e.delegation>>
  ELSE IF e.type \in {"handoff_initiated", "handoff_completed"} THEN <<e.handoff>>
  ELSE IF e.type \in {"approval_requested", "approval_granted", "approval_rejected"}
    THEN <<e.approval>>
  ELSE <<e.actor, e.capability>>

\* A mission's transitions: the events of other missions are none of them.
Transitions(s, mission) ==
  [i \in DOMAIN s |-> IF s[i].mission = mission
                      THEN [type |-> s[i].event.type, subject |-> Subject(s[i].event)]
                      ELSE [type |-> "none", subject |-> <<>>]]

\* validate_runtime_events on what the recorder produced; "pass" is the empty set.
StreamCodes(c, s) ==
  (UNION {References!ReferenceCodes(c, s[i].event, s[i].at) : i \in DOMAIN s})
    \cup (UNION {Rules!Diagnostics(Transitions(s, s[i].mission), FALSE) : i \in DOMAIN s})
    \cup (IF \E i, j \in DOMAIN s : i # j /\ s[i] = s[j] THEN {"REPLAY"} ELSE {})

-----------------------------------------------------------------------------
Init ==
  /\ contract \in Contracts
  /\ clock = Start
  /\ contextAt = AsOf
  /\ stream = <<>>
  /\ calls = <<>>
  /\ ran = 0

Stamp(mission, at, events) ==
  [i \in DOMAIN events |-> [mission |-> mission, at |-> at, event |-> events[i]]]

\* _advance_recorder succeeds: the same instant needs no resumption.
Continues ==
  \/ clock = contextAt
  \/ StreamCodes(contract, stream) = {} /\ \A i \in DOMAIN stream : stream[i].at <= clock

\* next() has moved the clock even when the resumption is refused.
Advance ==
  /\ clock' = clock + Step
  /\ contextAt' = IF Continues THEN clock ELSE contextAt
  /\ UNCHANGED contract

\* A call begins at the top level or inside protected work.
CanCall ==
  /\ clock < MaxClock /\ Len(calls) < MaxDepth
  /\ calls # <<>> => calls[Len(calls)].work

\* Mutants of Authorize: the decision is recorded only when it refuses; a refused call
\* is observed as well.
AuthorizeUnrecorded(request, mission, rest) ==
  LET decision == Evaluate(contract, request, clock, contract.revision)
  IN  /\ CanCall /\ Advance
      /\ stream' = IF Continues /\ decision.effect # "ALLOW"
                   THEN stream \o Stamp(mission, clock, decision.intents) ELSE stream
      /\ calls' = IF Continues /\ decision.effect = "ALLOW" THEN calls \o rest ELSE calls
      /\ UNCHANGED ran
AuthorizeAnyway(request, mission, rest) ==
  LET decision == Evaluate(contract, request, clock, contract.revision)
  IN  /\ CanCall /\ Advance
      /\ stream' = IF Continues THEN stream \o Stamp(mission, clock, decision.intents) ELSE stream
      /\ calls' = IF Continues THEN calls \o rest ELSE calls
      /\ UNCHANGED ran

\* _authorize and, on ALLOW, what is left of the call: <<>> or its one observation,
\* which names the delegation the decision rests on.
Authorize(request, mission, rest) ==
  LET decision == Evaluate(contract, request, clock, contract.revision)
      left == [i \in DOMAIN rest |-> [rest[i] EXCEPT !.event.delegation = decision.delegation]]
  IN  /\ CanCall /\ Advance
      /\ stream' = IF Continues THEN stream \o Stamp(mission, clock, decision.intents) ELSE stream
      /\ calls' = IF Continues /\ decision.effect = "ALLOW" THEN calls \o left ELSE calls
      /\ UNCHANGED ran

Observing(mission, event) == <<[mission |-> mission, work |-> FALSE, event |-> event]>>
Working(mission, event) == <<[mission |-> mission, work |-> TRUE, event |-> event]>>

\* check_capability, request_delegation: a decision and nothing else.
Check(r, mission) ==
  /\ \/ r.kind = "capability" /\ r.actor \in DOMAIN contract.identities
     \/ r.kind = "delegation"
  /\ Authorize(r, mission, <<>>)

\* _execute_tool_callable up to the call of work().
Execute(r, mission) ==
  /\ r.kind = "capability" /\ r.actor \in DOMAIN contract.identities
  /\ Authorize(r, mission,
               Working(mission, OfCapability("tool_invoked", r.actor, r.capability)))

\* Mutant of HandoffEvent: the parties swapped.
HandoffSwapped(type, h) ==
  [By(type, contract.handoffs[h].target)
     EXCEPT !.target = contract.handoffs[h].source, !.handoff = h]
HandoffEvent(type, h) ==
  [By(type, contract.handoffs[h].source)
     EXCEPT !.target = contract.handoffs[h].target, !.handoff = h]

RequestHandoff(r, mission) ==
  /\ r.kind = "handoff"
  /\ Authorize(r, mission, Observing(mission, HandoffEvent("handoff_initiated", r.id)))

\* complete_handoff evaluates nothing and asks for no earlier initiation.
CompleteHandoff(h, mission) ==
  /\ CanCall /\ h \in DOMAIN contract.handoffs
  /\ Advance
  /\ stream' = IF Continues
               THEN stream \o Stamp(mission, clock, <<HandoffEvent("handoff_completed", h)>>)
               ELSE stream
  /\ UNCHANGED <<calls, ran>>

\* _approval_assertion: omitted fields are filled from the requirement and from the
\* context before the clock moves.
Assertion(ref, record, action) ==
  LET known == ref \in DOMAIN contract.approvals
      actions == IF known THEN contract.approvals[ref].actions ELSE {}
  IN  [ref |-> ref, role |-> record.role, type |-> record.type, granted |-> record.granted,
       action |-> IF action # NoRef THEN action ELSE IF record.action # NoRef THEN record.action
                  ELSE IF actions = {} THEN UnsupportedAction ELSE CHOOSE x \in actions : TRUE,
       revision |-> IF record.revision = NoRef THEN contract.revision ELSE record.revision,
       issued |-> IF record.issued = NoTime THEN contextAt ELSE record.issued,
       expires |-> record.expires,
       evidence |-> IF record.given THEN record.evidence
                    ELSE IF known THEN contract.approvals[ref].evidence ELSE {}]

RequireApproval(actor, ref, record, mission) ==
  /\ actor \in DOMAIN contract.identities
  /\ Authorize([kind |-> "approval", actor |-> actor, approval |-> Assertion(ref, record, NoRef)],
               mission, <<>>)

\* _zone_action_ref: an action of a gate that requires the approval.
ZoneAction(source, zone, ref) ==
  LET gates == {g \in GoverningGates(contract, source, zone) : ref \in g.approvals /\ g.actions # {}}
  IN  IF gates = {} THEN NoRef ELSE CHOOSE x \in (CHOOSE g \in gates : TRUE).actions : TRUE

\* record_zone_crossing: an approval reference becomes a granted human assertion in a
\* role of the requirement; a reference without one is refused before anything happens.
Granted(role) ==
  [type |-> "human", role |-> role, granted |-> TRUE, action |-> NoRef, issued |-> NoTime, expires |-> NoTime,
   revision |-> NoRef, evidence |-> {}, given |-> FALSE]

CrossZone(x, mission) ==
  LET crossed == Observing(mission, [OfZones("trust_zone_crossed", x.actor, x.source, x.zone)
                                       EXCEPT !.approval = x.approval])
      Request(assertion) ==
        [kind |-> "crossing", actor |-> x.actor, source |-> x.source, zone |-> x.zone,
         approval |-> assertion]
  IN  /\ x.actor \in DOMAIN contract.identities
      /\ \/ x.approval = NoRef /\ Authorize(Request(NoRef), mission, crossed)
         \/ /\ x.approval \in DOMAIN contract.approvals
            /\ \E role \in contract.approvals[x.approval].roles :
                 Authorize(Request(Assertion(x.approval, Granted(role),
                                             ZoneAction(x.source, x.zone, x.approval))),
                           mission, crossed)

ShareData(r, mission) ==
  /\ r.kind = "share" /\ {r.actor, r.target} \subseteq DOMAIN contract.identities
  /\ Authorize(r, mission,
               Observing(mission, [OfZones("data_shared", r.actor, r.source, r.zone)
                                     EXCEPT !.target = r.target, !.categories = r.categories]))

\* Mutant of Observe: an observation the recorder refuses is kept all the same.
ObserveAlways(type) ==
  LET call == calls[Len(calls)]
  IN  /\ Advance
      /\ stream' = stream \o Stamp(call.mission, clock, <<[call.event EXCEPT !.type = type]>>)
      /\ calls' = SubSeq(calls, 1, Len(calls) - 1)

\* _record_observation for the innermost call.
Observe(type) ==
  LET call == calls[Len(calls)]
  IN  /\ Advance
      /\ stream' = IF Continues
                   THEN stream \o Stamp(call.mission, clock, <<[call.event EXCEPT !.type = type]>>)
                   ELSE stream
      /\ calls' = SubSeq(calls, 1, Len(calls) - 1)

\* Mutant of Finish: a callable that raises is not recorded.
FinishQuietly ==
  /\ calls # <<>> /\ calls[Len(calls)].work
  /\ \/ Observe("tool_invoked")
     \/ Advance /\ calls' = SubSeq(calls, 1, Len(calls) - 1) /\ UNCHANGED stream
  /\ ran' = ran + 1

\* The protected callable returns or raises.
Finish ==
  /\ calls # <<>> /\ calls[Len(calls)].work
  /\ \E type \in {"tool_invoked", "runtime_failed"} : Observe(type)
  /\ ran' = ran + 1

\* A handoff, crossing or share is observed as soon as it is allowed.
Note ==
  /\ calls # <<>> /\ ~calls[Len(calls)].work
  /\ Observe(calls[Len(calls)].event.type)
  /\ UNCHANGED ran

Call(mission) ==
  \/ \E r \in Requests :
       \/ Check(r, mission) \/ Execute(r, mission)
       \/ RequestHandoff(r, mission) \/ ShareData(r, mission)
  \/ \E h \in DOMAIN contract.handoffs : CompleteHandoff(h, mission)
  \/ \E actor \in DOMAIN contract.identities, ref \in ApprovalRefs, record \in Records :
       RequireApproval(actor, ref, record, mission)
  \/ \E x \in Crossings : CrossZone(x, mission)

Next == (\E m \in Missions : Call(m)) \/ Finish \/ Note
Spec == Init /\ [][Next]_vars

-----------------------------------------------------------------------------
(* Properties.                                                             *)

ObservationTypes == {"tool_invoked", "runtime_failed", "handoff_initiated", "handoff_completed",
                     "trust_zone_crossed", "data_shared"}

Codes(c, e, ts) == References!ReferenceCodes(c, e, ts)

\* The exceptions: the violation of a party that is not effective carries that
\* party as its actor; an approval that is not declared is requested all the same;
\* a grant names a role of its own requirement that the network approval lacks.
Excused(c, e, ts) ==
  \/ /\ e.type = "policy_violation" /\ ~IdentityEffective(c, e.actor, ts)
     /\ Codes(c, e, ts) \subseteq {"ACTOR_REVOKED", "ACTOR_NOT_EFFECTIVE"}
  \/ /\ e.type = "approval_requested"
     /\ \/ Codes(c, e, ts) = {"APPROVAL_UNKNOWN"} /\ e.approval \notin DOMAIN c.approvals
        \/ Codes(c, e, ts) = {"FIELD_REQUIRED"} /\ e.approval = NoRef
  \/ /\ e.type = "approval_granted" /\ e.approval # NetworkApproval
     /\ e.role \in c.approvals[e.approval].roles
     /\ Codes(c, e, ts) = {"APPROVAL_ROLE_INVALID"}

Validates(c, e, ts) == Codes(c, e, ts) = {} \/ Excused(c, e, ts)

\* The decision core and the validator read the contract independently.  What the
\* core recorded for a decision is evidence the validator accepts, with exactly
\* the exceptions above.
DecisionsValidate ==
  \A i \in DOMAIN stream :
    stream[i].event.type \notin ObservationTypes =>
      Validates(contract, stream[i].event, stream[i].at)

\* A new decision at the instant of the observation would allow the call again.
StillAllowed(x) ==
  LET e == x.event
      request == IF e.type \in {"tool_invoked", "runtime_failed"}
                   THEN [kind |-> "capability", actor |-> e.actor, capability |-> e.capability]
                 ELSE IF e.type \in {"handoff_initiated", "handoff_completed"}
                   THEN [kind |-> "handoff", id |-> e.handoff]
                 ELSE [kind |-> "share", actor |-> e.actor, target |-> e.target,
                       source |-> e.source, zone |-> e.zone, categories |-> e.categories]
      decision == Evaluate(contract, request, x.at, contract.revision)
  IN  IF e.type = "trust_zone_crossed"
      THEN IdentityEffective(contract, e.actor, x.at)
      ELSE decision.effect = "ALLOW" /\ decision.delegation = e.delegation

\* An observation is stamped later than the decision it rests on.  The validator
\* rejects it only if the authority has lapsed in between, or where the two
\* readings of the contract differ: a crossing that no gate covers, an external
\* crossing under another approval than the network's, a share of nothing.
ObservationsValidate ==
  \A i \in DOMAIN stream :
    stream[i].event.type \in ObservationTypes /\ StillAllowed(stream[i]) =>
      Codes(contract, stream[i].event, stream[i].at) \subseteq
        CASE stream[i].event.type = "trust_zone_crossed" ->
               {"CROSSING_UNGOVERNED", "CROSSING_APPROVAL_MISSING"}
          [] stream[i].event.type = "data_shared" /\ stream[i].event.categories = {} ->
               {"FIELD_REQUIRED", "ZONE_UNKNOWN"}
          [] OTHER -> {}

\* The order of the evidence is the kernel's own doing: a stream breaks a transition
\* rule only by a completion nobody initiated, or by a capability whose standing
\* changed during the mission.
TransitionsValidate ==
  \A m \in Missions :
    LET s == Transitions(stream, m)
    IN  /\ Rules!Unopened(s, FALSE) =>
             \E i \in DOMAIN s : s[i].type = "handoff_completed"
                               /\ \A j \in 1..(i - 1) : s[j] # [s[i] EXCEPT !.type = "handoff_initiated"]
        /\ Rules!DecisionContradiction(s, FALSE) =>
             \E i, j \in DOMAIN stream :
               /\ stream[i].event.type = "capability_allowed"
               /\ stream[j].event.type = "capability_denied"
               /\ stream[i].at # stream[j].at

\* The kernel fails closed: nothing is ever added to a stream that does not validate,
\* no matter which calls are still waiting for their observation.
FailsClosed == [][StreamCodes(contract, stream) # {} => stream' = stream]_vars

\* No tool is observed that was not allowed as often before, nested calls included.
Count(s, types, actor, capability, mission) ==
  Cardinality({i \in DOMAIN s : /\ s[i].mission = mission /\ s[i].event.type \in types
                                /\ s[i].event.actor = actor
                                /\ s[i].event.capability = capability})
AllowedAsOften ==
  \A n \in DOMAIN stream :
    LET x == stream[n]
        s == SubSeq(stream, 1, n)
    IN  x.event.type \in {"tool_invoked", "runtime_failed"} =>
          Count(s, {"tool_invoked", "runtime_failed"}, x.event.actor, x.event.capability, x.mission)
            <= Count(s, {"capability_allowed"}, x.event.actor, x.event.capability, x.mission)

\* "Authorize once, execute once, then record success or runtime failure" (the
\* docstring of _execute_tool_callable): a run that a call made by the protected work
\* kept from being recorded never hides behind a stream that validates.
NoSilentRun ==
  StreamCodes(contract, stream) = {} =>
    ran = Cardinality({i \in DOMAIN stream :
                         stream[i].event.type \in {"tool_invoked", "runtime_failed"}})

\* "context.decision_at governs all temporal action semantics at evaluation: [...]
\* revocations" (ADR-0039): no capability is allowed in the actor's own right, and no
\* handoff (decided one step before it is observed), at an instant at which the
\* contract's revocation of it is effective.
NothingRevokedIsAllowed ==
  \A i \in DOMAIN stream :
    LET e == stream[i].event
    IN  /\ e.type = "capability_allowed" /\ e.delegation = NoRef =>
             ~RevokedAt(contract, AssignmentTarget("agent_identity", e.actor, e.capability),
                        stream[i].at)
        /\ e.type = "handoff_initiated" =>
             ~RevokedAt(contract, HandoffTarget(e.handoff), stream[i].at - Step)
=============================================================================
