----------------------------- MODULE ChangeGovernance -----------------------------
(***************************************************************************)
(* evidence_integrity.v1, human_approval.v1, separation_of_duties.v1 and   *)
(* change_control.v1: which evidence counts and who produced it, and who   *)
(* may release a governed change on it.                                    *)
(*                                                                         *)
(* An evidence record is [id, type, status, revision, artifact, hash,      *)
(* generated, expires, deps, producer].  A list that is absent is << >>;   *)
(* an element or a value that is not a canonical string is IllTyped.  An   *)
(* actor is [prefix, name], "human:ann" or, without a prefix, "ann".       *)
(*                                                                         *)
(* A document has evidence ([revision, records] or None), architecture     *)
(* (the revision its architecture declares), approvals, duties (None or a  *)
(* sequence of assignments), exceptions and changes (None or sequences).   *)
(* An approval is [form, source]: a declaration ("source"), a saved        *)
(* normalisation ("normalized") or a saved composition ("effective").      *)
(* Names of actions are strings.                                           *)
(***************************************************************************)
EXTENDS GovernanceApproval

CONSTANTS
  CaseFold(_),   \* str.casefold of a name
  Unprefixed(_), \* a producer's id without a leading "human."
  BadTime,       \* a string that is no timestamp
  HighImpact     \* HIGH_IMPACT_ACTIONS

When(condition, code) == IF condition THEN {code} ELSE {}

\* A step on sets, taken n times: the worklists of the code, by rounds.
Rounds(step, start, n) ==
  LET after[k \in 0..n] == IF k = 0 THEN start ELSE step[after[k - 1]]
  IN after[n]

(***************************************************************************)
(* Identities.                                                             *)
(***************************************************************************)
Actor(prefix, name) == [prefix |-> prefix, name |-> name]
Plain(name) == Actor(None, name)
HumanPrefixes == {"human", "person", "user"}

\* _human_actor_role: the role a person is named by, or None.
IsActor(value) == value \notin {None, IllTyped}
IsHuman(actor) == IsActor(actor) /\ actor \notin NonHuman /\ actor.prefix \in HumanPrefixes \cup {None}
HumanRole(actor) == IF IsHuman(actor) THEN Plain(actor.name) ELSE None

\* _actor_equivalence_key: the spellings of one person have one key.
ActorKey(actor) ==
  IF ~ IsActor(actor) THEN None
  ELSE IF IsHuman(actor) THEN <<"human_role", None, CaseFold(actor.name)>>
  ELSE <<"actor", actor.prefix, CaseFold(actor.name)>>
Keys(actors) == {ActorKey(a) : a \in {b \in actors : IsActor(b)}}
SameActor(a, b) == IsActor(a) /\ ActorKey(a) = ActorKey(b)

\* _producer_actor_aliases: under which names the producer of a record acts.
Aliases(record) ==
  LET p == record.producer
  IN IF p = IllTyped THEN {}
     ELSE {Plain(p.id), Actor(p.type, p.id)}
          \cup (IF p.type = "human" THEN {Actor("user", Unprefixed(p.id))} ELSE {})
          \cup (IF p.type = "tool" /\ p.tool # None THEN {Plain(p.tool), Actor("tool", p.tool)} ELSE {})

(***************************************************************************)
(* Records that count.                                                     *)
(***************************************************************************)
\* _strict_source_strings: the list's values are Canonical(list); is it a clean list?
Invalid(list) == IllTyped \in Elements(list) \/ Repeats(list)

Records(document) == IF document.evidence = None THEN << >> ELSE document.evidence.records
UniqueRecords(records) ==
  {records[i] : i \in {j \in DOMAIN records :
     records[j].id # IllTyped /\ \A k \in DOMAIN records : records[k].id = records[j].id => k = j}}

\* Passing records whose dependencies are records of unique identity.
PassingRecords(unique) ==
  {r \in unique : r.status = "pass" /\ ~ Invalid(r.deps) /\ Elements(r.deps) \subseteq {u.id : u \in unique}}

\* Those that rest on passing records alone: the queue of _usable_evidence_records.
Settled(passing) ==
  LET next == [T \in SUBSET passing |-> {r \in passing : Elements(r.deps) \subseteq {s.id : s \in T}}]
  IN Rounds(next, {}, Cardinality(passing))

UsableRecords(document) == Settled(PassingRecords(UniqueRecords(Records(document))))

\* _evidence_references: the names under which usable evidence can be required.
References(usable) == (UNION {{r.id, r.type} : r \in usable}) \ {IllTyped}

\* _evidence_component_resolver: everything connected to the records that are referred to.
Linked(r, s) == r.id \in Elements(s.deps) \/ s.id \in Elements(r.deps)
Referred(records, references) == {r \in records : {r.id, r.type} \cap references # {}}
Component(usable, references) ==
  LET next == [T \in SUBSET usable |-> T \cup {r \in usable : \E s \in T : Linked(r, s)}]
  IN IF references = {} THEN usable ELSE Rounds(next, Referred(usable, references), Cardinality(usable))

(***************************************************************************)
(* evidence_integrity.v1.  asOf is None where no validation time is given; *)
(* disk is None where there is no document root.                           *)
(***************************************************************************)
IsTime(value) == value \notin {None, IllTyped}

ArtifactFindings(r, disk) ==
  When({r.artifact, r.hash} \cap {None, IllTyped} # {}, "EVIDENCE_SOURCE_VALUE_INVALID")
  \cup IF disk = None THEN {"EVIDENCE_ARTIFACT_ROOT_REQUIRED"}
       ELSE IF r.artifact \notin DOMAIN disk THEN {"EVIDENCE_ARTIFACT_UNAVAILABLE"}
       ELSE When(disk[r.artifact] # r.hash, "EVIDENCE_ARTIFACT_HASH_MISMATCH")

FreshnessFindings(r, asOf) ==
  IF asOf = None THEN {"GOVERNANCE_TIME_REQUIRED"}
  ELSE IF ~ IsTime(r.generated) \/ ~ IsTime(r.expires) THEN {"EVIDENCE_TIME_INVALID"}
  ELSE When(r.generated > asOf, "EVIDENCE_GENERATED_IN_FUTURE")
       \cup When(r.generated >= r.expires \/ r.expires <= asOf, "EVIDENCE_STALE")

\* The first record of each identity stands for it here.
FirstRecords(records) ==
  {records[i] : i \in {j \in DOMAIN records :
     records[j].id # IllTyped /\ \A k \in 1..(j - 1) : records[k].id # records[j].id}}

Cyclic(first) ==
  LET left == [T \in SUBSET first |-> {r \in T : Canonical(r.deps) \cap {s.id : s \in T} # {}}]
  IN Rounds(left, first, Cardinality(first)) # {}

DependencyFindings(first) ==
  When(\E r \in first : Invalid(r.deps) \/ \E d \in Canonical(r.deps) : d = r.id \/ d \notin {s.id : s \in first},
       "EVIDENCE_DEPENDENCY_INVALID")
  \cup When(\E r, s \in first : r # s /\ s.id \in Canonical(r.deps) /\ r.status = "pass" /\ s.status # "pass",
            "EVIDENCE_DEPENDENCY_UNSATISFIED")
  \cup When(Cyclic(first), "EVIDENCE_DEPENDENCY_CYCLE")

\* required: what the selected modules demand, a set of [id, type].
EvidenceIntegrity(document, required, usable, asOf, disk) ==
  LET records == document.evidence.records
  IN IF document.evidence = None THEN {}
     ELSE (UNION {ArtifactFindings(records[i], disk) \cup FreshnessFindings(records[i], asOf) : i \in DOMAIN records})
          \cup When(\E i \in DOMAIN records : records[i].id = IllTyped, "EVIDENCE_ID_INVALID")
          \cup When(\E i, j \in DOMAIN records : i # j /\ records[i].id = records[j].id /\ records[i].id # IllTyped,
                    "EVIDENCE_DUPLICATE_ID")
          \cup When(\E i \in DOMAIN records : records[i].revision # document.evidence.revision,
                    "EVIDENCE_REVISION_MISMATCH")
          \cup When(\E i, j \in DOMAIN records :
                      /\ records[i].artifact = records[j].artifact /\ records[i].hash # records[j].hash
                      /\ IllTyped \notin {records[i].artifact, records[i].hash, records[j].hash},
                    "EVIDENCE_HASH_SUBSTITUTION")
          \cup DependencyFindings(FirstRecords(records))
          \cup When(\E r \in required : {r.id, r.type} \cap References(usable) = {}, "EVIDENCE_REQUIRED_MISSING")

ChangeAction(id) == "change:" \o id
Items(sequence) == IF sequence = None THEN {} ELSE Elements(sequence)

(***************************************************************************)
(* Approvals of the document.                                              *)
(***************************************************************************)
\* _normalize_document_approval; a saved composition is never accepted here.
DocumentApproval(value, i) ==
  CASE value.form = "source" ->
         NormalizeApproval(value.source,
           IF value.source.id # None /\ (value.source.evidence # << >> \/ value.source.eligible # << >>)
           THEN "governed_package_gate" ELSE "ordinary_approval",
           <<"approvals", i>>)
    [] value.form = "normalized" /\ TrustedNormalized(value.source) /\ value.source.path = <<"approvals", i>> ->
         value.source
    [] OTHER -> None

\* The approvals a check may rely on; their paths keep the order of the document.
Gates(document) ==
  {a \in {DocumentApproval(document.approvals[i], i) : i \in DOMAIN document.approvals} :
     a # None /\ a.resolution = "complete"}

Denials(gate) == gate.deniedActors \cup gate.deniedSurfaces
AllOf(gates, field) == UNION {g[field] : g \in gates}

\* Several gates over one action hold together.
GatesAllow(gates, roles) ==
  LET eligible == {r \in AllOf(gates, "eligible") : \A g \in gates : r \in g.eligible}
  IN /\ eligible # {} /\ roles \subseteq eligible
     /\ AllOf(gates, "required") \subseteq roles
     /\ \A g \in gates : roles \cap Denials(g) = {}

(***************************************************************************)
(* human_approval.v1                                                       *)
(***************************************************************************)
\* _governed_subject_revision
Anchored(document) ==
  {IF document.evidence = None THEN None ELSE document.evidence.revision, document.architecture} \ {None}
Anchors(document) == Anchored(document) \ {IllTyped}
GovernedRevision(document) ==
  IF Cardinality(Anchors(document)) = 1 THEN CHOOSE r \in Anchors(document) : TRUE ELSE None
RevisionClaims(document) ==
  {r.revision : r \in Elements(Records(document))}
  \cup {c.binding.revision : c \in {x \in Items(document.changes) : x.binding # None}}

RevisionFindings(document) ==
  When(IllTyped \in Anchored(document), "APPROVAL_GOVERNED_REVISION_INVALID")
  \cup When(Anchors(document) = {}, "APPROVAL_GOVERNED_REVISION_MISSING")
  \cup When(Cardinality(Anchors(document)) > 1, "APPROVAL_GOVERNED_REVISION_CONFLICT")
  \cup When(GovernedRevision(document) # None /\ \E r \in RevisionClaims(document) : r # GovernedRevision(document),
            "APPROVAL_GOVERNED_REVISION_CONFLICT")

GateFindings(gate, revision, available, asOf) ==
  When(gate.required = {} \/ gate.eligible = {}, "APPROVAL_HUMAN_ROLE_REQUIRED")
  \cup When(~ (CoreDenied \subseteq Denials(gate)), "APPROVAL_CORE_DENIAL_MISSING")
  \cup When(gate.actions = {} \/ gate.evidence = {}, "APPROVAL_SCOPE_OR_EVIDENCE_MISSING")
  \cup When(~ (gate.evidence \subseteq available), "APPROVAL_EVIDENCE_MISSING")
  \cup When(gate.authority = None, "APPROVAL_AUTHORITY_MISSING")
  \cup (IF gate.revision = None \/ ~ gate.revision.exact THEN {"APPROVAL_REVISION_BINDING_REQUIRED"}
        ELSE When(revision # None /\ gate.revision.revision # revision, "APPROVAL_REVISION_MISMATCH"))
  \cup When(gate.invalidation = {}, "APPROVAL_INVALIDATION_REQUIRED")
  \cup When(gate.actions \cap HighImpact # {} /\ gate.expiresAt = None, "APPROVAL_EXPIRY_REQUIRED")
  \cup (IF gate.expiresAt = None THEN {}
        ELSE IF asOf = None THEN {"GOVERNANCE_TIME_REQUIRED"}
        ELSE IF gate.expiresAt = BadTime THEN {"APPROVAL_EXPIRY_INVALID"}
        ELSE When(gate.expiresAt <= asOf, "APPROVAL_EXPIRED"))

HumanApproval(document, gates, available, asOf) ==
  IF document.approvals = << >> THEN {"APPROVAL_DECLARATION_REQUIRED"}
  ELSE RevisionFindings(document)
       \cup When(Cardinality(gates) # Len(document.approvals), "APPROVAL_DECLARATION_INVALID")
       \cup UNION {GateFindings(g, GovernedRevision(document), available, asOf) : g \in gates}

(***************************************************************************)
(* separation_of_duties.v1                                                 *)
(***************************************************************************)
Subjects(change) == IF change.id = IllTyped THEN {} ELSE {change.id, ChangeAction(change.id)}
Resolved(document, assignment) ==
  {i \in DOMAIN document.changes : assignment.subject \in Subjects(document.changes[i])}

\* The gates over a change, by their identity or by the action they govern.
GatesOver(change, gates) ==
  {g \in gates : g.id \in Canonical(change.approvals) \/ g.actions \cap Subjects(change) # {}}

Roles(actors) == {HumanRole(a) : a \in actors} \ {None}

ConflictOfInterest(requester, approver, code) ==
  When(approver # None /\ HumanRole(approver) = None, "SOD_NON_HUMAN_APPROVER")
  \cup When(SameActor(requester, approver), code)

\* What is wrong with an assignment whatever its change says.
AssignmentFindings(a) ==
  LET approvers == Canonical(a.approvers)
      producers == Canonical(a.producers)
  IN When(a.subject = IllTyped, "SOD_SUBJECT_INVALID")
     \cup When(HumanRole(a.author) = None, "SOD_AUTHOR_INVALID")
     \cup When(a.approvers = << >>, "SOD_APPROVER_REQUIRED")
     \cup When(Invalid(a.approvers) \/ \E x, y \in approvers : x # y /\ HumanRole(x) # None /\ ActorKey(x) = ActorKey(y),
               "SOD_APPROVER_INVALID")
     \cup When(\E x \in approvers : HumanRole(x) = None, "SOD_NON_HUMAN_APPROVER")
     \cup When(a.tier \in {"high", "critical"} /\ ActorKey(a.author) \in Keys(approvers), "SOD_SELF_APPROVAL")
     \cup When(Invalid(a.producers), "SOD_EVIDENCE_PRODUCER_INVALID")
     \cup When(a.independent /\ producers = {}, "SOD_EVIDENCE_PRODUCER_REQUIRED")
     \cup When(a.independent /\ Keys(approvers) \cap Keys(producers) # {}, "SOD_EVIDENCE_PRODUCER_SOLE_APPROVER")
     \cup ConflictOfInterest(a.releaseRequester, a.releaseApprover, "SOD_RELEASE_AUTHORITY_CONFLICT")
     \cup ConflictOfInterest(a.exceptionRequester, a.exceptionApprover, "SOD_EXCEPTION_AUTHORITY_CONFLICT")

\* The evidence a change refers to, and what its gates do.
ChangeReferences(change) ==
  Canonical(change.required) \cup Canonical(change.closure)
    \cup (IF change.transition = None THEN {} ELSE Canonical(change.transition.evidence))

\* The record of an approval is not evidence its approver must be independent of.
OnlyApprovesFor(record, change, gates) ==
  /\ record.type = "approval_record" /\ record.id \in AllOf(gates, "evidence")
  /\ {record.id, record.type} \cap ChangeReferences(change) = {}

\* Mutant of ProducersOf: only the records referred to, not what they rest on.
DirectProducersOf(change, gates, usable) ==
  UNION {Aliases(r) : r \in Referred(usable, ChangeReferences(change))}

\* Those who made evidence connected with the change.
ProducersOf(change, gates, usable) ==
  UNION {Aliases(r) : r \in {x \in Component(usable, ChangeReferences(change) \cup AllOf(gates, "evidence")) :
                               ~ OnlyApprovesFor(x, change, gates)}}

DutyFindings(a, change, gates, over, usable) ==
  LET roles == Roles(Canonical(a.approvers))
      duty(field) == IF change.duty = None THEN None ELSE HumanRole(change.duty[field])
      known == UNION {Aliases(r) : r \in Component(usable, ChangeReferences(change) \cup AllOf(over, "evidence"))}
  IN When(a.tier # change.tier, "SOD_RISK_TIER_MISMATCH")
     \cup When(HumanRole(a.author) = None \/ HumanRole(a.author) # duty("author"), "SOD_AUTHOR_ROLE_MISMATCH")
     \cup When(Invalid(change.roles) \/ roles # Roles(Canonical(change.roles)) \/ duty("approver") \notin roles,
               "SOD_APPROVER_ROLE_MISMATCH")
     \cup When(\/ Invalid(change.approvals) \/ over = {} \/ ~ GatesAllow(over, roles)
               \/ \E id \in Canonical(change.approvals) : Cardinality({g \in gates : g.id = id}) # 1,
               "SOD_APPROVAL_GATE_MISMATCH")
     \cup When(~ (Canonical(a.producers) \subseteq known), "SOD_EVIDENCE_PRODUCER_UNKNOWN")
     \cup When(a.independent /\ Keys(Canonical(a.approvers)) \cap Keys(ProducersOf(change, over, usable)) # {},
               "SOD_EVIDENCE_PRODUCER_SOLE_APPROVER")

SubjectFindings(document, i, gates, usable) ==
  LET a == document.duties[i]
      matching == Resolved(document, a)
  IN IF a.subject = IllTyped THEN {}
     ELSE IF document.changes = None THEN {"SOD_SUBJECT_UNKNOWN"}
     ELSE IF Cardinality(matching) # 1 THEN {"SOD_SUBJECT_UNKNOWN"}
     ELSE When(\E j \in 1..(i - 1) : document.duties[j].subject # IllTyped /\ Resolved(document, document.duties[j]) = matching,
               "SOD_DUPLICATE_SUBJECT")
          \cup UNION {DutyFindings(a, document.changes[k], gates, GatesOver(document.changes[k], gates), usable) : k \in matching}

SeparationOfDuties(document, gates, usable) ==
  IF document.duties = None THEN {}
  ELSE IF document.duties = << >> THEN {"SOD_ASSIGNMENT_REQUIRED"}
  ELSE UNION {AssignmentFindings(document.duties[i]) \cup SubjectFindings(document, i, gates, usable) :
                i \in DOMAIN document.duties}

(***************************************************************************)
(* change_control.v1                                                       *)
(***************************************************************************)
\* CHANGE_TRANSITIONS
Transitions ==
  {<<"draft", "proposed">>, <<"draft", "cancelled">>, <<"proposed", "approved">>, <<"proposed", "rejected">>,
   <<"proposed", "cancelled">>, <<"approved", "in_progress">>, <<"approved", "cancelled">>,
   <<"in_progress", "completed">>, <<"in_progress", "rolled_back">>, <<"in_progress", "cancelled">>,
   <<"completed", "closed">>, <<"completed", "rolled_back">>, <<"rolled_back", "closed">>,
   <<"rejected", "closed">>, <<"cancelled", "closed">>}

HighRisk(change) == change.tier \in {"high", "critical"}

\* change_scope_hash: equal for equal scopes, whatever their order.
ScopeHash(change) == <<Elements(change.scope), Elements(change.excluded)>>

Available(list, available) == Canonical(list) # {} /\ Canonical(list) \subseteq available

TransitionFindings(change, available) ==
  IF change.transition = None THEN When(change.status \notin {None, "draft"}, "CHANGE_TRANSITION_EVIDENCE_MISSING")
  ELSE When(change.transition.to # change.status \/ <<change.transition.from, change.transition.to>> \notin Transitions,
            "CHANGE_LIFECYCLE_TRANSITION_INVALID")
       \cup When(~ Available(change.transition.evidence, available), "CHANGE_TRANSITION_EVIDENCE_MISSING")

RolesAuthorized(change, gate) ==
  LET roles == Canonical(change.roles)
  IN /\ roles # {} /\ ~ Invalid(change.roles) /\ roles \cap NonHuman = {}
     /\ roles \subseteq gate.eligible /\ gate.required \subseteq roles /\ roles \cap Denials(gate) = {}

\* The approval is for this revision and for this scope.
BoundTo(gate, change) ==
  gate.revision # None /\ gate.revision.revision = change.binding.revision /\ gate.revision.scope = ScopeHash(change)

\* The first candidate that authorises the roles and is bound to the change.
Earlier(g, h) == g.path[2] < h.path[2]
MatchingGates(change, gates) ==
  LET fitting == {g \in gates : RolesAuthorized(change, g) /\ BoundTo(g, change)}
  IN {g \in fitting : \A h \in fitting : ~ Earlier(h, g)}

ApprovalFindings(change, over) ==
  LET authorised == {g \in over : RolesAuthorized(change, g)}
      unbound == {g \in authorised : g.revision = None}
      elsewhere == {g \in authorised \ unbound : g.revision.revision # change.binding.revision}
  IN IF over = {} THEN {"CHANGE_APPROVAL_MISSING"}
     ELSE IF MatchingGates(change, over) # {} THEN {}
     ELSE When(unbound \cup elsewhere # {}, "APPROVAL_STALE_FOR_REVISION")
          \cup When(authorised # elsewhere, "APPROVAL_STALE_FOR_SCOPE")
          \cup When(authorised = {}, "CHANGE_APPROVER_ROLE_UNAUTHORIZED")

HighRiskFindings(change, document, over) ==
  When(Invalid(change.roles), "CHANGE_APPROVER_ROLE_INVALID")
  \cup When(Canonical(change.roles) \cap NonHuman # {}, "CHANGE_NON_HUMAN_APPROVER")
  \cup When(Canonical(change.roles) = {} \/ Canonical(change.required) = {}, "CHANGE_HIGH_RISK_GATES_MISSING")
  \cup When(~ \E a \in Items(document.duties) : a.subject \in Subjects(change), "CHANGE_SOD_ASSIGNMENT_MISSING")
  \cup When(~ ({"revision_change", "scope_change"} \subseteq change.invalidated), "CHANGE_APPROVAL_INVALIDATION_MISSING")
  \cup IF change.binding = None THEN {"CHANGE_REVISION_BINDING_REQUIRED"} ELSE ApprovalFindings(change, over)

IrreversibleFindings(change, over) ==
  When(change.authority \in NonHuman, "CHANGE_NON_HUMAN_AUTHORITY")
  \cup When(change.authority \notin Canonical(change.roles), "CHANGE_IRREVERSIBLE_AUTHORITY_MISSING")
  \cup When(/\ change.authority \in Canonical(change.roles) \ NonHuman /\ HighRisk(change)
            /\ change.binding = None \/ ~ \E g \in MatchingGates(change, over) : change.authority \in g.eligible \ Denials(g),
            "CHANGE_IRREVERSIBLE_AUTHORITY_UNAUTHORIZED")
  \cup When(~ change.rollback, "CHANGE_ROLLBACK_REQUIRED")

ChangeFindings(change, document, over, available) ==
  TransitionFindings(change, available)
  \cup When(~ (Canonical(change.required) \subseteq available), "CHANGE_EVIDENCE_MISSING")
  \cup When(~ (Canonical(change.exceptions) \subseteq {e.id : e \in Items(document.exceptions)}), "CHANGE_EXCEPTION_UNKNOWN")
  \cup When(change.tier \notin {"low", "medium", "high", "critical"}, "CHANGE_RISK_TIER_INVALID")
  \cup (IF HighRisk(change) THEN HighRiskFindings(change, document, over) ELSE {})
  \cup When(change.binding # None /\ change.binding.scope # ScopeHash(change), "CHANGE_SCOPE_HASH_MISMATCH")
  \cup (IF change.irreversible THEN IrreversibleFindings(change, over) ELSE {})
  \cup When(change.rollback /\ change.plan = None, "CHANGE_ROLLBACK_ARTIFACT_MISSING")
  \cup When(change.impact \notin {None, "none", "minor", "major", "critical"}, "CHANGE_ARCHITECTURE_IMPACT_INVALID")
  \cup When(change.impact \in {"major", "critical"} /\ "architecture_decision_record" \notin Canonical(change.required),
            "CHANGE_ARCHITECTURE_EVIDENCE_MISSING")
  \cup (IF change.status = "closed"
        THEN When(Invalid(change.closure), "CHANGE_CLOSURE_EVIDENCE_INVALID")
             \cup When(~ Available(change.closure, available), "CHANGE_CLOSURE_EVIDENCE_MISSING")
        ELSE {})

ChangeControl(document, gates, available) ==
  (UNION {ChangeFindings(c, document, GatesOver(c, gates), available) : c \in Items(document.changes)})
  \cup When(\E c \in Items(document.changes) : c.id = IllTyped, "CHANGE_ID_INVALID")
  \cup When(document.changes # None
              /\ \E i, j \in DOMAIN document.changes : i < j /\ document.changes[i].id = document.changes[j].id,
            "CHANGE_DUPLICATE_ID")
===============================================================================
