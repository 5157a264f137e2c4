--------------------------- MODULE OccurrenceRules ---------------------------
(***************************************************************************)
(* The transition rules of one mission's evidence (ADR-0042), stated over  *)
(* the whole stream: which pairs of events contradict one another.  The    *)
(* validator decides them in a single scan (EventValidation); the adapters *)
(* must produce streams that keep them (LangGraphAdapter).                 *)
(***************************************************************************)
EXTENDS Integers, Sequences

CONSTANTS
  Operations,      \* operation_id values
  Occurrences,     \* occurrence_id values
  MaxAttempt,      \* the schema's upper bound of "attempt"
  Subjects         \* (actor, capability), delegation_ref, handoff_ref or approval_ref

ASSUME OccurrenceAssumption == MaxAttempt \in Nat \ {0}

SuccessTerminals == {"agent_invoked", "tool_invoked", "handoff_completed",
                     "trust_zone_crossed", "data_shared", "identity_revoked"}
FailureTerminals == {"capability_denied", "delegation_rejected", "approval_rejected",
                     "policy_violation", "runtime_failed"}
Terminals == SuccessTerminals \cup FailureTerminals

\* The transitions that need an earlier event of the same scope and subject,
\* and the event that opens them.
Opener == [tool_invoked        |-> "capability_allowed",
           delegation_accepted |-> "delegation_requested",
           delegation_rejected |-> "delegation_requested",
           handoff_completed   |-> "handoff_initiated",
           approval_granted    |-> "approval_requested",
           approval_rejected   |-> "approval_requested"]

EventTypes == Terminals \cup DOMAIN Opener \cup {Opener[x] : x \in DOMAIN Opener}
                \cup {"capability_requested"}

Event == [type: EventTypes, operation: Operations, occurrence: Occurrences,
          attempt: 1..MaxAttempt, subject: Subjects]

\* The execution scope of authorization state: the attempt, or the whole mission
\* of a legacy stream.
Scope(e, explicit) ==
  IF explicit THEN <<e.operation, e.occurrence, e.attempt>> ELSE <<"legacy">>

SameScope(e, f, explicit) == Scope(e, explicit) = Scope(f, explicit) /\ e.subject = f.subject
SameAttempt(e, f) == e.occurrence = f.occurrence /\ e.attempt = f.attempt

-----------------------------------------------------------------------------
(* One operator per diagnostic of the scan, named for it.                  *)

OperationMismatch(s) ==
  \E i, j \in DOMAIN s :
    s[i].occurrence = s[j].occurrence /\ s[i].operation # s[j].operation

AttemptOrderInvalid(s) ==
  \E j \in DOMAIN s : \E i \in 1..(j - 1) :
    s[i].occurrence = s[j].occurrence /\ s[j].attempt < s[i].attempt

AttemptGap(s) ==
  \E i \in DOMAIN s : \E k \in 1..s[i].attempt :
    ~ \E j \in DOMAIN s : s[j].occurrence = s[i].occurrence /\ s[j].attempt = k

\* A success counts as the attempt's outcome only when it is its first terminal.
Succeeds(s, i) ==
  /\ s[i].type \in SuccessTerminals
  /\ \A h \in 1..(i - 1) : SameAttempt(s[h], s[i]) => s[h].type \notin Terminals

AttemptAfterSuccess(s) ==
  \E j \in DOMAIN s : \E i \in 1..(j - 1) :
    /\ Succeeds(s, i)
    /\ s[i].occurrence = s[j].occurrence /\ s[i].attempt < s[j].attempt

\* An attempt fails as often as it likes, or succeeds once and does nothing else.
OutcomeContradiction(s) ==
  \E j \in DOMAIN s : \E i \in 1..(j - 1) :
    /\ SameAttempt(s[i], s[j])
    /\ {s[i].type, s[j].type} \subseteq Terminals
    /\ {s[i].type, s[j].type} \cap SuccessTerminals # {}

DecisionContradiction(s, explicit) ==
  \E i, j \in DOMAIN s :
    /\ s[i].type = "capability_allowed" /\ s[j].type = "capability_denied"
    /\ SameScope(s[i], s[j], explicit)

\* AN_EVT_TOOL_WITHOUT_ALLOWANCE, AN_EVT_ACCEPTANCE_WITHOUT_REQUEST,
\* AN_EVT_COMPLETION_WITHOUT_INITIATION and AN_EVT_GRANT_WITHOUT_REQUEST.
Unopened(s, explicit) ==
  \E j \in DOMAIN s :
    /\ s[j].type \in DOMAIN Opener
    /\ \A i \in 1..(j - 1) :
         s[i].type = Opener[s[j].type] => ~SameScope(s[i], s[j], explicit)

\* AN_EVT_REPLAY in an explicit stream: id, sequence and timestamp do not count.
Replays(s) == \E i, j \in DOMAIN s : i # j /\ s[i] = s[j]

Diagnostics(s, explicit) ==
  (IF explicit /\ OperationMismatch(s) THEN {"OPERATION_MISMATCH"} ELSE {})
    \cup (IF explicit /\ AttemptOrderInvalid(s) THEN {"ATTEMPT_ORDER_INVALID"} ELSE {})
    \cup (IF explicit /\ AttemptGap(s) THEN {"ATTEMPT_GAP"} ELSE {})
    \cup (IF explicit /\ AttemptAfterSuccess(s) THEN {"ATTEMPT_AFTER_SUCCESS"} ELSE {})
    \cup (IF explicit /\ OutcomeContradiction(s) THEN {"OUTCOME_CONTRADICTION"} ELSE {})
    \cup (IF DecisionContradiction(s, explicit) THEN {"DECISION_CONTRADICTION"} ELSE {})
    \cup (IF Unopened(s, explicit) THEN {"UNOPENED_TRANSITION"} ELSE {})
=============================================================================
