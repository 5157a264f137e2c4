--------------------------- MODULE EventValidation ---------------------------
(***************************************************************************)
(* The per-mission scan of validate_runtime_events in agentic_evidence.py: *)
(* one pass over the events in sequence order, with the tables the code    *)
(* keeps.  The stream may end after any event.                             *)
(***************************************************************************)
EXTENDS OccurrenceRules

CONSTANTS
  NoOperation,     \* operation_by_occurrence has no entry
  Inputs,          \* the events a stream may hold
  MaxLength        \* bound on the events of a stream

ASSUME ValidationAssumption ==
  /\ NoOperation \notin Operations
  /\ Inputs \subseteq Event
  /\ MaxLength \in Nat

VARIABLES
  explicit,        \* explicit_occurrences
  stream,          \* the events scanned so far
  opened,          \* allowed_capabilities, requested_*, initiated_handoffs
  decisions,       \* decisions (absent is "none")
  operationOf,     \* operation_by_occurrence
  attempts,        \* attempts_by_occurrence
  lastAttempt,     \* last_attempt_by_occurrence (absent is 0)
  successes,       \* successful_attempts
  outcomes,        \* outcomes (absent is "none")
  diagnostics      \* the codes reported so far

vars == <<explicit, stream, opened, decisions, operationOf, attempts, lastAttempt,
          successes, outcomes, diagnostics>>

Attempts == 1..MaxAttempt
Scopes == {<<"legacy">>} \cup (Operations \X Occurrences \X Attempts)

Init ==
  /\ explicit \in BOOLEAN
  /\ stream = <<>>
  /\ opened = {}
  /\ decisions = [k \in Scopes \X Subjects |-> "none"]
  /\ operationOf = [o \in Occurrences |-> NoOperation]
  /\ attempts = [o \in Occurrences |-> {}]
  /\ lastAttempt = [o \in Occurrences |-> 0]
  /\ successes = [o \in Occurrences |-> {}]
  /\ outcomes = [k \in Occurrences \X Attempts |-> "none"]
  /\ diagnostics = {}

Key(e) == <<Scope(e, explicit), e.subject>>
Report(condition, code) == IF condition THEN {code} ELSE {}

-----------------------------------------------------------------------------
(* What one event adds to the tables, and what it is reported for.  The    *)
(* occurrence tables are kept for explicit streams only.                   *)

\* An occurrence keeps the operation it was first seen with.
OperationCodes(e) ==
  Report(explicit /\ operationOf[e.occurrence] \notin {NoOperation, e.operation},
         "OPERATION_MISMATCH")
TrackOperation(e) ==
  operationOf' = IF explicit /\ operationOf[e.occurrence] = NoOperation
                 THEN [operationOf EXCEPT ![e.occurrence] = e.operation]
                 ELSE operationOf

\* Mutant of AttemptCodes: attempts may decrease.
AttemptCodesUnordered(e) ==
  Report(explicit /\ (\E n \in successes[e.occurrence] : n < e.attempt), "ATTEMPT_AFTER_SUCCESS")
AttemptCodes(e) ==
  Report(explicit /\ e.attempt < lastAttempt[e.occurrence], "ATTEMPT_ORDER_INVALID")
    \cup Report(explicit /\ (\E n \in successes[e.occurrence] : n < e.attempt),
                "ATTEMPT_AFTER_SUCCESS")
TrackAttempt(e) ==
  IF explicit
  THEN /\ attempts' = [attempts EXCEPT ![e.occurrence] = @ \cup {e.attempt}]
       /\ lastAttempt' = [lastAttempt EXCEPT ![e.occurrence] = IF e.attempt > @ THEN e.attempt ELSE @]
  ELSE UNCHANGED <<attempts, lastAttempt>>

\* The last decision of a scope stands; the opposite one contradicts it.
Verdict == [capability_allowed |-> "allow", capability_denied |-> "deny"]
DecisionCodes(e) ==
  Report(e.type \in DOMAIN Verdict /\ decisions[Key(e)] \notin {"none", Verdict[e.type]},
         "DECISION_CONTRADICTION")
Decide(e) ==
  decisions' = IF e.type \in DOMAIN Verdict
               THEN [decisions EXCEPT ![Key(e)] = Verdict[e.type]]
               ELSE decisions

OpeningCodes(e) ==
  Report(e.type \in DOMAIN Opener /\ <<Opener[e.type], Key(e)>> \notin opened,
         "UNOPENED_TRANSITION")
Open(e) ==
  opened' = IF \E x \in DOMAIN Opener : Opener[x] = e.type
            THEN opened \cup {<<e.type, Key(e)>>}
            ELSE opened

\* The first terminal event of an attempt is its outcome.
OutcomeKey(e) == <<e.occurrence, e.attempt>>
OutcomeCodes(e) ==
  Report(/\ explicit
         /\ \/ e.type \in SuccessTerminals /\ outcomes[OutcomeKey(e)] # "none"
            \/ e.type \in FailureTerminals /\ outcomes[OutcomeKey(e)] = "success",
         "OUTCOME_CONTRADICTION")
\* Mutant of RecordOutcome: a contradicted success closes the occurrence.
RecordEverySuccess(e) ==
  /\ outcomes' = IF explicit /\ e.type \in Terminals
                 THEN [outcomes EXCEPT ![OutcomeKey(e)] =
                         IF e.type \in SuccessTerminals THEN "success" ELSE "failure"]
                 ELSE outcomes
  /\ successes' = IF explicit /\ e.type \in SuccessTerminals
                  THEN [successes EXCEPT ![e.occurrence] = @ \cup {e.attempt}]
                  ELSE successes

RecordOutcome(e) ==
  IF explicit /\ e.type \in Terminals /\ outcomes[OutcomeKey(e)] = "none"
  THEN /\ outcomes' = [outcomes EXCEPT ![OutcomeKey(e)] =
                         IF e.type \in SuccessTerminals THEN "success" ELSE "failure"]
       /\ successes' = IF e.type \in SuccessTerminals
                       THEN [successes EXCEPT ![e.occurrence] = @ \cup {e.attempt}]
                       ELSE successes
  ELSE UNCHANGED <<outcomes, successes>>

Codes(e) ==
  OperationCodes(e) \cup AttemptCodes(e) \cup DecisionCodes(e)
    \cup OpeningCodes(e) \cup OutcomeCodes(e)

Scan(e) ==
  /\ stream' = Append(stream, e)
  /\ diagnostics' = diagnostics \cup Codes(e)
  /\ TrackOperation(e) /\ TrackAttempt(e) /\ Decide(e) /\ Open(e) /\ RecordOutcome(e)
  /\ UNCHANGED explicit

\* After the loop: the attempts of an occurrence are 1..n.
GapCodes ==
  Report(explicit /\ \E o \in Occurrences : \E n \in attempts[o] : ~(1..n \subseteq attempts[o]),
         "ATTEMPT_GAP")

\* The diagnostics if the stream ends here; "pass" is the empty set.
Result == diagnostics \cup GapCodes

Next == Len(stream) < MaxLength /\ \E e \in Inputs : Scan(e)
Spec == Init /\ [][Next]_vars

-----------------------------------------------------------------------------
(* Properties.                                                             *)

\* The one-pass scan with its tables finds exactly the diagnostics that the rules,
\* stated over all pairs of events, assign to the stream: none missed, none made up.
ScanIsExact == Result = Diagnostics(stream, explicit)

\* "An incomplete attempt is a valid resumable prefix" (ADR-0042): no event makes
\* an invalid stream valid, so every prefix of a valid stream is valid and can be
\* resumed.  A gap in the attempts is no exception: filling it is out of order.
PrefixesStayValid == [][Result # {} => Result' # {}]_vars
=============================================================================
