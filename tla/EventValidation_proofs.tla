------------------------- MODULE EventValidation_proofs -------------------------
(***************************************************************************)
(* The single scan of the validator decides the rules, for streams of any  *)
(* length over any operations, occurrences, attempts and subjects.         *)
(***************************************************************************)
EXTENDS EventValidation, OccurrenceRules_proofs

(***************************************************************************)
(* The inductive invariant: what each table says of the events scanned.    *)
(***************************************************************************)
TablesType ==
  /\ explicit \in BOOLEAN /\ stream \in Seq(Event)
  /\ DOMAIN decisions = Scopes \X Subjects
  /\ DOMAIN operationOf = Occurrences /\ DOMAIN attempts = Occurrences
  /\ DOMAIN lastAttempt = Occurrences /\ DOMAIN successes = Occurrences
  /\ DOMAIN outcomes = Occurrences \X Attempts

\* operation_by_occurrence: the operation of some event, for an occurrence that has one.
OperationInv ==
  explicit => \A o \in Occurrences :
    IF operationOf[o] = NoOperation THEN \A i \in DOMAIN stream : stream[i].occurrence # o
    ELSE \E i \in DOMAIN stream : stream[i].occurrence = o /\ stream[i].operation = operationOf[o]

\* attempts_by_occurrence and last_attempt_by_occurrence: the attempts and the highest of them.
AttemptInv ==
  explicit => \A o \in Occurrences :
    /\ attempts[o] = AttemptsOf(stream, o)
    /\ lastAttempt[o] \in Nat
    /\ \A n \in AttemptsOf(stream, o) : n <= lastAttempt[o]
    /\ lastAttempt[o] = 0 \/ lastAttempt[o] \in AttemptsOf(stream, o)

\* successful_attempts
SuccessInv ==
  explicit => \A o \in Occurrences :
    /\ \A i \in DOMAIN stream : stream[i].occurrence = o /\ Succeeds(stream, i) => stream[i].attempt \in successes[o]
    /\ \A n \in successes[o] :
         \E i \in DOMAIN stream : stream[i].occurrence = o /\ Succeeds(stream, i) /\ stream[i].attempt = n

\* outcomes: the first terminal event of each attempt.
TerminalIn(o, n) ==
  \E i \in DOMAIN stream : stream[i].occurrence = o /\ stream[i].attempt = n /\ stream[i].type \in Terminals
SuccessIn(o, n) ==
  \E i \in DOMAIN stream : stream[i].occurrence = o /\ stream[i].attempt = n /\ Succeeds(stream, i)
OutcomeInv ==
  explicit => \A o \in Occurrences : \A n \in Attempts :
    /\ outcomes[<<o, n>>] = "none" <=> ~ TerminalIn(o, n)
    /\ outcomes[<<o, n>>] = "success" <=> SuccessIn(o, n)

\* decisions: the type of some decision, for a key that has one.
Decides(e, v, k) == e.type \in DOMAIN Verdict /\ Verdict[e.type] = v /\ Key(e) = k
DecisionInv ==
  \A k \in Scopes \X Subjects :
    IF decisions[k] = "none" THEN \A i \in DOMAIN stream : stream[i].type \in DOMAIN Verdict => Key(stream[i]) # k
    ELSE \E i \in DOMAIN stream : Decides(stream[i], decisions[k], k)

\* allowed_capabilities, requested_*, initiated_handoffs: the openers and their keys.
Opens(e) == \E x \in DOMAIN Opener : Opener[x] = e.type
OpenedInv ==
  /\ \A i \in DOMAIN stream : Opens(stream[i]) => <<stream[i].type, Key(stream[i])>> \in opened
  /\ \A p \in opened : \E i \in DOMAIN stream : p = <<stream[i].type, Key(stream[i])>>

\* What the rules but the gaps report of a stream.
Reported(s) ==
  Report(explicit /\ OperationMismatch(s), "OPERATION_MISMATCH")
    \cup Report(explicit /\ AttemptOrderInvalid(s), "ATTEMPT_ORDER_INVALID")
    \cup Report(explicit /\ AttemptAfterSuccess(s), "ATTEMPT_AFTER_SUCCESS")
    \cup Report(explicit /\ OutcomeContradiction(s), "OUTCOME_CONTRADICTION")
    \cup Report(DecisionContradiction(s, explicit), "DECISION_CONTRADICTION")
    \cup Report(Unopened(s, explicit), "UNOPENED_TRANSITION")

TablesInv == OperationInv /\ AttemptInv /\ SuccessInv /\ OutcomeInv /\ DecisionInv /\ OpenedInv
IInv == TablesType /\ TablesInv /\ diagnostics = Reported(stream)

\* An empty stream breaks no rule.
LEMMA EmptyStream ==
  ASSUME NEW s, s = << >>, NEW ex
  PROVE  /\ ~ OperationMismatch(s) /\ ~ AttemptOrderInvalid(s) /\ ~ AttemptAfterSuccess(s)
         /\ ~ OutcomeContradiction(s) /\ ~ DecisionContradiction(s, ex) /\ ~ Unopened(s, ex)
  BY DEF OperationMismatch, AttemptOrderInvalid, AttemptAfterSuccess, OutcomeContradiction, DecisionContradiction, Unopened

\* The empty tables describe the empty stream.
LEMMA InitInv == Init => IInv
<1> SUFFICES ASSUME Init PROVE IInv
  OBVIOUS
<1>1. stream = << >> /\ DOMAIN stream = {}
  BY DEF Init
<1>2. TablesType
  BY DEF Init, TablesType
<1>3. OperationInv /\ AttemptInv /\ SuccessInv
  BY <1>1 DEF Init, OperationInv, AttemptInv, SuccessInv, AttemptsOf
<1>4. OutcomeInv
  BY <1>1 DEF Init, OutcomeInv, TerminalIn, SuccessIn
<1>5. DecisionInv /\ OpenedInv
  BY <1>1 DEF Init, DecisionInv, OpenedInv
<1>6. diagnostics = Reported(stream)
  BY <1>1, EmptyStream DEF Init, Reported, Report
<1> QED BY <1>2, <1>3, <1>4, <1>5, <1>6 DEF IInv, TablesInv

\* The verdicts, and the keys of events.
LEMMA VerdictValues ==
  /\ DOMAIN Verdict = {"capability_allowed", "capability_denied"}
  /\ Verdict["capability_allowed"] = "allow" /\ Verdict["capability_denied"] = "deny"
  BY DEF Verdict

\* The keys of the tables are in their domains.
LEMMA KeyInScopes ==
  ASSUME explicit \in BOOLEAN, NEW e \in Event
  PROVE  Key(e) \in Scopes \X Subjects /\ OutcomeKey(e) \in Occurrences \X Attempts
<1>1. Scope(e, explicit) \in Scopes
  BY EventFields DEF Scope, Scopes, Attempts
<1> QED BY <1>1, EventFields DEF Key, OutcomeKey, Attempts

\* Two events share a key when the rules put them in one scope.
LEMMA KeyIsScope ==
  ASSUME NEW e, NEW f
  PROVE  Key(e) = Key(f) <=> SameScope(e, f, explicit)
  BY DEF Key, SameScope

(***************************************************************************)
(* What one event does to each table.                                      *)
(***************************************************************************)
LEMMA OperationStep ==
  ASSUME IInv, NEW e \in Event, Scan(e)
  PROVE  OperationInv' /\ DOMAIN operationOf' = Occurrences
<1>1. /\ explicit' = explicit /\ stream' = Append(stream, e) /\ stream \in Seq(Event)
      /\ operationOf' = IF explicit /\ operationOf[e.occurrence] = NoOperation
                        THEN [operationOf EXCEPT ![e.occurrence] = e.operation] ELSE operationOf
      /\ DOMAIN operationOf = Occurrences
  BY DEF IInv, TablesType, Scan, TrackOperation
<1>2. e.operation # NoOperation /\ e.occurrence \in Occurrences
  BY EventFields, ValidationAssumption
<1>3. explicit => \A o \in Occurrences :
        IF operationOf[o] = NoOperation THEN \A i \in DOMAIN stream : stream[i].occurrence # o
        ELSE \E i \in DOMAIN stream : stream[i].occurrence = o /\ stream[i].operation = operationOf[o]
  BY DEF IInv, TablesInv, OperationInv
<1>4. ASSUME explicit, NEW o \in Occurrences
      PROVE  IF operationOf'[o] = NoOperation THEN \A i \in DOMAIN stream' : stream'[i].occurrence # o
             ELSE \E i \in DOMAIN stream' : stream'[i].occurrence = o /\ stream'[i].operation = operationOf'[o]
  <2>1. CASE o = e.occurrence /\ operationOf[o] = NoOperation
    <3>1. operationOf'[o] = e.operation
      BY <1>1, <1>2, <1>4, <2>1
    <3>2. Len(stream) + 1 \in DOMAIN stream' /\ stream'[Len(stream) + 1] = e
      BY <1>1, AppendIndex
    <3> QED BY <1>2, <2>1, <3>1, <3>2
  <2>2. CASE ~ (o = e.occurrence /\ operationOf[o] = NoOperation)
    <3>1. operationOf'[o] = operationOf[o]
      BY <1>1, <1>2, <2>2
    <3>2. CASE operationOf[o] = NoOperation
      BY <1>1, <1>3, <1>4, <2>2, <3>1, <3>2, AppendIndex
    <3>3. CASE operationOf[o] # NoOperation
      BY <1>1, <1>3, <1>4, <3>1, <3>3, AppendIndex
    <3> QED BY <3>2, <3>3
  <2> QED BY <2>1, <2>2
<1>5. DOMAIN operationOf' = Occurrences
  BY <1>1
<1> QED BY <1>1, <1>4, <1>5 DEF OperationInv

\* The attempt tables after one more event.
LEMMA AttemptStep ==
  ASSUME IInv, NEW e \in Event, Scan(e)
  PROVE  AttemptInv' /\ DOMAIN attempts' = Occurrences /\ DOMAIN lastAttempt' = Occurrences
<1>1. /\ explicit' = explicit /\ stream' = Append(stream, e) /\ stream \in Seq(Event)
      /\ DOMAIN attempts = Occurrences /\ DOMAIN lastAttempt = Occurrences
      /\ TrackAttempt(e)
  BY DEF IInv, TablesType, Scan
<1>2. e.attempt \in Nat /\ e.occurrence \in Occurrences
  BY EventFields
<1>3. ASSUME explicit, NEW o \in Occurrences
      PROVE  /\ attempts[o] = AttemptsOf(stream, o) /\ lastAttempt[o] \in Nat
             /\ \A n \in AttemptsOf(stream, o) : n <= lastAttempt[o]
             /\ lastAttempt[o] = 0 \/ lastAttempt[o] \in AttemptsOf(stream, o)
             /\ AttemptsOf(stream, o) \subseteq 1..MaxAttempt
  BY <1>1, <1>3, AppendAttempts DEF IInv, TablesInv, AttemptInv
<1>4. ASSUME explicit, NEW o \in Occurrences
      PROVE  /\ attempts'[o] = AttemptsOf(stream', o) /\ lastAttempt'[o] \in Nat
             /\ \A n \in AttemptsOf(stream', o) : n <= lastAttempt'[o]
             /\ lastAttempt'[o] = 0 \/ lastAttempt'[o] \in AttemptsOf(stream', o)
  <2>1. AttemptsOf(stream', o) = IF o = e.occurrence THEN AttemptsOf(stream, o) \cup {e.attempt} ELSE AttemptsOf(stream, o)
    BY <1>1, AppendAttempts
  <2>2. /\ attempts'[o] = IF o = e.occurrence THEN attempts[o] \cup {e.attempt} ELSE attempts[o]
        /\ lastAttempt'[o] = IF o = e.occurrence /\ e.attempt > lastAttempt[o] THEN e.attempt ELSE lastAttempt[o]
    BY <1>1, <1>2, <1>4 DEF TrackAttempt
  <2>3. MaxAttempt \in Nat
    BY OccurrenceAssumption
  <2> HIDE DEF AttemptsOf
  <2> QED BY <1>2, <1>3, <1>4, <2>1, <2>2, <2>3
<1>5. DOMAIN attempts' = Occurrences /\ DOMAIN lastAttempt' = Occurrences
  BY <1>1 DEF TrackAttempt
<1> QED BY <1>1, <1>4, <1>5 DEF AttemptInv

\* Whether the new event is terminal, or succeeds, in an attempt.
LEMMA OutcomeOfLonger ==
  ASSUME NEW s \in Seq(Event), NEW e \in Event, stream = s, stream' = Append(s, e),
         NEW o \in Occurrences, NEW n \in Attempts
  PROVE  /\ TerminalIn(o, n)' <=> TerminalIn(o, n) \/ (<<o, n>> = OutcomeKey(e) /\ e.type \in Terminals)
         /\ SuccessIn(o, n)' <=>
              SuccessIn(o, n) \/ (<<o, n>> = OutcomeKey(e) /\ e.type \in SuccessTerminals /\ ~ TerminalIn(o, n))
<1>1. TerminalIn(o, n)' <=> TerminalIn(o, n) \/ (<<o, n>> = OutcomeKey(e) /\ e.type \in Terminals)
  BY AppendIndex DEF TerminalIn, OutcomeKey
<1>2. Succeeds(Append(s, e), Len(s) + 1) <=>
        e.type \in SuccessTerminals /\ \A h \in DOMAIN s : SameAttempt(s[h], e) => s[h].type \notin Terminals
  BY AppendSucceeds
<1>3. ASSUME <<o, n>> = OutcomeKey(e)
      PROVE  TerminalIn(o, n) <=> \E h \in DOMAIN s : SameAttempt(s[h], e) /\ s[h].type \in Terminals
  BY <1>3 DEF TerminalIn, OutcomeKey, SameAttempt
<1>4. SuccessIn(o, n)' <=> SuccessIn(o, n) \/ (<<o, n>> = OutcomeKey(e) /\ Succeeds(Append(s, e), Len(s) + 1))
  <2>1. \A i \in DOMAIN s : Succeeds(Append(s, e), i) <=> Succeeds(s, i)
    BY AppendSucceeds
  <2>2. <<o, n>> = OutcomeKey(e) <=> o = e.occurrence /\ n = e.attempt
    BY DEF OutcomeKey
  <2> HIDE DEF OutcomeKey
  <2> QED BY <2>1, <2>2, AppendIndex DEF SuccessIn
<1> QED BY <1>1, <1>2, <1>3, <1>4

\* The outcome and success tables after one more event.
LEMMA OutcomeStep ==
  ASSUME IInv, NEW e \in Event, Scan(e)
  PROVE  /\ OutcomeInv' /\ DOMAIN outcomes' = Occurrences \X Attempts
         /\ SuccessInv' /\ DOMAIN successes' = Occurrences
<1> DEFINE k == OutcomeKey(e)
           fresh == explicit /\ e.type \in Terminals /\ outcomes[k] = "none"
           result == IF e.type \in SuccessTerminals THEN "success" ELSE "failure"
<1>1. /\ explicit' = explicit /\ explicit \in BOOLEAN /\ stream' = Append(stream, e) /\ stream \in Seq(Event)
      /\ DOMAIN outcomes = Occurrences \X Attempts /\ DOMAIN successes = Occurrences
      /\ RecordOutcome(e)
  BY DEF IInv, TablesType, Scan
<1>2. k \in Occurrences \X Attempts /\ e.occurrence \in Occurrences /\ e.attempt \in Attempts
      /\ k = <<e.occurrence, e.attempt>>
  BY EventFields, KeyInScopes, <1>1 DEF OutcomeKey, Attempts
<1>3. /\ outcomes' = IF fresh THEN [outcomes EXCEPT ![k] = result] ELSE outcomes
      /\ successes' = IF fresh /\ e.type \in SuccessTerminals
                      THEN [successes EXCEPT ![e.occurrence] = successes[e.occurrence] \cup {e.attempt}] ELSE successes
  BY <1>1 DEF RecordOutcome
<1>4. ASSUME explicit, NEW o \in Occurrences, NEW n \in Attempts
      PROVE  /\ outcomes[<<o, n>>] = "none" <=> ~ TerminalIn(o, n)
             /\ outcomes[<<o, n>>] = "success" <=> SuccessIn(o, n)
  BY <1>4 DEF IInv, TablesInv, OutcomeInv
<1>5. ASSUME explicit, NEW o \in Occurrences, NEW n \in Attempts
      PROVE  /\ outcomes'[<<o, n>>] = "none" <=> ~ TerminalIn(o, n)'
             /\ outcomes'[<<o, n>>] = "success" <=> SuccessIn(o, n)'
  <2>1. /\ TerminalIn(o, n)' <=> TerminalIn(o, n) \/ (<<o, n>> = k /\ e.type \in Terminals)
        /\ SuccessIn(o, n)' <=>
             SuccessIn(o, n) \/ (<<o, n>> = k /\ e.type \in SuccessTerminals /\ ~ TerminalIn(o, n))
    BY <1>1, OutcomeOfLonger
  <2>2. outcomes'[<<o, n>>] = IF fresh /\ <<o, n>> = k THEN result ELSE outcomes[<<o, n>>]
    BY <1>1, <1>2, <1>3
  <2>3. SuccessIn(o, n) => TerminalIn(o, n)
    BY DEF SuccessIn, TerminalIn, Succeeds, Terminals
  <2>4. e.type \in SuccessTerminals => e.type \in Terminals
    BY DEF Terminals
  <2> HIDE DEF k
  <2> QED BY <1>4, <1>5, <2>1, <2>2, <2>3, <2>4
<1>6. ASSUME explicit, NEW o \in Occurrences
      PROVE  /\ \A i \in DOMAIN stream' : stream'[i].occurrence = o /\ Succeeds(stream', i) => stream'[i].attempt \in successes'[o]
             /\ \A n \in successes'[o] :
                  \E i \in DOMAIN stream' : stream'[i].occurrence = o /\ Succeeds(stream', i) /\ stream'[i].attempt = n
  <2>1. fresh /\ e.type \in SuccessTerminals <=> Succeeds(stream', Len(stream) + 1)
    <3>1. outcomes[k] = "none" <=> ~ TerminalIn(e.occurrence, e.attempt)
      BY <1>2, <1>4, <1>6
    <3>2. TerminalIn(e.occurrence, e.attempt) <=> \E h \in DOMAIN stream : SameAttempt(stream[h], e) /\ stream[h].type \in Terminals
      BY DEF TerminalIn, SameAttempt
    <3> QED BY <1>1, <1>6, <3>1, <3>2, AppendSucceeds DEF Terminals
  <2>2. successes'[o] = IF Succeeds(stream', Len(stream) + 1) /\ o = e.occurrence
                        THEN successes[o] \cup {e.attempt} ELSE successes[o]
    <3> HIDE DEF fresh
    <3> QED BY <1>1, <1>2, <1>3, <2>1
  <2>3. /\ \A i \in DOMAIN stream : stream[i].occurrence = o /\ Succeeds(stream, i) => stream[i].attempt \in successes[o]
        /\ \A n \in successes[o] :
             \E i \in DOMAIN stream : stream[i].occurrence = o /\ Succeeds(stream, i) /\ stream[i].attempt = n
    BY <1>6 DEF IInv, TablesInv, SuccessInv
  <2>4. \A i \in DOMAIN stream : Succeeds(stream', i) <=> Succeeds(stream, i)
    BY <1>1, AppendSucceeds
  <2>5. /\ \A i \in DOMAIN stream : i \in DOMAIN stream' /\ stream'[i] = stream[i]
        /\ Len(stream) + 1 \in DOMAIN stream' /\ stream'[Len(stream) + 1] = e
        /\ \A i \in DOMAIN stream' : i \in DOMAIN stream \/ i = Len(stream) + 1
    BY <1>1, AppendIndex
  <2> HIDE DEF fresh, k
  <2>6. ASSUME NEW i \in DOMAIN stream', stream'[i].occurrence = o, Succeeds(stream', i)
        PROVE  stream'[i].attempt \in successes'[o]
    BY <2>2, <2>3, <2>4, <2>5, <2>6
  <2>7. ASSUME NEW n \in successes'[o]
        PROVE  \E i \in DOMAIN stream' : stream'[i].occurrence = o /\ Succeeds(stream', i) /\ stream'[i].attempt = n
    BY <2>2, <2>3, <2>4, <2>5
  <2> QED BY <2>6, <2>7
<1>7. DOMAIN outcomes' = Occurrences \X Attempts /\ DOMAIN successes' = Occurrences
  BY <1>1, <1>3
<1>8. OutcomeInv'
  BY <1>1, <1>5 DEF OutcomeInv
<1>9. SuccessInv'
  BY <1>1, <1>6 DEF SuccessInv
<1> QED BY <1>7, <1>8, <1>9

\* The decision table after one more event.
LEMMA DecisionStep ==
  ASSUME IInv, NEW e \in Event, Scan(e)
  PROVE  DecisionInv' /\ DOMAIN decisions' = Scopes \X Subjects
<1>1. /\ explicit' = explicit /\ explicit \in BOOLEAN /\ stream' = Append(stream, e) /\ stream \in Seq(Event)
      /\ DOMAIN decisions = Scopes \X Subjects
      /\ decisions' = IF e.type \in DOMAIN Verdict THEN [decisions EXCEPT ![Key(e)] = Verdict[e.type]] ELSE decisions
  BY DEF IInv, TablesType, Scan, Decide
<1>2. Key(e) \in Scopes \X Subjects
  BY <1>1, KeyInScopes
<1>3. \A f : Key(f)' = Key(f)
  BY <1>1 DEF Key
<1>4. /\ \A i \in DOMAIN stream : i \in DOMAIN stream' /\ stream'[i] = stream[i]
      /\ Len(stream) + 1 \in DOMAIN stream' /\ stream'[Len(stream) + 1] = e
      /\ \A i \in DOMAIN stream' : i \in DOMAIN stream \/ i = Len(stream) + 1
  BY <1>1, AppendIndex
<1>5. ASSUME NEW k \in Scopes \X Subjects
      PROVE  IF decisions'[k] = "none" THEN \A i \in DOMAIN stream' : stream'[i].type \in DOMAIN Verdict => Key(stream'[i]) # k
             ELSE \E i \in DOMAIN stream' : Decides(stream'[i], decisions'[k], k)
  <2>1. IF decisions[k] = "none" THEN \A i \in DOMAIN stream : stream[i].type \in DOMAIN Verdict => Key(stream[i]) # k
        ELSE \E i \in DOMAIN stream : Decides(stream[i], decisions[k], k)
    BY DEF IInv, TablesInv, DecisionInv
  <2>2. CASE e.type \in DOMAIN Verdict /\ Key(e) = k
    <3>1. decisions'[k] = Verdict[e.type] /\ Verdict[e.type] # "none"
      BY <1>1, <1>2, <2>2, VerdictValues
    <3>2. Decides(e, decisions'[k], k)
      BY <2>2, <3>1 DEF Decides
    <3> QED BY <1>4, <3>1, <3>2
  <2>3. CASE ~ (e.type \in DOMAIN Verdict /\ Key(e) = k)
    <3>1. decisions'[k] = decisions[k]
      BY <1>1, <1>2, <2>3
    <3> QED BY <1>4, <2>1, <2>3, <3>1
  <2> QED BY <2>2, <2>3
<1>6. \A f, v, k : Decides(f, v, k)' <=> Decides(f, v, k)
  BY <1>3 DEF Decides
<1>7. DecisionInv'
  BY <1>1, <1>3, <1>5, <1>6 DEF DecisionInv
<1> QED BY <1>1, <1>7

\* The table of openers after one more event.
LEMMA OpenedStep ==
  ASSUME IInv, NEW e \in Event, Scan(e)
  PROVE  OpenedInv'
<1>1. /\ explicit' = explicit /\ stream' = Append(stream, e) /\ stream \in Seq(Event)
      /\ opened' = IF Opens(e) THEN opened \cup {<<e.type, Key(e)>>} ELSE opened
  BY DEF IInv, TablesType, Scan, Open, Opens
<1>2. \A f : Key(f)' = Key(f)
  BY <1>1 DEF Key
<1>3. /\ \A i \in DOMAIN stream : i \in DOMAIN stream' /\ stream'[i] = stream[i]
      /\ Len(stream) + 1 \in DOMAIN stream' /\ stream'[Len(stream) + 1] = e
      /\ \A i \in DOMAIN stream' : i \in DOMAIN stream \/ i = Len(stream) + 1
  BY <1>1, AppendIndex
<1>4. /\ \A i \in DOMAIN stream : Opens(stream[i]) => <<stream[i].type, Key(stream[i])>> \in opened
      /\ \A p \in opened : \E i \in DOMAIN stream : p = <<stream[i].type, Key(stream[i])>>
  BY DEF IInv, TablesInv, OpenedInv
<1>5. \A i \in DOMAIN stream' : Opens(stream'[i]) => <<stream'[i].type, Key(stream'[i])>> \in opened'
  BY <1>1, <1>3, <1>4
<1>6. \A p \in opened' : \E i \in DOMAIN stream' : p = <<stream'[i].type, Key(stream'[i])>>
  BY <1>1, <1>3, <1>4
<1> QED BY <1>2, <1>5, <1>6 DEF OpenedInv

(***************************************************************************)
(* What one event is reported for is what it breaks.                       *)
(***************************************************************************)
LEMMA OperationReported ==
  ASSUME IInv, NEW e \in Event
  PROVE  Report(explicit /\ OperationMismatch(stream), "OPERATION_MISMATCH") \cup OperationCodes(e) =
           Report(explicit /\ OperationMismatch(Append(stream, e)), "OPERATION_MISMATCH")
<1> DEFINE o == e.occurrence
           New == \E i \in DOMAIN stream : stream[i].occurrence = o /\ stream[i].operation # e.operation
<1>1. OperationMismatch(Append(stream, e)) <=> OperationMismatch(stream) \/ New
  BY AppendMismatch DEF IInv, TablesType
<1>2. ASSUME explicit
      PROVE  OperationMismatch(stream) \/ New <=>
               OperationMismatch(stream) \/ operationOf[o] \notin {NoOperation, e.operation}
  <2>1. IF operationOf[o] = NoOperation THEN \A i \in DOMAIN stream : stream[i].occurrence # o
        ELSE \E i \in DOMAIN stream : stream[i].occurrence = o /\ stream[i].operation = operationOf[o]
    BY <1>2, EventFields DEF IInv, TablesInv, OperationInv
  <2>2. ASSUME New, operationOf[o] = e.operation PROVE OperationMismatch(stream)
    BY <2>1, <2>2 DEF OperationMismatch
  <2> QED BY <2>1, <2>2
<1> QED BY <1>1, <1>2 DEF OperationCodes, Report

\* What the scan reports of an attempt is what the rules report of the longer stream.
LEMMA AttemptReported ==
  ASSUME IInv, NEW e \in Event
  PROVE  Report(explicit /\ AttemptOrderInvalid(stream), "ATTEMPT_ORDER_INVALID")
           \cup Report(explicit /\ AttemptAfterSuccess(stream), "ATTEMPT_AFTER_SUCCESS") \cup AttemptCodes(e) =
         Report(explicit /\ AttemptOrderInvalid(Append(stream, e)), "ATTEMPT_ORDER_INVALID")
           \cup Report(explicit /\ AttemptAfterSuccess(Append(stream, e)), "ATTEMPT_AFTER_SUCCESS")
<1> DEFINE o == e.occurrence
<1>1. stream \in Seq(Event) /\ o \in Occurrences /\ e.attempt \in Nat
  BY EventFields DEF IInv, TablesType
<1>2. AttemptOrderInvalid(Append(stream, e)) <=>
        AttemptOrderInvalid(stream) \/ \E i \in DOMAIN stream : stream[i].occurrence = o /\ e.attempt < stream[i].attempt
  BY <1>1, AppendOrder
<1>3. AttemptAfterSuccess(Append(stream, e)) <=>
        \/ AttemptAfterSuccess(stream)
        \/ \E i \in DOMAIN stream : Succeeds(stream, i) /\ stream[i].occurrence = o /\ stream[i].attempt < e.attempt
  BY <1>1, AppendAfterSuccess
<1>4. ASSUME explicit
      PROVE  e.attempt < lastAttempt[o] <=>
               \E i \in DOMAIN stream : stream[i].occurrence = o /\ e.attempt < stream[i].attempt
  <2>1. /\ lastAttempt[o] \in Nat
        /\ \A n \in AttemptsOf(stream, o) : n <= lastAttempt[o]
        /\ lastAttempt[o] = 0 \/ lastAttempt[o] \in AttemptsOf(stream, o)
    BY <1>1, <1>4 DEF IInv, TablesInv, AttemptInv
  <2>2. \A i \in DOMAIN stream : stream[i].attempt \in Nat
    BY <1>1, EventFields
  <2>3. \A i \in DOMAIN stream : stream[i].occurrence = o => stream[i].attempt \in AttemptsOf(stream, o)
    BY DEF AttemptsOf
  <2>4. \A n \in AttemptsOf(stream, o) : \E i \in DOMAIN stream : stream[i].occurrence = o /\ stream[i].attempt = n
    BY DEF AttemptsOf
  <2>5. ASSUME e.attempt < lastAttempt[o]
        PROVE  \E i \in DOMAIN stream : stream[i].occurrence = o /\ e.attempt < stream[i].attempt
    <3>1. lastAttempt[o] # 0
      BY <1>1, <2>5
    <3> QED BY <2>1, <2>4, <2>5, <3>1
  <2> QED BY <1>1, <2>1, <2>2, <2>3, <2>5
<1>5. ASSUME explicit
      PROVE  (\E n \in successes[o] : n < e.attempt) <=>
               \E i \in DOMAIN stream : Succeeds(stream, i) /\ stream[i].occurrence = o /\ stream[i].attempt < e.attempt
  BY <1>1, <1>5 DEF IInv, TablesInv, SuccessInv
<1> QED BY <1>2, <1>3, <1>4, <1>5 DEF AttemptCodes, Report

\* The same for the outcome of an attempt, ...
LEMMA OutcomeReported ==
  ASSUME IInv, NEW e \in Event
  PROVE  Report(explicit /\ OutcomeContradiction(stream), "OUTCOME_CONTRADICTION") \cup OutcomeCodes(e) =
           Report(explicit /\ OutcomeContradiction(Append(stream, e)), "OUTCOME_CONTRADICTION")
<1> DEFINE New == \E i \in DOMAIN stream : Contradict(stream[i], e)
           code == \/ e.type \in SuccessTerminals /\ outcomes[OutcomeKey(e)] # "none"
                   \/ e.type \in FailureTerminals /\ outcomes[OutcomeKey(e)] = "success"
<1>1. stream \in Seq(Event) /\ explicit \in BOOLEAN
  BY DEF IInv, TablesType
<1>2. OutcomeContradiction(Append(stream, e)) <=> OutcomeContradiction(stream) \/ New
  BY <1>1, AppendOutcome
<1>3. ASSUME explicit
      PROVE  /\ outcomes[OutcomeKey(e)] = "none" <=>
                  ~ \E i \in DOMAIN stream : SameAttempt(stream[i], e) /\ stream[i].type \in Terminals
             /\ outcomes[OutcomeKey(e)] = "success" <=>
                  \E i \in DOMAIN stream : SameAttempt(stream[i], e) /\ Succeeds(stream, i)
  <2>1. e.occurrence \in Occurrences /\ e.attempt \in Attempts
    BY EventFields DEF Attempts
  <2>2. /\ outcomes[<<e.occurrence, e.attempt>>] = "none" <=> ~ TerminalIn(e.occurrence, e.attempt)
        /\ outcomes[<<e.occurrence, e.attempt>>] = "success" <=> SuccessIn(e.occurrence, e.attempt)
    BY <1>3, <2>1 DEF IInv, TablesInv, OutcomeInv
  <2> QED BY <2>2 DEF OutcomeKey, TerminalIn, SuccessIn, SameAttempt
<1>4. ASSUME explicit, code PROVE New
  <2>1. \A i \in DOMAIN stream : Succeeds(stream, i) => stream[i].type \in SuccessTerminals
    BY DEF Succeeds
  <2> QED BY <1>3, <1>4, <2>1 DEF Contradict, Terminals
<1>5. ASSUME explicit, New, ~ code PROVE OutcomeContradiction(stream)
  <2>1. PICK i \in DOMAIN stream : Contradict(stream[i], e)
    BY <1>5
  <2>2. SameAttempt(stream[i], e) /\ stream[i].type \in Terminals /\ e.type \in Terminals
        /\ (stream[i].type \in SuccessTerminals \/ e.type \in SuccessTerminals)
    BY <2>1 DEF Contradict
  <2>3. e.type \notin SuccessTerminals /\ e.type \in FailureTerminals
    BY <1>3, <1>5, <2>2 DEF Terminals
  <2>4. ~ Succeeds(stream, i) /\ stream[i].type \in SuccessTerminals
    BY <1>3, <1>5, <2>2, <2>3
  <2>5. PICK h \in 1..(i - 1) : SameAttempt(stream[h], stream[i]) /\ stream[h].type \in Terminals
    BY <2>4 DEF Succeeds
  <2> QED BY <2>2, <2>4, <2>5 DEF OutcomeContradiction
<1> QED BY <1>2, <1>4, <1>5 DEF OutcomeCodes, Report

\* ... for contradicting decisions, ...
LEMMA DecisionReported ==
  ASSUME IInv, NEW e \in Event
  PROVE  Report(DecisionContradiction(stream, explicit), "DECISION_CONTRADICTION") \cup DecisionCodes(e) =
           Report(DecisionContradiction(Append(stream, e), explicit), "DECISION_CONTRADICTION")
<1> DEFINE New == \E i \in DOMAIN stream :
                    /\ SameScope(stream[i], e, explicit)
                    /\ \/ stream[i].type = "capability_allowed" /\ e.type = "capability_denied"
                       \/ stream[i].type = "capability_denied" /\ e.type = "capability_allowed"
           code == e.type \in DOMAIN Verdict /\ decisions[Key(e)] \notin {"none", Verdict[e.type]}
<1>1. stream \in Seq(Event) /\ explicit \in BOOLEAN
  BY DEF IInv, TablesType
<1>2. DecisionContradiction(Append(stream, e), explicit) <=> DecisionContradiction(stream, explicit) \/ New
  BY <1>1, AppendDecision
<1>3. IF decisions[Key(e)] = "none" THEN \A i \in DOMAIN stream : stream[i].type \in DOMAIN Verdict => Key(stream[i]) # Key(e)
      ELSE \E i \in DOMAIN stream : Decides(stream[i], decisions[Key(e)], Key(e))
  BY <1>1, KeyInScopes DEF IInv, TablesInv, DecisionInv
<1>4. \A i \in DOMAIN stream : Key(stream[i]) = Key(e) <=> SameScope(stream[i], e, explicit)
  BY KeyIsScope
<1>5. ASSUME code PROVE New
  <2>1. PICK i \in DOMAIN stream : Decides(stream[i], decisions[Key(e)], Key(e))
    BY <1>3, <1>5
  <2>2. SameScope(stream[i], e, explicit) /\ stream[i].type \in DOMAIN Verdict /\ Verdict[stream[i].type] # Verdict[e.type]
    BY <1>4, <1>5, <2>1 DEF Decides
  <2> QED BY <1>5, <2>2, VerdictValues
<1>6. ASSUME New, ~ code PROVE DecisionContradiction(stream, explicit)
  <2>1. PICK i \in DOMAIN stream :
          /\ SameScope(stream[i], e, explicit)
          /\ \/ stream[i].type = "capability_allowed" /\ e.type = "capability_denied"
             \/ stream[i].type = "capability_denied" /\ e.type = "capability_allowed"
    BY <1>6
  <2>2. e.type \in DOMAIN Verdict /\ stream[i].type \in DOMAIN Verdict
    BY <2>1, VerdictValues
  <2>3. decisions[Key(e)] # "none" /\ decisions[Key(e)] = Verdict[e.type]
    BY <1>3, <1>4, <1>6, <2>1, <2>2
  <2>4. PICK j \in DOMAIN stream : Decides(stream[j], Verdict[e.type], Key(e))
    BY <1>3, <2>3
  <2>5. stream[j].type \in DOMAIN Verdict /\ Verdict[stream[j].type] = Verdict[e.type] /\ SameScope(stream[j], e, explicit)
    BY <1>4, <2>4 DEF Decides
  <2>6. stream[j].type = e.type
    BY <2>2, <2>5, VerdictValues
  <2>7. SameScope(stream[i], stream[j], explicit) /\ SameScope(stream[j], stream[i], explicit)
    BY <2>1, <2>5 DEF SameScope
  <2> QED BY <2>1, <2>6, <2>7 DEF DecisionContradiction
<1> QED BY <1>2, <1>5, <1>6 DEF DecisionCodes, Report

\* ... and for transitions that nothing opened.
LEMMA OpeningReported ==
  ASSUME IInv, NEW e \in Event
  PROVE  Report(Unopened(stream, explicit), "UNOPENED_TRANSITION") \cup OpeningCodes(e) =
           Report(Unopened(Append(stream, e), explicit), "UNOPENED_TRANSITION")
<1>1. stream \in Seq(Event)
  BY DEF IInv, TablesType
<1>2. Unopened(Append(stream, e), explicit) <=>
        \/ Unopened(stream, explicit)
        \/ /\ e.type \in DOMAIN Opener
           /\ \A i \in DOMAIN stream : stream[i].type = Opener[e.type] => ~ SameScope(stream[i], e, explicit)
  BY <1>1, AppendUnopened
<1>3. ASSUME e.type \in DOMAIN Opener
      PROVE  <<Opener[e.type], Key(e)>> \in opened <=>
               \E i \in DOMAIN stream : stream[i].type = Opener[e.type] /\ SameScope(stream[i], e, explicit)
  <2>1. /\ \A i \in DOMAIN stream : Opens(stream[i]) => <<stream[i].type, Key(stream[i])>> \in opened
        /\ \A p \in opened : \E i \in DOMAIN stream : p = <<stream[i].type, Key(stream[i])>>
    BY DEF IInv, TablesInv, OpenedInv
  <2>2. \A i \in DOMAIN stream : Key(stream[i]) = Key(e) <=> SameScope(stream[i], e, explicit)
    BY KeyIsScope
  <2>3. \A i \in DOMAIN stream : stream[i].type = Opener[e.type] => Opens(stream[i])
    BY <1>3 DEF Opens
  <2> HIDE DEF Opens, Key
  <2>4. ASSUME <<Opener[e.type], Key(e)>> \in opened
        PROVE  \E i \in DOMAIN stream : stream[i].type = Opener[e.type] /\ SameScope(stream[i], e, explicit)
    <3>1. PICK i \in DOMAIN stream : <<Opener[e.type], Key(e)>> = <<stream[i].type, Key(stream[i])>>
      BY <2>1, <2>4
    <3> QED BY <2>2, <3>1
  <2>5. ASSUME NEW i \in DOMAIN stream, stream[i].type = Opener[e.type], SameScope(stream[i], e, explicit)
        PROVE  <<Opener[e.type], Key(e)>> \in opened
    <3>1. <<stream[i].type, Key(stream[i])>> \in opened /\ Key(stream[i]) = Key(e)
      BY <2>1, <2>2, <2>3, <2>5
    <3> QED BY <2>5, <3>1
  <2> QED BY <2>4, <2>5
<1> QED BY <1>2, <1>3 DEF OpeningCodes, Report

(***************************************************************************)
(* The scan.                                                               *)
(***************************************************************************)
LEMMA ScanKeeps == ASSUME IInv, NEW e \in Event, Scan(e) PROVE IInv'
<1>1. explicit' = explicit /\ stream' = Append(stream, e) /\ diagnostics' = diagnostics \cup Codes(e)
  BY DEF Scan
<1>2. TablesType'
  <2>1. stream' \in Seq(Event) /\ explicit' \in BOOLEAN
    BY <1>1, AppendIndex DEF IInv, TablesType
  <2> QED BY <2>1, OperationStep, AttemptStep, OutcomeStep, DecisionStep DEF TablesType
<1>3. TablesInv'
  BY OperationStep, AttemptStep, OutcomeStep, DecisionStep, OpenedStep DEF TablesInv
<1>4. diagnostics' = Reported(stream)'
  <2>1. diagnostics' = Reported(stream) \cup Codes(e)
    BY <1>1 DEF IInv
  <2>2. Reported(stream)' =
          Report(explicit /\ OperationMismatch(Append(stream, e)), "OPERATION_MISMATCH")
            \cup Report(explicit /\ AttemptOrderInvalid(Append(stream, e)), "ATTEMPT_ORDER_INVALID")
            \cup Report(explicit /\ AttemptAfterSuccess(Append(stream, e)), "ATTEMPT_AFTER_SUCCESS")
            \cup Report(explicit /\ OutcomeContradiction(Append(stream, e)), "OUTCOME_CONTRADICTION")
            \cup Report(DecisionContradiction(Append(stream, e), explicit), "DECISION_CONTRADICTION")
            \cup Report(Unopened(Append(stream, e), explicit), "UNOPENED_TRANSITION")
    BY <1>1 DEF Reported
  <2>3. Reported(stream)' = Reported(stream) \cup Codes(e)
    BY <2>2, OperationReported, AttemptReported, OutcomeReported, DecisionReported, OpeningReported DEF Reported, Codes
  <2> QED BY <2>1, <2>3
<1> QED BY <1>2, <1>3, <1>4 DEF IInv

\* One turn of the loop keeps tables and diagnostics those of the stream.
LEMMA NextKeeps == IInv /\ [Next]_vars => IInv'
<1> SUFFICES ASSUME IInv, [Next]_vars PROVE IInv'
  OBVIOUS
<1>1. CASE Next
  BY <1>1, ScanKeeps, ValidationAssumption DEF Next
<1>2. CASE UNCHANGED vars
  <2>1. TablesType' /\ diagnostics' = diagnostics /\ stream' = stream /\ explicit' = explicit
    BY <1>2 DEF vars, IInv, TablesType
  <2>2. OperationInv' /\ AttemptInv' /\ SuccessInv'
    BY <1>2 DEF vars, IInv, TablesInv, OperationInv, AttemptInv, SuccessInv
  <2>3. OutcomeInv' /\ DecisionInv' /\ OpenedInv'
    BY <1>2 DEF vars, IInv, TablesInv, OutcomeInv, TerminalIn, SuccessIn, DecisionInv, Decides, Key, OpenedInv
  <2>4. Reported(stream)' = Reported(stream)
    BY <2>1 DEF Reported
  <2> QED BY <2>1, <2>2, <2>3, <2>4 DEF IInv, TablesInv
<1> QED BY <1>1, <1>2

\* The tables mean what they are for, after every event of every stream.
THEOREM TablesMeanTheStream == Spec => []IInv
  BY InitInv, NextKeeps, PTL DEF Spec

\* What the scan would report if the stream ended here is what the rules say of it.
LEMMA InvExact == IInv => ScanIsExact
<1> SUFFICES ASSUME IInv PROVE Result = Diagnostics(stream, explicit)
  BY DEF ScanIsExact
<1>1. stream \in Seq(Event) /\ diagnostics = Reported(stream)
  BY DEF IInv, TablesType
<1>2. GapCodes = Report(explicit /\ AttemptGap(stream), "ATTEMPT_GAP")
  <2>1. ASSUME explicit
        PROVE  (\E o \in Occurrences : \E n \in attempts[o] : ~ (1..n \subseteq attempts[o])) <=> AttemptGap(stream)
    <3>1. \A o \in Occurrences : attempts[o] = AttemptsOf(stream, o)
      BY <2>1 DEF IInv, TablesInv, AttemptInv
    <3> HIDE DEF AttemptsOf
    <3> QED BY <1>1, <3>1, GapOfAttempts
  <2> QED BY <2>1 DEF GapCodes, Report
<1> QED BY <1>1, <1>2 DEF Result, Diagnostics, Reported, Report

\* The one-pass scan finds exactly the diagnostics that the rules assign to a stream, whatever its length.
THEOREM TheScanIsExact == Spec => []ScanIsExact
  BY InvExact, TablesMeanTheStream, PTL

\* A stream with a diagnostic keeps one whatever follows: a gap that is filled is filled out of order.
LEMMA AppendKeepsInvalid ==
  ASSUME NEW s \in Seq(Event), NEW e \in Event, NEW ex \in BOOLEAN, Diagnostics(s, ex) # {}
  PROVE  Diagnostics(Append(s, e), ex) # {}
<1> DEFINE t == Append(s, e)
<1>1. CASE ex /\ AttemptGap(s)
  <2>1. PICK o \in Occurrences : \E n \in AttemptsOf(s, o) : ~ (1..n \subseteq AttemptsOf(s, o))
    BY <1>1, GapOfAttempts
  <2>2. PICK n \in AttemptsOf(s, o) : ~ (1..n \subseteq AttemptsOf(s, o))
    BY <2>1
  <2>3. PICK k \in 1..n : k \notin AttemptsOf(s, o)
    BY <2>2
  <2>4. n \in Nat /\ MaxAttempt \in Nat
    BY AppendAttempts, OccurrenceAssumption
  <2>5. CASE k \in AttemptsOf(t, o)
    <3>1. o = e.occurrence /\ k = e.attempt
      BY <2>3, <2>5, AppendAttempts
    <3>2. PICK i \in DOMAIN s : s[i].occurrence = o /\ s[i].attempt = n
      BY DEF AttemptsOf
    <3>3. k # n
      BY <2>3
    <3>4. e.attempt < s[i].attempt
      BY <2>4, <3>1, <3>2, <3>3
    <3>5. AttemptOrderInvalid(t)
      BY <3>1, <3>2, <3>4, AppendOrder
    <3> QED BY <1>1, <3>5 DEF Diagnostics
  <2>6. CASE k \notin AttemptsOf(t, o)
    <3>1. n \in AttemptsOf(t, o) /\ t \in Seq(Event)
      BY AppendAttempts, AppendIndex
    <3>2. AttemptGap(t)
      BY <2>6, <3>1, GapOfAttempts
    <3> QED BY <1>1, <3>2 DEF Diagnostics
  <2> QED BY <2>5, <2>6
<1>2. CASE ~ (ex /\ AttemptGap(s))
  <2>1. \/ ex /\ (OperationMismatch(s) \/ AttemptOrderInvalid(s) \/ AttemptAfterSuccess(s) \/ OutcomeContradiction(s))
        \/ DecisionContradiction(s, ex) \/ Unopened(s, ex)
    BY <1>2 DEF Diagnostics
  <2>2. \/ ex /\ (OperationMismatch(t) \/ AttemptOrderInvalid(t) \/ AttemptAfterSuccess(t) \/ OutcomeContradiction(t))
        \/ DecisionContradiction(t, ex) \/ Unopened(t, ex)
    BY <2>1, AppendMismatch, AppendOrder, AppendAfterSuccess, AppendOutcome, AppendDecision, AppendUnopened
  <2> QED BY <2>2 DEF Diagnostics
<1> QED BY <1>1, <1>2

\* No event makes an invalid stream valid, so that every prefix of a valid stream is valid.
THEOREM PrefixesOfValidAreValid == Spec => PrefixesStayValid
<1>1. IInv /\ IInv' /\ [Next]_vars => [Result # {} => Result' # {}]_vars
  <2> SUFFICES ASSUME IInv, IInv', Next, Result # {} PROVE Result' # {}
    OBVIOUS
  <2>1. PICK e \in Event : Scan(e)
    BY ValidationAssumption DEF Next
  <2>2. /\ stream' = Append(stream, e) /\ explicit' = explicit
        /\ stream \in Seq(Event) /\ explicit \in BOOLEAN
    BY <2>1 DEF Scan, IInv, TablesType
  <2>3. Result = Diagnostics(stream, explicit)
    BY InvExact DEF ScanIsExact
  <2>4. Result' = Diagnostics(stream', explicit')
    <3>1. ScanIsExact'
      BY InvExact, PTL
    <3> QED BY <3>1 DEF ScanIsExact
  <2> QED BY <2>2, <2>3, <2>4, AppendKeepsInvalid
<1> QED BY <1>1, TablesMeanTheStream, PTL DEF Spec, PrefixesStayValid
=============================================================================
