------------------------- MODULE LangGraphAdapter_proofs -------------------------
(***************************************************************************)
(* The adapter records a valid stream and runs an action only under its    *)
(* own allowance, for every set of tasks, every number of attempts and     *)
(* every environment that AdapterAssumption admits.                        *)
(***************************************************************************)
EXTENDS LangGraphAdapter, OccurrenceRules_proofs, FiniteSetTheorems, SequenceTheorems, WellFoundedInduction

Statuses == {"ready", "running", "raised", "returned", "done"}
Phases == {"idle", "entered", "identified", "denied", "acting", "failing", "succeeding", "succeeded"}

\* What the adapter records: neither a transition that needs an opener, nor a
\* success other than agent_invoked.
RecordedTypes == {"capability_requested", "capability_allowed", "capability_denied",
                  "policy_violation", "runtime_failed", "agent_invoked"}
RecordedEvent == [type: RecordedTypes, operation: {Surface}, occurrence: Tasks,
                  attempt: 1..MaxAttempt, subject: {Subject}]

\* The events of a task.
EventsOf(s, t) == {s[i] : i \in {j \in DOMAIN s : s[j].occurrence = t}}
HighestOf(s, t) == Max({0} \cup AttemptsOf(s, t))
UpTo(s, t, n) == \A e \in EventsOf(s, t) : e.attempt <= n
Concluded(s, t) == \E e \in EventsOf(s, t) : e.type = "agent_invoked"

\* Two events of one attempt that cannot both be recorded.
Clash(e, f) ==
  /\ SameAttempt(e, f)
  /\ \/ e.type = f.type
     \/ {e.type, f.type} \subseteq Terminals
     \/ {e.type, f.type} = {"capability_allowed", "capability_denied"}
NoClash(s) == \A i, j \in DOMAIN s : i # j => ~ Clash(s[i], s[j])

(***************************************************************************)
(* The inductive invariant.                                                *)
(***************************************************************************)
TypeInv ==
  /\ environment \in Environments
  /\ status \in [Tasks -> Statuses] /\ nodeAttempt \in [Tasks -> Nat]
  /\ verdict \in Verdicts
  /\ bases \in [Tasks -> Nat \cup {NoBase}]
  /\ pc \in [Tasks -> Phases] /\ attempt \in [Tasks -> 0..MaxAttempt]
  /\ log \in Seq(RecordedEvent)
  /\ saved \in [log: Seq(RecordedEvent), done: SUBSET Tasks]

\* In a stream of the adapter attempts never go back and no two events clash.
StreamInv(s) == ~ AttemptOrderInvalid(s) /\ NoClash(s)

\* Where an invocation is, and the attempt it was given.
PhaseInv(t) ==
  /\ pc[t] # "idle" <=> status[t] = "running"
  /\ status[t] \in {"running", "raised", "returned"} => nodeAttempt[t] >= 1
  /\ status[t] = "returned" => bases[t] = NoBase
  /\ pc[t] \notin {"idle", "entered"} =>
       bases[t] \in Nat /\ attempt[t] = bases[t] + nodeAttempt[t] /\ attempt[t] >= 1
  /\ pc[t] \in {"acting", "failing", "succeeding"} => verdict = "allow"

\* The attempts recorded lie below the one in hand, or below the next one when
\* the cached offset is used again.
OffsetInv(t) ==
  /\ pc[t] = "identified" => UpTo(log, t, attempt[t] - 1)
  /\ pc[t] \notin {"idle", "entered", "identified"} => UpTo(log, t, attempt[t])
  /\ pc[t] = "entered" /\ nodeAttempt[t] > 1 /\ bases[t] # NoBase =>
       UpTo(log, t, bases[t] + nodeAttempt[t] - 1)
  /\ status[t] = "raised" /\ bases[t] # NoBase => UpTo(log, t, bases[t] + nodeAttempt[t])

\* An attempt that acts has its allowance and no conclusion yet.
AllowanceInv(t) ==
  pc[t] \in {"acting", "failing", "succeeding"} =>
    /\ \A e \in EventsOf(log, t) : e.attempt = attempt[t] => e.type \in {"capability_requested", "capability_allowed"}
    /\ \E e \in EventsOf(log, t) : e.attempt = attempt[t] /\ e.type = "capability_allowed"

\* As agreed, a recorded success ends the task, ...
SuccessInv(t) ==
  /\ Concluded(log, t) => pc[t] = "succeeded" \/ status[t] \in {"returned", "done"}
  /\ Concluded(saved.log, t) => t \in saved.done

\* ... and the attempts are counted without a gap, unless they ran out.
NextIs(t, n) == n = HighestOf(log, t) + 1 \/ n > MaxAttempt
CountInv(t) ==
  /\ pc[t] = "identified" => attempt[t] = HighestOf(log, t) + 1
  /\ pc[t] \notin {"idle", "entered", "identified"} => attempt[t] = HighestOf(log, t)
  /\ pc[t] = "entered" /\ nodeAttempt[t] > 1 =>
       IF bases[t] # NoBase THEN NextIs(t, bases[t] + nodeAttempt[t])
       ELSE HighestOf(log, t) >= nodeAttempt[t] - 1
  /\ status[t] = "raised" =>
       IF bases[t] # NoBase THEN NextIs(t, bases[t] + nodeAttempt[t] + 1)
       ELSE HighestOf(log, t) >= nodeAttempt[t]

TaskInv(t) == PhaseInv(t) /\ OffsetInv(t) /\ AllowanceInv(t)
AgreedInv ==
  /\ ~ AttemptGap(log) /\ ~ AttemptAfterSuccess(log)
  /\ \A t \in Tasks : SuccessInv(t) /\ (verdict # "malformed" => CountInv(t))

IInv ==
  /\ TypeInv
  /\ StreamInv(log) /\ StreamInv(saved.log)
  /\ \A t \in Tasks : TaskInv(t)
  /\ AsAgreed => AgreedInv

-----------------------------------------------------------------------------
(* Lemmas about the operators.                                             *)

\* A nonempty set of naturals has a least member.
LEMMA LeastNatural ==
  ASSUME NEW T, T \subseteq Nat, T # {}
  PROVE  \E x \in T : \A y \in T : x <= y
<1> DEFINE less == {pair \in Nat \X Nat : pair[1] < pair[2]}
<1>1. IsWellFoundedOn(less, Nat)
  BY NatLessThanWellFounded DEF OpToRel
<1>2. PICK x \in T : \A y \in T : <<y, x>> \notin less
  <2> HIDE DEF less
  <2> QED BY <1>1, WFMin
<1>3. \A y \in T : ~ (y < x)
  BY <1>2
<1> QED BY <1>3

\* Max is what it says on a bounded set of naturals.
LEMMA MaxIs ==
  ASSUME NEW m \in Nat, NEW S, S \subseteq 0..m, S # {}
  PROVE  Max(S) \in S /\ \A n \in S : n <= Max(S)
<1> DEFINE T == {m - n : n \in S}
<1>1. T \subseteq Nat
  OBVIOUS
<1>2. T # {}
  OBVIOUS
<1>3. \E x \in T : \A y \in T : x <= y
  <2> HIDE DEF T
  <2> QED BY <1>1, <1>2, LeastNatural
<1>4. PICK n \in S : \A y \in T : m - n <= y
  BY <1>3
<1>5. \A k \in S : n >= k
  BY <1>4
<1> QED BY <1>5 DEF Max

\* A recorded event is an event of the rules.
LEMMA RecordedFields ==
  /\ RecordedEvent \subseteq Event /\ Seq(RecordedEvent) \subseteq Seq(Event)
  /\ \A e \in RecordedEvent :
       /\ e.type \in RecordedTypes /\ e.operation = Surface /\ e.occurrence \in Tasks
       /\ e.attempt \in 1..MaxAttempt /\ e.attempt \in Nat /\ e.subject = Subject
<1>1. RecordedTypes \subseteq EventTypes
  BY DEF RecordedTypes, EventTypes, Terminals, SuccessTerminals, FailureTerminals, Opener
<1>2. RecordedEvent \subseteq Event
  BY <1>1, AdapterAssumption DEF RecordedEvent, Event, Tasks
<1>3. ASSUME NEW s \in Seq(RecordedEvent) PROVE s \in Seq(Event)
  <2>1. \A i \in 1..Len(s) : s[i] \in RecordedEvent
    OBVIOUS
  <2>2. s = [i \in 1..Len(s) |-> s[i]] /\ Len(s) \in Nat
    OBVIOUS
  <2>3. \A i \in 1..Len(s) : s[i] \in Event
    BY <1>2, <2>1
  <2> HIDE DEF RecordedEvent
  <2> QED BY <2>2, <2>3
<1>4. \A e \in RecordedEvent :
       /\ e.type \in RecordedTypes /\ e.operation = Surface /\ e.occurrence \in Tasks
       /\ e.attempt \in 1..MaxAttempt /\ e.attempt \in Nat /\ e.subject = Subject
  BY OccurrenceAssumption DEF RecordedEvent
<1> QED BY <1>2, <1>3, <1>4

\* Which recorded types conclude an attempt.
LEMMA RecordedKinds ==
  ASSUME NEW type \in RecordedTypes
  PROVE  /\ type \in SuccessTerminals <=> type = "agent_invoked"
         /\ type \in Terminals <=> type \notin {"capability_requested", "capability_allowed"}
         /\ type \notin DOMAIN Opener
  BY DEF RecordedTypes, Terminals, SuccessTerminals, FailureTerminals, Opener

\* The members of a stream are where they are, and one more event adds itself.
LEMMA EventsIndex ==
  ASSUME NEW s \in Seq(RecordedEvent), NEW t \in Tasks
  PROVE  /\ EventsOf(s, t) \subseteq RecordedEvent
         /\ \A e \in EventsOf(s, t) : e.occurrence = t /\ \E i \in DOMAIN s : s[i] = e
         /\ \A i \in DOMAIN s : s[i] \in RecordedEvent /\ s[i] \in EventsOf(s, s[i].occurrence)
         /\ AttemptsOf(s, t) = {e.attempt : e \in EventsOf(s, t)}
         /\ AttemptsOf(s, t) \subseteq 1..MaxAttempt
<1>1. \A i \in DOMAIN s : s[i] \in RecordedEvent
  OBVIOUS
<1>2. AttemptsOf(s, t) = {e.attempt : e \in EventsOf(s, t)}
  BY DEF AttemptsOf, EventsOf
<1>3. EventsOf(s, t) \subseteq RecordedEvent
  BY <1>1 DEF EventsOf
<1> QED BY <1>1, <1>2, <1>3, RecordedFields DEF EventsOf

\* One more event belongs to the events of its own task.
LEMMA AppendEvents ==
  ASSUME NEW s \in Seq(RecordedEvent), NEW e \in RecordedEvent
  PROVE  /\ Append(s, e) \in Seq(RecordedEvent)
         /\ \A t \in Tasks : EventsOf(Append(s, e), t) =
              IF t = e.occurrence THEN EventsOf(s, t) \cup {e} ELSE EventsOf(s, t)
<1> DEFINE u == Append(s, e)
<1>1. /\ \A i \in DOMAIN s : i \in DOMAIN u /\ u[i] = s[i]
      /\ \A i \in DOMAIN u : i \in DOMAIN s \/ i = Len(s) + 1
      /\ Len(s) + 1 \in DOMAIN u /\ u[Len(s) + 1] = e
  OBVIOUS
<1>2. u \in Seq(RecordedEvent)
  OBVIOUS
<1> HIDE DEF u
<1>3. ASSUME NEW t \in Tasks, NEW f \in EventsOf(u, t) PROVE f \in EventsOf(s, t) \/ (t = e.occurrence /\ f = e)
  BY <1>1 DEF EventsOf
<1>4. ASSUME NEW t \in Tasks, NEW f, f \in EventsOf(s, t) \/ (t = e.occurrence /\ f = e) PROVE f \in EventsOf(u, t)
  BY <1>1, <1>4 DEF EventsOf
<1> QED BY <1>2, <1>3, <1>4 DEF u

\* The highest recorded attempt of a task.
LEMMA HighestIs ==
  ASSUME NEW s \in Seq(RecordedEvent), NEW t \in Tasks
  PROVE  /\ HighestOf(s, t) \in 0..MaxAttempt /\ HighestOf(s, t) \in Nat
         /\ UpTo(s, t, HighestOf(s, t))
         /\ HighestOf(s, t) = 0 \/ \E e \in EventsOf(s, t) : e.attempt = HighestOf(s, t)
<1> DEFINE S == {0} \cup AttemptsOf(s, t)
<1>1. S \subseteq 0..MaxAttempt /\ S # {} /\ MaxAttempt \in Nat
  BY EventsIndex, OccurrenceAssumption
<1>2. Max(S) \in S /\ \A n \in S : n <= Max(S)
  <2> HIDE DEF S
  <2> QED BY <1>1, MaxIs
<1>3. HighestOf(s, t) = Max(S)
  BY DEF HighestOf
<1>4. HighestOf(s, t) \in S /\ \A n \in AttemptsOf(s, t) : n <= HighestOf(s, t)
  <2>1. AttemptsOf(s, t) \subseteq S
    OBVIOUS
  <2> HIDE DEF S
  <2> QED BY <1>2, <1>3, <2>1
<1>5. \A n \in AttemptsOf(s, t) : \E e \in EventsOf(s, t) : e.attempt = n
  BY EventsIndex
<1>6. \A e \in EventsOf(s, t) : e.attempt \in AttemptsOf(s, t)
  BY EventsIndex
<1> QED BY <1>1, <1>4, <1>5, <1>6 DEF UpTo

\* An attempt that is recorded (or 0), with none above it, is the highest.
LEMMA HighestUnique ==
  ASSUME NEW s \in Seq(RecordedEvent), NEW t \in Tasks, NEW n \in Nat, UpTo(s, t, n),
         n = 0 \/ \E e \in EventsOf(s, t) : e.attempt = n
  PROVE  HighestOf(s, t) = n
<1>1. \A e \in EventsOf(s, t) : e.attempt \in Nat /\ e.attempt <= n /\ e.attempt <= HighestOf(s, t)
  BY EventsIndex, HighestIs, RecordedFields DEF UpTo
<1> QED BY <1>1, HighestIs

\* max_recorded_attempt and the highest attempt of a stream are one.
LEMMA HighestIsRecorded == \A t \in Tasks : Highest(t) = HighestOf(log, t)
  BY DEF Highest, HighestOf, AttemptsOf

-----------------------------------------------------------------------------
(* What one more event does to a stream of the adapter.                    *)

\* A clash is mutual.
LEMMA ClashSymmetric == \A e, f : Clash(e, f) <=> Clash(f, e)
  BY DEF Clash, SameAttempt

\* An event not below its occurrence's attempts that clashes with none keeps the order.
LEMMA AppendStream ==
  ASSUME NEW s \in Seq(RecordedEvent), NEW e \in RecordedEvent, StreamInv(s),
         UpTo(s, e.occurrence, e.attempt), \A f \in EventsOf(s, e.occurrence) : ~ Clash(f, e)
  PROVE  StreamInv(Append(s, e))
<1> DEFINE u == Append(s, e)
<1>1. s \in Seq(Event) /\ e \in Event
  BY RecordedFields
<1>2. \A i \in DOMAIN s : s[i] \in RecordedEvent /\ s[i] \in EventsOf(s, s[i].occurrence)
  BY EventsIndex, RecordedFields
<1>3. ~ AttemptOrderInvalid(u)
  <2>1. ASSUME NEW i \in DOMAIN s, s[i].occurrence = e.occurrence, e.attempt < s[i].attempt PROVE FALSE
    <3>1. s[i].attempt <= e.attempt
      BY <1>2, <2>1 DEF UpTo
    <3> QED BY <1>2, <2>1, <3>1, RecordedFields
  <2> QED BY <1>1, <2>1, AppendOrder DEF StreamInv
<1>4. NoClash(u)
  <2>1. \A i \in DOMAIN s : ~ Clash(s[i], e) /\ ~ Clash(e, s[i])
    BY <1>2, ClashSymmetric DEF Clash, SameAttempt
  <2>2. /\ \A i \in DOMAIN u : i \in DOMAIN s \/ i = Len(s) + 1
        /\ \A i \in DOMAIN s : u[i] = s[i]
        /\ u[Len(s) + 1] = e
    OBVIOUS
  <2> HIDE DEF u
  <2> QED BY <2>1, <2>2 DEF StreamInv, NoClash
<1> QED BY <1>3, <1>4 DEF StreamInv

\* What is left to go wrong in such a stream.
LEMMA StreamDiagnostics ==
  ASSUME NEW s \in Seq(RecordedEvent), StreamInv(s)
  PROVE  /\ ~ Replays(s)
         /\ Diagnostics(s, TRUE) = (IF AttemptGap(s) THEN {"ATTEMPT_GAP"} ELSE {})
                                     \cup (IF AttemptAfterSuccess(s) THEN {"ATTEMPT_AFTER_SUCCESS"} ELSE {})
<1>1. \A i \in DOMAIN s : s[i] \in RecordedEvent
  BY EventsIndex, RecordedFields
<1>2. ~ Replays(s)
  BY DEF Replays, StreamInv, NoClash, Clash, SameAttempt
<1>3. ~ OperationMismatch(s)
  BY <1>1, RecordedFields DEF OperationMismatch
<1>4. ~ OutcomeContradiction(s)
  <2>1. ASSUME NEW j \in DOMAIN s, NEW i \in 1..(j - 1), SameAttempt(s[i], s[j]),
               {s[i].type, s[j].type} \subseteq Terminals
        PROVE  FALSE
    <3>1. i \in DOMAIN s /\ i # j
      OBVIOUS
    <3> QED BY <2>1, <3>1 DEF StreamInv, NoClash, Clash
  <2> QED BY <2>1 DEF OutcomeContradiction
<1>5. ~ DecisionContradiction(s, TRUE)
  <2>1. ASSUME NEW i \in DOMAIN s, NEW j \in DOMAIN s, s[i].type = "capability_allowed",
               s[j].type = "capability_denied", SameScope(s[i], s[j], TRUE)
        PROVE  FALSE
    <3>1. SameAttempt(s[i], s[j])
      BY <2>1 DEF SameScope, Scope, SameAttempt
    <3> QED BY <2>1, <3>1 DEF StreamInv, NoClash, Clash
  <2> QED BY <2>1 DEF DecisionContradiction
<1>6. ~ Unopened(s, TRUE)
  BY <1>1, RecordedFields, RecordedKinds DEF Unopened
<1> QED BY <1>2, <1>3, <1>4, <1>5, <1>6 DEF Diagnostics, StreamInv

\* An event of the highest attempt or the next, of a task without a success.
LEMMA AppendAgreed ==
  ASSUME NEW s \in Seq(RecordedEvent), NEW e \in RecordedEvent,
         ~ AttemptGap(s), ~ AttemptAfterSuccess(s),
         e.attempt <= HighestOf(s, e.occurrence) + 1, ~ Concluded(s, e.occurrence)
  PROVE  ~ AttemptGap(Append(s, e)) /\ ~ AttemptAfterSuccess(Append(s, e))
<1> DEFINE u == Append(s, e)
           t == e.occurrence
<1>1. s \in Seq(Event) /\ e \in Event /\ u \in Seq(Event) /\ t \in Tasks /\ e.attempt \in Nat
  BY RecordedFields, AppendEvents
<1>2. /\ AttemptsOf(u, t) = AttemptsOf(s, t) \cup {e.attempt}
      /\ \A o \in Occurrences \ {t} : AttemptsOf(u, o) = AttemptsOf(s, o)
  BY <1>1, AppendAttempts DEF Tasks
<1>3. \A o \in Occurrences : \A n \in AttemptsOf(s, o) : 1..n \subseteq AttemptsOf(s, o)
  BY <1>1, GapOfAttempts
<1>4. 1..(e.attempt - 1) \subseteq AttemptsOf(s, t)
  <2> DEFINE h == HighestOf(s, t)
  <2>1. h \in Nat /\ (h = 0 \/ h \in AttemptsOf(s, t))
    BY <1>1, HighestIs, EventsIndex
  <2>2. h \in AttemptsOf(s, t) => 1..h \subseteq AttemptsOf(s, t)
    BY <1>1, <1>3 DEF Tasks
  <2> HIDE DEF h
  <2>3. e.attempt - 1 <= h
    BY <1>1, <2>1 DEF h
  <2> QED BY <1>1, <2>1, <2>2, <2>3
<1>5. \A o \in Occurrences : \A n \in AttemptsOf(u, o) : 1..n \subseteq AttemptsOf(u, o)
  <2> SUFFICES ASSUME NEW o \in Occurrences, NEW n \in AttemptsOf(u, o), NEW k \in 1..n PROVE k \in AttemptsOf(u, o)
    OBVIOUS
  <2> HIDE DEF u, t
  <2>1. CASE n \in AttemptsOf(s, o)
    BY <1>2, <1>3, <2>1
  <2>2. CASE o = t /\ n = e.attempt
    <3>1. k = e.attempt \/ k \in 1..(e.attempt - 1)
      BY <1>1, <2>2
    <3> QED BY <1>2, <1>4, <2>2, <3>1
  <2> QED BY <1>2, <2>1, <2>2
<1>6. ~ AttemptGap(u)
  BY <1>1, <1>5, GapOfAttempts
<1>7. ASSUME NEW i \in DOMAIN s, Succeeds(s, i), s[i].occurrence = t PROVE FALSE
  <2>1. s[i] \in EventsOf(s, t) /\ s[i].type \in RecordedTypes
    BY <1>1, <1>7, EventsIndex, RecordedFields
  <2> QED BY <1>7, <2>1, RecordedKinds DEF Succeeds, Concluded
<1> QED BY <1>1, <1>6, <1>7, AppendAfterSuccess

-----------------------------------------------------------------------------
(* What an action does to the state of its own task and of the others.     *)

\* What a task records is an event of the adapter.
LEMMA RecordedTyped ==
  ASSUME NEW t \in Tasks, TypeInv, attempt[t] >= 1, NEW type \in RecordedTypes
  PROVE  Recorded(t, type) \in RecordedEvent
  BY OccurrenceAssumption DEF Recorded, RecordedEvent, TypeInv

\* A decision is none, one or two events more.
LEMMA DecisionMoves ==
  ASSUME NEW t \in Tasks, RecordDecision(t), TypeInv
  PROVE  \/ verdict = "malformed" /\ log' = log
         \/ verdict = "ineffective" /\ log' = Append(log, Recorded(t, "policy_violation"))
         \/ /\ verdict = "deny"
            /\ log' = Append(Append(log, Recorded(t, "capability_requested")), Recorded(t, "capability_denied"))
         \/ /\ verdict = "allow"
            /\ log' = Append(Append(log, Recorded(t, "capability_requested")), Recorded(t, "capability_allowed"))
<1>1. log \in Seq(RecordedEvent) /\ verdict \in Verdicts
  BY DEF TypeInv
<1>2. \A a, b : log \o <<a, b>> = Append(Append(log, a), b)
  BY <1>1
<1>3. \A a : log \o <<a>> = Append(log, a)
  BY <1>1
<1>4. log \o << >> = log
  BY <1>1
<1>5. CASE verdict = "malformed"
  <2>1. Intents = << >>
    BY <1>5 DEF Intents
  <2>2. [i \in DOMAIN << >> |-> Recorded(t, Intents[i])] = << >>
    OBVIOUS
  <2> QED BY <1>4, <1>5, <2>1, <2>2 DEF RecordDecision
<1>6. CASE verdict = "ineffective"
  <2>1. Intents = <<"policy_violation">>
    BY <1>6 DEF Intents
  <2>2. [i \in DOMAIN Intents |-> Recorded(t, Intents[i])] = <<Recorded(t, "policy_violation")>>
    BY <2>1
  <2> QED BY <1>3, <1>6, <2>2 DEF RecordDecision
<1>7. CASE verdict = "deny"
  <2>1. Intents = <<"capability_requested", "capability_denied">>
    BY <1>7 DEF Intents
  <2>2. [i \in DOMAIN Intents |-> Recorded(t, Intents[i])]
          = <<Recorded(t, "capability_requested"), Recorded(t, "capability_denied")>>
    BY <2>1
  <2> QED BY <1>2, <1>7, <2>2 DEF RecordDecision
<1>8. CASE verdict = "allow"
  <2>1. Intents = <<"capability_requested", "capability_allowed">>
    BY <1>8 DEF Intents
  <2>2. [i \in DOMAIN Intents |-> Recorded(t, Intents[i])]
          = <<Recorded(t, "capability_requested"), Recorded(t, "capability_allowed")>>
    BY <2>1
  <2> QED BY <1>2, <1>8, <2>2 DEF RecordDecision
<1> QED BY <1>1, <1>5, <1>6, <1>7, <1>8 DEF Verdicts

\* The types a decision records.
DecisionTypes ==
  IF verdict = "malformed" THEN {}
  ELSE IF verdict = "ineffective" THEN {"policy_violation"}
  ELSE IF verdict = "deny" THEN {"capability_requested", "capability_denied"}
  ELSE {"capability_requested", "capability_allowed"}

\* record_decision adds the events of the verdict to the task's own, and no others.
LEMMA DecisionEvents ==
  ASSUME NEW t \in Tasks, RecordDecision(t), TypeInv, attempt[t] >= 1
  PROVE  /\ log' \in Seq(RecordedEvent)
         /\ EventsOf(log', t) = EventsOf(log, t) \cup {Recorded(t, type) : type \in DecisionTypes}
         /\ \A u \in Tasks \ {t} : EventsOf(log', u) = EventsOf(log, u)
<1> DEFINE R(type) == Recorded(t, type)
<1>1. \A type \in RecordedTypes : R(type) \in RecordedEvent /\ R(type).occurrence = t
  BY RecordedTyped DEF Recorded
<1>2. log \in Seq(RecordedEvent)
  BY DEF TypeInv
<1> HIDE DEF R
<1>3. \A type \in RecordedTypes :
        /\ Append(log, R(type)) \in Seq(RecordedEvent)
        /\ \A u \in Tasks : EventsOf(Append(log, R(type)), u) =
             IF u = t THEN EventsOf(log, u) \cup {R(type)} ELSE EventsOf(log, u)
  BY <1>1, <1>2, AppendEvents
<1>4. \A x, y \in RecordedTypes :
        /\ Append(Append(log, R(x)), R(y)) \in Seq(RecordedEvent)
        /\ \A u \in Tasks : EventsOf(Append(Append(log, R(x)), R(y)), u) =
             IF u = t THEN EventsOf(log, u) \cup {R(x), R(y)} ELSE EventsOf(log, u)
  <2> TAKE x, y \in RecordedTypes
  <2>1. \A u \in Tasks : EventsOf(Append(Append(log, R(x)), R(y)), u) =
             IF u = t THEN EventsOf(Append(log, R(x)), u) \cup {R(y)} ELSE EventsOf(Append(log, R(x)), u)
    <3> DEFINE first == Append(log, R(x))
    <3>1. first \in Seq(RecordedEvent) /\ R(y) \in RecordedEvent /\ R(y).occurrence = t
      BY <1>1, <1>3
    <3> HIDE DEF first
    <3>2. \A u \in Tasks : EventsOf(Append(first, R(y)), u) =
             IF u = t THEN EventsOf(first, u) \cup {R(y)} ELSE EventsOf(first, u)
      BY <3>1, AppendEvents
    <3> QED BY <3>2 DEF first
  <2>2. Append(Append(log, R(x)), R(y)) \in Seq(RecordedEvent)
    BY <1>1, <1>3, AppendEvents
  <2> QED BY <1>3, <2>1, <2>2
<1>5. {"capability_requested", "capability_denied", "capability_allowed", "policy_violation"} \subseteq RecordedTypes
  BY DEF RecordedTypes
<1>6. CASE verdict = "malformed"
  BY <1>2, <1>6, DecisionMoves DEF DecisionTypes
<1>7. CASE verdict = "ineffective"
  <2>1. log' = Append(log, R("policy_violation"))
    BY <1>7, DecisionMoves DEF R
  <2>2. {Recorded(t, type) : type \in DecisionTypes} = {R("policy_violation")}
    BY <1>7 DEF DecisionTypes, R
  <2> QED BY <1>3, <1>5, <2>1, <2>2
<1>8. CASE verdict = "deny"
  <2>1. log' = Append(Append(log, R("capability_requested")), R("capability_denied"))
    BY <1>8, DecisionMoves DEF R
  <2>2. {Recorded(t, type) : type \in DecisionTypes} = {R("capability_requested"), R("capability_denied")}
    BY <1>8 DEF DecisionTypes, R
  <2> QED BY <1>4, <1>5, <2>1, <2>2
<1>9. CASE verdict = "allow"
  <2>1. log' = Append(Append(log, R("capability_requested")), R("capability_allowed"))
    BY <1>9, DecisionMoves DEF R
  <2>2. {Recorded(t, type) : type \in DecisionTypes} = {R("capability_requested"), R("capability_allowed")}
    BY <1>9 DEF DecisionTypes, R
  <2> QED BY <1>4, <1>5, <2>1, <2>2
<1> QED BY <1>6, <1>7, <1>8, <1>9 DEF TypeInv, Verdicts

\* What an action of another task leaves alone.
Frame(u) ==
  /\ status'[u] = status[u] /\ nodeAttempt'[u] = nodeAttempt[u] /\ bases'[u] = bases[u]
  /\ pc'[u] = pc[u] /\ attempt'[u] = attempt[u]
  /\ EventsOf(log', u) = EventsOf(log, u)
TaskNext(t) == LangGraph(t) \/ Node(t)

USE DEF framework

\* A step of one task leaves everything of the other tasks as it is.
LEMMA OnlyItsOwnTask ==
  ASSUME NEW t \in Tasks, TaskNext(t), TypeInv, PhaseInv(t)
  PROVE  /\ \A u \in Tasks \ {t} : Frame(u)
         /\ UNCHANGED <<environment, verdict, saved>>
         /\ log' \in Seq(RecordedEvent)
<1> USE DEF Frame, CacheKey
<1>0. log \in Seq(RecordedEvent)
  BY DEF TypeInv
<1>1. CASE Schedule(t) \/ Retry(t)
  BY <1>0, <1>1 DEF Schedule, Retry, Invoke, TypeInv
<1>2. CASE GiveUp(t) \/ Commit(t) \/ LateFailure(t)
  BY <1>0, <1>2 DEF GiveUp, Commit, LateFailure, Becomes, TypeInv
<1>3. CASE Identify(t)
  <2>1. \A u \in Tasks \ {t} : bases'[u] = bases[u] /\ attempt'[u] = attempt[u] /\ pc'[u] = pc[u] /\ status'[u] = status[u]
    BY <1>3 DEF Identify, Leave, TypeInv
  <2> QED BY <1>0, <1>3, <2>1 DEF Identify, Leave
<1>4. CASE RecordDecision(t)
  <2>1. attempt[t] >= 1
    BY <1>4 DEF RecordDecision, PhaseInv
  <2> QED BY <1>4, <2>1, DecisionEvents DEF RecordDecision, TypeInv
<1>5. CASE RecorderRaises(t) \/ Deny(t) \/ Interrupt(t) \/ Abort(t) \/ ReturnResult(t)
  BY <1>0, <1>5 DEF RecorderRaises, Deny, Interrupt, Abort, ReturnResult, PopBase, Leave, TypeInv
<1>6. CASE ActionEnds(t)
  BY <1>0, <1>6 DEF ActionEnds, TypeInv
<1>7. CASE ObserveFailure(t) \/ ObserveSuccess(t)
  <2>1. attempt[t] >= 1
    BY <1>7 DEF ObserveFailure, ObserveSuccess, PhaseInv
  <2>2. PICK type \in RecordedTypes : log' = Append(log, Recorded(t, type))
    BY <1>7 DEF ObserveFailure, ObserveSuccess, RecordedTypes
  <2>3. Recorded(t, type) \in RecordedEvent /\ Recorded(t, type).occurrence = t
    BY <2>1, RecordedTyped DEF Recorded
  <2>4. log' \in Seq(RecordedEvent) /\ \A u \in Tasks \ {t} : EventsOf(log', u) = EventsOf(log, u)
    BY <1>0, <2>2, <2>3, AppendEvents
  <2> QED BY <1>7, <2>4 DEF ObserveFailure, ObserveSuccess, Leave, TypeInv
<1> QED BY <1>1, <1>2, <1>3, <1>4, <1>5, <1>6, <1>7 DEF TaskNext, LangGraph, Node

\* What is left as it is keeps its part of the invariant.
LEMMA FrameKeeps ==
  ASSUME NEW u \in Tasks, Frame(u), TypeInv, log' \in Seq(RecordedEvent), UNCHANGED <<verdict, saved>>
  PROVE  /\ TaskInv(u) => TaskInv(u)'
         /\ SuccessInv(u) => SuccessInv(u)'
         /\ CountInv(u) => CountInv(u)'
<1>1. HighestOf(log', u) = HighestOf(log, u)
  <2>1. AttemptsOf(log', u) = AttemptsOf(log, u)
    <3>1. AttemptsOf(log', u) = {e.attempt : e \in EventsOf(log', u)}
      BY EventsIndex
    <3>2. AttemptsOf(log, u) = {e.attempt : e \in EventsOf(log, u)}
      BY EventsIndex DEF TypeInv
    <3> QED BY <3>1, <3>2 DEF Frame
  <2> QED BY <2>1 DEF HighestOf
<1>2. \A n : UpTo(log', u, n) <=> UpTo(log, u, n)
  BY DEF Frame, UpTo
<1>3. PhaseInv(u) => PhaseInv(u)'
  BY DEF PhaseInv, Frame
<1>4. OffsetInv(u) => OffsetInv(u)'
  BY <1>2 DEF OffsetInv, Frame
<1>5. AllowanceInv(u) => AllowanceInv(u)'
  BY DEF AllowanceInv, Frame
<1>6. SuccessInv(u) => SuccessInv(u)'
  BY DEF SuccessInv, Concluded, Frame
<1>7. CountInv(u) => CountInv(u)'
  BY <1>1 DEF CountInv, NextIs, Frame
<1> QED BY <1>3, <1>4, <1>5, <1>6, <1>7 DEF TaskInv

\* Only three actions record something, each behind what is recorded already.
LEMMA Records ==
  ASSUME NEW t \in Tasks, TaskNext(t)
  PROVE  RecordDecision(t) \/ ObserveFailure(t) \/ ObserveSuccess(t) \/ log' = log
  BY DEF TaskNext, LangGraph, Node, Schedule, Retry, Invoke, GiveUp, Commit, LateFailure, Becomes, Identify,
         RecorderRaises, Deny, Interrupt, Abort, ReturnResult, ActionEnds

\* Attempts in order and without a clash: each step keeps the stream so.
LEMMA StreamStep ==
  ASSUME NEW t \in Tasks, TaskNext(t), TypeInv, TaskInv(t), StreamInv(log)
  PROVE  StreamInv(log')
<1> USE DEF TaskInv
<1>0. log \in Seq(RecordedEvent) /\ attempt[t] \in 0..MaxAttempt
  BY DEF TypeInv
<1>1. CASE RecordDecision(t)
  <2> DEFINE R(type) == Recorded(t, type)
  <2>1. /\ attempt[t] >= 1 /\ attempt[t] \in Nat
        /\ UpTo(log, t, attempt[t] - 1)
    BY <1>0, <1>1, OccurrenceAssumption DEF RecordDecision, PhaseInv, OffsetInv
  <2>2. \A x \in RecordedTypes :
          R(x) \in RecordedEvent /\ R(x).occurrence = t /\ R(x).attempt = attempt[t] /\ R(x).type = x
    BY <2>1, RecordedTyped DEF Recorded
  <2> HIDE DEF R
  <2>3. \A f \in EventsOf(log, t) : f.attempt # attempt[t] /\ f.attempt <= attempt[t]
    BY <1>0, <2>1, EventsIndex, RecordedFields DEF UpTo
  <2>4. ASSUME NEW x \in RecordedTypes PROVE StreamInv(Append(log, R(x)))
    <3>1. UpTo(log, t, attempt[t])
      BY <2>3 DEF UpTo
    <3>2. \A f \in EventsOf(log, t) : ~ Clash(f, R(x))
      BY <2>2, <2>3 DEF Clash, SameAttempt
    <3> QED BY <1>0, <2>2, <3>1, <3>2, AppendStream
  <2>5. ASSUME NEW y \in {"capability_denied", "capability_allowed"}
        PROVE  StreamInv(Append(Append(log, R("capability_requested")), R(y)))
    <3> DEFINE first == Append(log, R("capability_requested"))
    <3>1. "capability_requested" \in RecordedTypes /\ y \in RecordedTypes
      BY DEF RecordedTypes
    <3>2. first \in Seq(RecordedEvent) /\ EventsOf(first, t) = EventsOf(log, t) \cup {R("capability_requested")}
      BY <1>0, <2>2, <3>1, AppendEvents
    <3>3. StreamInv(first)
      BY <2>4, <3>1
    <3> HIDE DEF first
    <3>4. UpTo(first, t, attempt[t])
      BY <1>0, <2>2, <2>3, <3>1, <3>2 DEF UpTo
    <3>5. \A f \in EventsOf(log, t) : ~ Clash(f, R(y))
      BY <2>2, <2>3, <3>1 DEF Clash, SameAttempt
    <3>6. ~ Clash(R("capability_requested"), R(y))
      BY <2>2, <3>1 DEF Clash, Terminals, SuccessTerminals, FailureTerminals
    <3>7. StreamInv(Append(first, R(y)))
      BY <2>2, <3>1, <3>2, <3>3, <3>4, <3>5, <3>6, AppendStream
    <3> QED BY <3>7 DEF first
  <2>6. "policy_violation" \in RecordedTypes
    BY DEF RecordedTypes
  <2> QED BY <1>1, <2>4, <2>5, <2>6, DecisionMoves DEF R
<1>2. CASE ObserveFailure(t) \/ ObserveSuccess(t)
  <2>1. PICK type \in {"runtime_failed", "agent_invoked"} : log' = Append(log, Recorded(t, type))
    BY <1>2 DEF ObserveFailure, ObserveSuccess
  <2>2. /\ attempt[t] >= 1 /\ UpTo(log, t, attempt[t])
        /\ \A f \in EventsOf(log, t) : f.attempt = attempt[t] => f.type \in {"capability_requested", "capability_allowed"}
    BY <1>2 DEF ObserveFailure, ObserveSuccess, PhaseInv, OffsetInv, AllowanceInv
  <2>3. type \in RecordedTypes
    BY DEF RecordedTypes
  <2>4. /\ Recorded(t, type) \in RecordedEvent /\ Recorded(t, type).occurrence = t
        /\ Recorded(t, type).attempt = attempt[t] /\ Recorded(t, type).type = type
    BY <2>2, <2>3, RecordedTyped DEF Recorded
  <2>5. ASSUME NEW f \in EventsOf(log, t) PROVE ~ Clash(f, Recorded(t, type))
    <3>1. f.attempt = attempt[t] => f.type \in {"capability_requested", "capability_allowed"}
      BY <2>2
    <3> QED BY <2>4, <3>1 DEF Clash, SameAttempt, Terminals, SuccessTerminals, FailureTerminals
  <2> QED BY <1>0, <2>1, <2>2, <2>4, <2>5, AppendStream
<1>3. CASE log' = log
  BY <1>3
<1> QED BY <1>1, <1>2, <1>3, Records

\* The offset in numbers: the attempt it leads to lies above all that is recorded.
LEMMA BaseIs ==
  ASSUME NEW t \in Tasks, TypeInv, TaskInv(t), Identify(t)
  PROVE  /\ Base(t) \in Nat /\ bases'[t] = Base(t)
         /\ UpTo(log, t, Base(t) + nodeAttempt[t] - 1)
         /\ nodeAttempt[t] = 1 => Base(t) = HighestOf(log, t)
         /\ nodeAttempt[t] > 1 /\ bases[t] # NoBase => Base(t) = bases[t]
         /\ nodeAttempt[t] > 1 /\ bases[t] = NoBase =>
              Base(t) = IF HighestOf(log, t) >= nodeAttempt[t] - 1 THEN HighestOf(log, t) - (nodeAttempt[t] - 1) ELSE 0
<1> USE DEF CacheKey
<1>1. /\ pc[t] = "entered" /\ status[t] = "running" /\ nodeAttempt[t] \in Nat /\ nodeAttempt[t] >= 1
      /\ bases'[t] = Base(t) /\ bases[t] \in Nat \cup {NoBase}
  BY DEF Identify, TypeInv, TaskInv, PhaseInv
<1>2. Highest(t) = HighestOf(log, t) /\ HighestOf(log, t) \in Nat /\ log \in Seq(RecordedEvent)
  BY HighestIsRecorded, HighestIs DEF TypeInv
<1>3. \A e \in EventsOf(log, t) : e.attempt \in Nat /\ e.attempt <= HighestOf(log, t)
  BY <1>2, HighestIs, EventsIndex, RecordedFields DEF UpTo
<1>4. CASE nodeAttempt[t] = 1
  <2>1. Base(t) = HighestOf(log, t)
    BY <1>2, <1>4 DEF Base
  <2> QED BY <1>1, <1>2, <1>3, <1>4, <2>1 DEF UpTo
<1>5. CASE nodeAttempt[t] > 1 /\ bases[t] # NoBase
  <2>1. Base(t) = bases[t] /\ bases[t] \in Nat
    BY <1>1, <1>5 DEF Base
  <2>2. UpTo(log, t, bases[t] + nodeAttempt[t] - 1)
    BY <1>1, <1>5 DEF TaskInv, OffsetInv
  <2> QED BY <1>1, <1>5, <2>1, <2>2
<1>6. CASE nodeAttempt[t] > 1 /\ bases[t] = NoBase
  <2> DEFINE d == HighestOf(log, t) - (nodeAttempt[t] - 1)
  <2>1. d \in Int
    BY <1>1, <1>2
  <2>2. Max({0, d}) = IF d >= 0 THEN d ELSE 0
    <3> HIDE DEF d
    <3> QED BY <2>1 DEF Max
  <2>3. Base(t) = Max({0, d})
    BY <1>2, <1>6 DEF Base
  <2>4. Base(t) = IF HighestOf(log, t) >= nodeAttempt[t] - 1 THEN HighestOf(log, t) - (nodeAttempt[t] - 1) ELSE 0
    BY <1>1, <1>2, <2>2, <2>3
  <2>5. Base(t) \in Nat /\ Base(t) + nodeAttempt[t] - 1 >= HighestOf(log, t)
    BY <1>1, <1>2, <2>4
  <2>6. \A e \in EventsOf(log, t) : e.attempt <= Base(t) + nodeAttempt[t] - 1
    BY <1>1, <1>2, <1>3, <2>5
  <2> QED BY <1>1, <1>6, <2>4, <2>5, <2>6 DEF UpTo
<1> QED BY <1>1, <1>4, <1>5, <1>6

\* A step of a task keeps the types.
LEMMA TypeStep ==
  ASSUME NEW t \in Tasks, TaskNext(t), TypeInv, TaskInv(t)
  PROVE  TypeInv'
<1> USE DEF TypeInv, CacheKey
<1>0. log' \in Seq(RecordedEvent) /\ UNCHANGED <<environment, verdict, saved>>
  BY OnlyItsOwnTask DEF TaskInv
<1>1. CASE Schedule(t) \/ Retry(t)
  <2>1. \E n \in Nat : Invoke(t, n)
    BY <1>1 DEF Schedule, Retry
  <2> QED BY <1>0, <2>1 DEF Invoke, Statuses, Phases
<1>2. CASE GiveUp(t) \/ Commit(t) \/ LateFailure(t)
  BY <1>0, <1>2 DEF GiveUp, Commit, LateFailure, Becomes, Statuses
<1>3. CASE Identify(t)
  <2>2. Base(t) \in Nat
    BY <1>3, BaseIs
  <2>3. CASE Base(t) + nodeAttempt[t] <= MaxAttempt
    <3>1. Base(t) + nodeAttempt[t] \in 0..MaxAttempt
      BY <2>2, <2>3
    <3> QED BY <1>0, <1>3, <2>2, <2>3, <3>1 DEF Identify, Phases
  <2>4. CASE ~ (Base(t) + nodeAttempt[t] <= MaxAttempt)
    BY <1>0, <1>3, <2>2, <2>4 DEF Identify, Leave, Phases, Statuses
  <2> QED BY <2>3, <2>4
<1>4. CASE RecordDecision(t)
  BY <1>0, <1>4 DEF RecordDecision, Phases
<1>5. CASE RecorderRaises(t) \/ Deny(t) \/ Interrupt(t) \/ Abort(t) \/ ReturnResult(t)
  BY <1>0, <1>5 DEF RecorderRaises, Deny, Interrupt, Abort, ReturnResult, PopBase, Leave, Phases, Statuses
<1>6. CASE ActionEnds(t)
  BY <1>0, <1>6 DEF ActionEnds, Phases
<1>7. CASE ObserveFailure(t) \/ ObserveSuccess(t)
  BY <1>0, <1>7 DEF ObserveFailure, ObserveSuccess, Leave, Phases, Statuses
<1> QED BY <1>1, <1>2, <1>3, <1>4, <1>5, <1>6, <1>7 DEF TaskNext, LangGraph, Node

\* Where an invocation is, and the attempt it was given, after each step.
LEMMA PhaseStep ==
  ASSUME NEW t \in Tasks, TaskNext(t), TypeInv, TaskInv(t), TypeInv'
  PROVE  PhaseInv(t)'
<1> USE DEF TaskInv, CacheKey, NoBase
<1>0. /\ t \in DOMAIN status /\ t \in DOMAIN nodeAttempt /\ t \in DOMAIN bases /\ t \in DOMAIN pc
      /\ t \in DOMAIN attempt /\ nodeAttempt[t] \in Nat /\ bases[t] \in Nat \cup {NoBase}
      /\ status[t] \in Statuses /\ pc[t] \in Phases
  BY DEF TypeInv
<1>1. CASE Schedule(t)
  BY <1>0, <1>1 DEF Schedule, Invoke, PhaseInv
<1>2. CASE Retry(t)
  BY <1>0, <1>2 DEF Retry, Invoke, PhaseInv
<1>3. CASE GiveUp(t) \/ Commit(t) \/ LateFailure(t)
  BY <1>0, <1>3 DEF GiveUp, Commit, LateFailure, Becomes, PhaseInv
<1>4. CASE Identify(t)
  <2>1. bases'[t] = Base(t) /\ Base(t) \in Nat /\ nodeAttempt[t] >= 1
    BY <1>0, <1>4, BaseIs DEF Identify, PhaseInv
  <2>2. CASE Base(t) + nodeAttempt[t] <= MaxAttempt
    BY <1>0, <1>4, <2>1, <2>2 DEF Identify, PhaseInv
  <2>3. CASE ~ (Base(t) + nodeAttempt[t] <= MaxAttempt)
    BY <1>0, <1>4, <2>1, <2>3 DEF Identify, Leave, PhaseInv
  <2> QED BY <2>2, <2>3
<1>5. CASE RecordDecision(t)
  BY <1>0, <1>5 DEF RecordDecision, PhaseInv
<1>6. CASE RecorderRaises(t)
  BY <1>0, <1>6 DEF RecorderRaises, Leave, PhaseInv
<1>7. CASE Deny(t) \/ Interrupt(t) \/ Abort(t) \/ ReturnResult(t)
  BY <1>0, <1>7 DEF Deny, Interrupt, Abort, ReturnResult, PopBase, Leave, PhaseInv
<1>8. CASE ActionEnds(t)
  BY <1>0, <1>8 DEF ActionEnds, PhaseInv
<1>9. CASE ObserveFailure(t)
  BY <1>0, <1>9 DEF ObserveFailure, Leave, PhaseInv
<1>10. CASE ObserveSuccess(t)
  BY <1>0, <1>10 DEF ObserveSuccess, PhaseInv
<1> QED BY <1>1, <1>2, <1>3, <1>4, <1>5, <1>6, <1>7, <1>8, <1>9, <1>10 DEF TaskNext, LangGraph, Node

\* No step records above the attempt in hand, nor leaves an offset below what is recorded.
LEMMA OffsetStep ==
  ASSUME NEW t \in Tasks, TaskNext(t), TypeInv, TaskInv(t), TypeInv'
  PROVE  OffsetInv(t)'
<1> USE DEF TaskInv, CacheKey, NoBase
<1>0. /\ t \in DOMAIN status /\ t \in DOMAIN nodeAttempt /\ t \in DOMAIN bases /\ t \in DOMAIN pc
      /\ t \in DOMAIN attempt /\ nodeAttempt[t] \in Nat /\ bases[t] \in Nat \cup {NoBase} /\ attempt[t] \in 0..MaxAttempt
      /\ status[t] \in Statuses /\ pc[t] \in Phases /\ log \in Seq(RecordedEvent) /\ MaxAttempt \in Nat
  BY OccurrenceAssumption DEF TypeInv
<1>a. \A e \in EventsOf(log, t) : e.attempt \in 1..MaxAttempt
  BY <1>0, EventsIndex, RecordedFields
<1>b. ASSUME UpTo(log, t, attempt[t] - 1) PROVE UpTo(log, t, attempt[t])
  BY <1>0, <1>a, <1>b DEF UpTo
<1>1. CASE Schedule(t)
  BY <1>0, <1>1 DEF Schedule, Invoke, OffsetInv
<1>2. CASE Retry(t)
  <2>1. bases[t] # NoBase => UpTo(log, t, bases[t] + (nodeAttempt[t] + 1) - 1)
    <3>1. bases[t] # NoBase => bases[t] + (nodeAttempt[t] + 1) - 1 = bases[t] + nodeAttempt[t]
      BY <1>0
    <3> QED BY <1>2, <3>1 DEF Retry, OffsetInv
  <2> QED BY <1>0, <1>2, <2>1 DEF Retry, Invoke, OffsetInv
<1>3. CASE GiveUp(t) \/ Commit(t) \/ LateFailure(t)
  BY <1>0, <1>3 DEF GiveUp, Commit, LateFailure, Becomes, OffsetInv, PhaseInv
<1>4. CASE Identify(t)
  <2>1. Base(t) \in Nat /\ bases'[t] = Base(t) /\ UpTo(log, t, Base(t) + nodeAttempt[t] - 1)
    BY <1>4, BaseIs
  <2>2. CASE Base(t) + nodeAttempt[t] <= MaxAttempt
    BY <1>0, <1>4, <2>1, <2>2 DEF Identify, OffsetInv, PhaseInv
  <2>3. CASE ~ (Base(t) + nodeAttempt[t] <= MaxAttempt)
    <3>1. UpTo(log, t, Base(t) + nodeAttempt[t])
      BY <1>0, <1>a, <2>1, <2>3 DEF UpTo
    <3> QED BY <1>0, <1>4, <2>1, <2>3, <3>1 DEF Identify, Leave, OffsetInv, PhaseInv
  <2> QED BY <2>2, <2>3
<1>5. CASE RecordDecision(t)
  <2>1. EventsOf(log', t) = EventsOf(log, t) \cup {Recorded(t, type) : type \in DecisionTypes}
    BY <1>5, DecisionEvents DEF RecordDecision, PhaseInv
  <2>2. UpTo(log, t, attempt[t])
    BY <1>5, <1>b DEF RecordDecision, OffsetInv
  <2>3. UpTo(log', t, attempt[t])
    BY <1>0, <2>1, <2>2 DEF UpTo, Recorded
  <2> QED BY <1>0, <1>5, <2>3 DEF RecordDecision, OffsetInv, PhaseInv
<1>6. CASE RecorderRaises(t)
  <2>1. UpTo(log, t, bases[t] + nodeAttempt[t])
    BY <1>6, <1>b DEF RecorderRaises, OffsetInv, PhaseInv
  <2> QED BY <1>0, <1>6, <2>1 DEF RecorderRaises, Leave, OffsetInv
<1>7. CASE Deny(t) \/ Interrupt(t) \/ Abort(t) \/ ReturnResult(t)
  BY <1>0, <1>7 DEF Deny, Interrupt, Abort, ReturnResult, PopBase, Leave, OffsetInv
<1>8. CASE ActionEnds(t)
  BY <1>0, <1>8 DEF ActionEnds, OffsetInv, PhaseInv
<1>9. CASE ObserveFailure(t) \/ ObserveSuccess(t)
  <2>1. PICK type \in {"runtime_failed", "agent_invoked"} : log' = Append(log, Recorded(t, type))
    BY <1>9 DEF ObserveFailure, ObserveSuccess
  <2>2. /\ attempt[t] >= 1 /\ UpTo(log, t, attempt[t]) /\ attempt[t] = bases[t] + nodeAttempt[t]
        /\ type \in RecordedTypes
    BY <1>9 DEF ObserveFailure, ObserveSuccess, PhaseInv, OffsetInv, RecordedTypes
  <2>3. EventsOf(log', t) = EventsOf(log, t) \cup {Recorded(t, type)}
    <3>1. Recorded(t, type) \in RecordedEvent /\ Recorded(t, type).occurrence = t
      BY <2>2, RecordedTyped DEF Recorded
    <3> QED BY <1>0, <2>1, <3>1, AppendEvents
  <2>4. UpTo(log', t, attempt[t])
    BY <1>0, <2>2, <2>3 DEF UpTo, Recorded
  <2>5. CASE ObserveFailure(t)
    BY <1>0, <2>2, <2>4, <2>5 DEF ObserveFailure, Leave, OffsetInv
  <2>6. CASE ObserveSuccess(t)
    BY <1>0, <2>4, <2>6 DEF ObserveSuccess, OffsetInv, PhaseInv
  <2> QED BY <1>9, <2>5, <2>6
<1> QED BY <1>1, <1>2, <1>3, <1>4, <1>5, <1>6, <1>7, <1>8, <1>9 DEF TaskNext, LangGraph, Node

\* An action begins with its allowance, and nothing concludes the attempt while it runs.
LEMMA AllowanceStep ==
  ASSUME NEW t \in Tasks, TaskNext(t), TypeInv, TaskInv(t), TypeInv'
  PROVE  AllowanceInv(t)'
<1> USE DEF TaskInv
<1>0. /\ t \in DOMAIN status /\ t \in DOMAIN pc /\ attempt[t] \in 0..MaxAttempt /\ log \in Seq(RecordedEvent)
      /\ MaxAttempt \in Nat
  BY OccurrenceAssumption DEF TypeInv
<1>1. CASE RecordDecision(t) /\ verdict = "allow"
  <2>1. EventsOf(log', t) = EventsOf(log, t)
          \cup {Recorded(t, type) : type \in {"capability_requested", "capability_allowed"}}
    BY <1>1, DecisionEvents DEF RecordDecision, PhaseInv, DecisionTypes
  <2>2. \A e \in EventsOf(log, t) : e.attempt # attempt[t]
    <3>1. UpTo(log, t, attempt[t] - 1)
      BY <1>1 DEF RecordDecision, OffsetInv
    <3> QED BY <1>0, <3>1, EventsIndex, RecordedFields DEF UpTo
  <2>3. UNCHANGED attempt
    BY <1>1 DEF RecordDecision
  <2>4. \A e \in EventsOf(log', t) : e.attempt = attempt[t] =>
          \E type \in {"capability_requested", "capability_allowed"} : e = Recorded(t, type)
    BY <2>1, <2>2
  <2>5. Recorded(t, "capability_allowed") \in EventsOf(log', t)
    BY <2>1
  <2>6. \A type : Recorded(t, type).attempt = attempt[t] /\ Recorded(t, type).type = type
    BY DEF Recorded
  <2> QED BY <2>3, <2>4, <2>5, <2>6 DEF AllowanceInv
<1>2. CASE ActionEnds(t)
  BY <1>0, <1>2 DEF ActionEnds, AllowanceInv
<1>3. CASE pc'[t] \notin {"acting", "failing", "succeeding"}
  BY <1>3 DEF AllowanceInv
<1>4. CASE (Becomes(t, "raised", "ready") \/ Becomes(t, "returned", "done") \/ Becomes(t, "returned", "raised"))
  BY <1>4 DEF Becomes, AllowanceInv
<1>5. CASE Schedule(t) \/ Retry(t) \/ Identify(t) \/ RecorderRaises(t) \/ Deny(t) \/ Interrupt(t) \/ Abort(t)
           \/ ObserveFailure(t) \/ ObserveSuccess(t) \/ ReturnResult(t)
  <2>1. pc'[t] \in {"entered", "identified", "idle", "succeeded"}
    BY <1>0, <1>5 DEF Schedule, Retry, Invoke, Identify, RecorderRaises, Deny, Interrupt, Abort, ObserveFailure,
                      ObserveSuccess, ReturnResult, Leave
  <2> QED BY <1>3, <2>1
<1>6. CASE RecordDecision(t) /\ verdict # "allow"
  BY <1>0, <1>3, <1>6 DEF RecordDecision
<1> QED BY <1>1, <1>2, <1>4, <1>5, <1>6 DEF TaskNext, LangGraph, Node, GiveUp, Commit, LateFailure

-----------------------------------------------------------------------------
(* As agreed: nothing is lost, late or raised by the recorder.             *)

\* What the three recording actions leave as the highest attempt of the task.
LEMMA HighestAfter ==
  ASSUME NEW t \in Tasks, TypeInv, TaskInv(t), log' \in Seq(RecordedEvent),
         (RecordDecision(t) /\ verdict # "malformed") \/ ObserveFailure(t) \/ ObserveSuccess(t)
  PROVE  HighestOf(log', t) = attempt[t]
<1>0. attempt[t] \in Nat /\ attempt[t] >= 1 /\ log \in Seq(RecordedEvent)
  BY OccurrenceAssumption DEF TypeInv, TaskInv, PhaseInv, RecordDecision, ObserveFailure, ObserveSuccess
<1>1. \A e \in EventsOf(log, t) : e.attempt \in Nat
  BY <1>0, EventsIndex, RecordedFields
<1>2. UpTo(log, t, attempt[t])
  BY <1>0, <1>1 DEF TaskInv, OffsetInv, RecordDecision, ObserveFailure, ObserveSuccess, UpTo
<1>3. \A type : Recorded(t, type).attempt = attempt[t] /\ Recorded(t, type).occurrence = t
  BY DEF Recorded
<1>4. PICK types \in SUBSET RecordedTypes :
        types # {} /\ EventsOf(log', t) = EventsOf(log, t) \cup {Recorded(t, type) : type \in types}
  <2>1. CASE RecordDecision(t) /\ verdict # "malformed"
    <3>1. DecisionTypes \subseteq RecordedTypes /\ DecisionTypes # {}
      BY <2>1 DEF DecisionTypes, RecordedTypes
    <3> QED BY <1>0, <2>1, <3>1, DecisionEvents
  <2>2. CASE ObserveFailure(t) \/ ObserveSuccess(t)
    <3>1. PICK type \in {"runtime_failed", "agent_invoked"} : log' = Append(log, Recorded(t, type))
      BY <2>2 DEF ObserveFailure, ObserveSuccess
    <3>2. type \in RecordedTypes
      BY DEF RecordedTypes
    <3>3. EventsOf(log', t) = EventsOf(log, t) \cup {Recorded(t, type)}
      BY <1>0, <1>3, <3>1, <3>2, RecordedTyped, AppendEvents
    <3>4. {Recorded(t, x) : x \in {type}} = {Recorded(t, type)}
      OBVIOUS
    <3> QED BY <3>2, <3>3, <3>4
  <2> QED BY <2>1, <2>2
<1>5. UpTo(log', t, attempt[t])
  BY <1>0, <1>2, <1>3, <1>4 DEF UpTo
<1>6. \E e \in EventsOf(log', t) : e.attempt = attempt[t]
  BY <1>3, <1>4
<1> QED BY <1>0, <1>5, <1>6, HighestUnique

\* Under the contract a step of a task keeps the stream free of gaps and of
\* attempts after a success.
LEMMA CountedStep ==
  ASSUME NEW t \in Tasks, TaskNext(t), TypeInv, TypeInv', TaskInv(t), AsAgreed, AgreedInv
  PROVE  ~ AttemptGap(log') /\ ~ AttemptAfterSuccess(log')
<1> USE DEF TaskInv
<1>0. /\ attempt[t] \in Nat /\ log \in Seq(RecordedEvent)
      /\ ~ AttemptGap(log) /\ ~ AttemptAfterSuccess(log)
      /\ SuccessInv(t) /\ (verdict # "malformed" => CountInv(t))
      /\ HighestOf(log, t) \in Nat
  BY OccurrenceAssumption, HighestIs DEF TypeInv, AgreedInv
<1>1. CASE RecordDecision(t)
  <2> DEFINE R(type) == Recorded(t, type)
             q == "capability_requested"
  <2>1. /\ attempt[t] >= 1 /\ ~ Concluded(log, t)
        /\ verdict # "malformed" => attempt[t] = HighestOf(log, t) + 1
    BY <1>0, <1>1 DEF RecordDecision, PhaseInv, SuccessInv, CountInv
  <2>2. \A x \in RecordedTypes :
          R(x) \in RecordedEvent /\ R(x).occurrence = t /\ R(x).attempt = attempt[t] /\ R(x).type = x
    BY <2>1, RecordedTyped DEF Recorded
  <2>3. {q, "capability_denied", "capability_allowed", "policy_violation"} \subseteq RecordedTypes
    BY DEF RecordedTypes
  <2> HIDE DEF R
  <2>4. ASSUME verdict # "malformed", NEW x \in RecordedTypes
        PROVE  ~ AttemptGap(Append(log, R(x))) /\ ~ AttemptAfterSuccess(Append(log, R(x)))
    <3>1. R(x).attempt <= HighestOf(log, R(x).occurrence) + 1
      BY <1>0, <2>1, <2>2, <2>4
    <3> QED BY <1>0, <2>1, <2>2, <3>1, AppendAgreed
  <2>5. ASSUME verdict # "malformed", NEW y \in {"capability_denied", "capability_allowed"}
        PROVE  /\ ~ AttemptGap(Append(Append(log, R(q)), R(y)))
               /\ ~ AttemptAfterSuccess(Append(Append(log, R(q)), R(y)))
    <3> DEFINE first == Append(log, R(q))
    <3>1. first \in Seq(RecordedEvent) /\ EventsOf(first, t) = EventsOf(log, t) \cup {R(q)}
      BY <1>0, <2>2, <2>3, AppendEvents
    <3>2. ~ AttemptGap(first) /\ ~ AttemptAfterSuccess(first)
      BY <2>3, <2>4, <2>5
    <3> HIDE DEF first
    <3>3. attempt[t] <= HighestOf(first, t)
      BY <2>2, <2>3, <3>1, HighestIs DEF UpTo
    <3>4. ~ Concluded(first, t)
      BY <2>1, <2>2, <2>3, <3>1 DEF Concluded
    <3>5. HighestOf(first, t) \in Nat
      BY <3>1, HighestIs
    <3>6. R(y) \in RecordedEvent /\ R(y).occurrence = t /\ R(y).attempt <= HighestOf(first, t) + 1
      BY <1>0, <2>2, <2>3, <3>3, <3>5
    <3>7. ~ AttemptGap(Append(first, R(y))) /\ ~ AttemptAfterSuccess(Append(first, R(y)))
      BY <3>1, <3>2, <3>4, <3>6, AppendAgreed
    <3> QED BY <3>7 DEF first
  <2> QED BY <1>0, <1>1, <2>3, <2>4, <2>5, DecisionMoves DEF R
<1>2. CASE ObserveFailure(t) \/ ObserveSuccess(t)
  <2>1. PICK type \in {"runtime_failed", "agent_invoked"} : log' = Append(log, Recorded(t, type))
    BY <1>2 DEF ObserveFailure, ObserveSuccess
  <2>2. pc[t] \in {"failing", "succeeding"} /\ type \in RecordedTypes
    BY <1>2 DEF ObserveFailure, ObserveSuccess, RecordedTypes
  <2>3. attempt[t] >= 1 /\ attempt[t] = HighestOf(log, t) /\ ~ Concluded(log, t)
    BY <1>0, <2>2 DEF PhaseInv, SuccessInv, CountInv
  <2>4. /\ Recorded(t, type) \in RecordedEvent /\ Recorded(t, type).occurrence = t
        /\ Recorded(t, type).attempt <= HighestOf(log, t) + 1
    BY <1>0, <2>2, <2>3, RecordedTyped DEF Recorded
  <2> QED BY <1>0, <2>1, <2>3, <2>4, AppendAgreed
<1>3. CASE log' = log
  BY <1>0, <1>3
<1> QED BY <1>1, <1>2, <1>3, Records

\* As agreed, a task whose success is recorded never comes back to the node.
LEMMA SuccessStep ==
  ASSUME NEW t \in Tasks, TaskNext(t), TypeInv, TypeInv', TaskInv(t), AsAgreed, SuccessInv(t)
  PROVE  SuccessInv(t)'
<1> USE DEF TaskInv
<1>0. /\ t \in DOMAIN status /\ t \in DOMAIN pc /\ log \in Seq(RecordedEvent) /\ UNCHANGED saved
  BY OnlyItsOwnTask DEF TypeInv
<1>1. CASE RecordDecision(t) \/ ObserveFailure(t)
  <2>1. ~ Concluded(log, t) /\ attempt[t] >= 1
    BY <1>1 DEF RecordDecision, ObserveFailure, PhaseInv, SuccessInv
  <2>2. EventsOf(log', t) \subseteq EventsOf(log, t) \cup {Recorded(t, type) : type \in RecordedTypes \ {"agent_invoked"}}
    <3>1. CASE RecordDecision(t)
      BY <2>1, <3>1, DecisionEvents DEF DecisionTypes, RecordedTypes
    <3>2. CASE ObserveFailure(t)
      <4>1. log' = Append(log, Recorded(t, "runtime_failed")) /\ "runtime_failed" \in RecordedTypes \ {"agent_invoked"}
        BY <3>2 DEF ObserveFailure, RecordedTypes
      <4>2. Recorded(t, "runtime_failed") \in RecordedEvent /\ Recorded(t, "runtime_failed").occurrence = t
        BY <2>1, <4>1, RecordedTyped DEF Recorded
      <4> QED BY <1>0, <4>1, <4>2, AppendEvents
    <3> QED BY <1>1, <3>1, <3>2
  <2>3. \A type : Recorded(t, type).type = type
    BY DEF Recorded
  <2>4. ~ Concluded(log', t)
    BY <2>1, <2>2, <2>3 DEF Concluded
  <2> QED BY <1>0, <2>4 DEF SuccessInv
<1>2. CASE ObserveSuccess(t)
  BY <1>0, <1>2 DEF ObserveSuccess, SuccessInv
<1>3. CASE Commit(t) \/ ReturnResult(t)
  BY <1>0, <1>3 DEF Commit, Becomes, ReturnResult, Leave, SuccessInv
<1>4. CASE Schedule(t) \/ Retry(t) \/ GiveUp(t) \/ Identify(t) \/ Deny(t) \/ Interrupt(t) \/ Abort(t) \/ ActionEnds(t)
  <2>1. log' = log
    BY <1>4 DEF Schedule, Retry, Invoke, GiveUp, Becomes, Identify, Deny, Interrupt, Abort, ActionEnds
  <2>2. ~ Concluded(log, t)
    BY <1>4 DEF Schedule, Retry, GiveUp, Becomes, Identify, Deny, Interrupt, Abort, ActionEnds, SuccessInv, PhaseInv
  <2> QED BY <1>0, <2>1, <2>2 DEF SuccessInv
<1>5. ~ LateFailure(t) /\ ~ RecorderRaises(t)
  BY DEF AsAgreed, LateFailure, RecorderRaises
<1> QED BY <1>1, <1>2, <1>3, <1>4, <1>5 DEF TaskNext, LangGraph, Node

\* As agreed, each attempt is the next: retries count on from the cached offset, new invocations from the stream.
LEMMA CountStep ==
  ASSUME NEW t \in Tasks, TaskNext(t), TypeInv, TypeInv', TaskInv(t), AsAgreed, verdict # "malformed", CountInv(t)
  PROVE  CountInv(t)'
<1> USE DEF TaskInv, CacheKey, NoBase
<1>0. /\ t \in DOMAIN status /\ t \in DOMAIN nodeAttempt /\ t \in DOMAIN bases /\ t \in DOMAIN pc
      /\ t \in DOMAIN attempt /\ nodeAttempt[t] \in Nat /\ bases[t] \in Nat \cup {NoBase} /\ attempt[t] \in Nat
      /\ status[t] \in Statuses /\ pc[t] \in Phases /\ log \in Seq(RecordedEvent) /\ MaxAttempt \in Nat
      /\ HighestOf(log, t) \in 0..MaxAttempt /\ log' \in Seq(RecordedEvent)
  BY OccurrenceAssumption, HighestIs DEF TypeInv
<1> DEFINE H == HighestOf(log, t)
<1>1. CASE Schedule(t)
  BY <1>0, <1>1 DEF Schedule, Invoke, CountInv
<1>2. CASE Retry(t)
  <2>1. /\ nodeAttempt'[t] = nodeAttempt[t] + 1 /\ bases'[t] = bases[t] /\ log' = log
        /\ pc'[t] = "entered" /\ status'[t] = "running" /\ status[t] = "raised"
    BY <1>0, <1>2 DEF Retry, Invoke
  <2>2. CASE bases[t] # NoBase
    <3>1. NextIs(t, bases[t] + nodeAttempt[t] + 1)
      BY <2>1, <2>2 DEF CountInv
    <3>2. bases[t] + nodeAttempt[t] + 1 = bases[t] + (nodeAttempt[t] + 1)
      BY <1>0, <2>2
    <3> DEFINE next == bases'[t] + nodeAttempt'[t]
    <3>3. next = bases[t] + nodeAttempt[t] + 1
      BY <2>1, <3>2
    <3>4. next = HighestOf(log', t) + 1 \/ next > MaxAttempt
      BY <2>1, <3>1, <3>3 DEF NextIs
    <3>5. bases'[t] # NoBase
      BY <2>1, <2>2
    <3>6. NextIs(t, bases[t] + nodeAttempt[t])'
      BY <3>4 DEF NextIs
    <3> QED BY <2>1, <3>5, <3>6 DEF CountInv
  <2>3. CASE bases[t] = NoBase
    <3>1. H >= nodeAttempt[t]
      BY <2>1, <2>3 DEF CountInv
    <3>2. (HighestOf(log, t) >= nodeAttempt[t] - 1)'
      BY <1>0, <2>1, <3>1
    <3>3. bases'[t] = NoBase
      BY <2>1, <2>3
    <3> QED BY <2>1, <3>2, <3>3 DEF CountInv
  <2> QED BY <2>2, <2>3
<1>3. CASE GiveUp(t) \/ Commit(t)
  BY <1>0, <1>3 DEF GiveUp, Commit, Becomes, CountInv, NextIs, PhaseInv
<1>4. CASE Identify(t)
  <2> DEFINE n == nodeAttempt[t]
  <2>1. /\ Base(t) \in Nat /\ bases'[t] = Base(t) /\ n >= 1
        /\ n = 1 => Base(t) = H
        /\ n > 1 /\ bases[t] # NoBase => Base(t) = bases[t]
        /\ n > 1 /\ bases[t] = NoBase => Base(t) = IF H >= n - 1 THEN H - (n - 1) ELSE 0
    BY <1>4, BaseIs DEF Identify, PhaseInv
  <2>2. Base(t) + n = H + 1 \/ Base(t) + n > MaxAttempt
    BY <1>0, <1>4, <2>1 DEF Identify, CountInv, NextIs
  <2>3. log' = log
    BY <1>4 DEF Identify
  <2>4. CASE Base(t) + n <= MaxAttempt
    BY <1>0, <1>4, <2>1, <2>2, <2>3, <2>4 DEF Identify, CountInv, PhaseInv
  <2>5. CASE ~ (Base(t) + n <= MaxAttempt)
    BY <1>0, <1>4, <2>1, <2>3, <2>5 DEF Identify, Leave, CountInv, NextIs
  <2> QED BY <2>4, <2>5
<1>5. CASE RecordDecision(t)
  <2>1. HighestOf(log', t) = attempt[t]
    BY <1>0, <1>5, HighestAfter
  <2> QED BY <1>0, <1>5, <2>1 DEF RecordDecision, CountInv, PhaseInv
<1>6. CASE Deny(t)
  <2>1. H >= nodeAttempt[t]
    BY <1>0, <1>6 DEF Deny, PhaseInv, CountInv
  <2> QED BY <1>0, <1>6, <2>1 DEF Deny, PopBase, Leave, CountInv
<1>7. CASE Interrupt(t) \/ Abort(t) \/ ReturnResult(t)
  BY <1>0, <1>7 DEF Interrupt, Abort, ReturnResult, PopBase, Leave, CountInv
<1>8. CASE ActionEnds(t)
  BY <1>0, <1>8 DEF ActionEnds, CountInv, PhaseInv
<1>9. CASE ObserveFailure(t)
  <2>1. HighestOf(log', t) = attempt[t]
    BY <1>0, <1>9, HighestAfter
  <2>2. attempt[t] = bases[t] + nodeAttempt[t] /\ bases[t] # NoBase
    BY <1>0, <1>9 DEF ObserveFailure, PhaseInv
  <2> QED BY <1>0, <1>9, <2>1, <2>2 DEF ObserveFailure, Leave, CountInv, NextIs
<1>10. CASE ObserveSuccess(t)
  <2>1. HighestOf(log', t) = attempt[t]
    BY <1>0, <1>10, HighestAfter
  <2> QED BY <1>0, <1>10, <2>1 DEF ObserveSuccess, CountInv, PhaseInv
<1>11. ~ LateFailure(t) /\ ~ RecorderRaises(t)
  BY DEF AsAgreed, LateFailure, RecorderRaises
<1> QED BY <1>1, <1>2, <1>3, <1>4, <1>5, <1>6, <1>7, <1>8, <1>9, <1>10, <1>11 DEF TaskNext, LangGraph, Node

-----------------------------------------------------------------------------
(* The invariant is inductive.                                             *)

\* An empty stream breaks no rule.
LEMMA EmptyStream ==
  /\ << >> \in Seq(RecordedEvent) /\ StreamInv(<< >>) /\ ~ AttemptGap(<< >>) /\ ~ AttemptAfterSuccess(<< >>)
  /\ \A t \in Tasks : EventsOf(<< >>, t) = {}
  BY DEF StreamInv, NoClash, AttemptOrderInvalid, AttemptGap, AttemptAfterSuccess, EventsOf

\* A task that is ready or done, outside the node, promises nothing.
LEMMA Resting ==
  ASSUME NEW t \in Tasks, pc[t] = "idle", status[t] \in {"ready", "done"}
  PROVE  TaskInv(t) /\ CountInv(t)
  BY DEF TaskInv, PhaseInv, OffsetInv, AllowanceInv, CountInv

\* The invariant holds when the first graph invocation is about to start.
THEOREM InitIInv == Init => IInv
<1> SUFFICES ASSUME Init PROVE IInv
  OBVIOUS
<1>1. TypeInv
  BY EmptyStream, OccurrenceAssumption DEF Init, TypeInv, Statuses, Phases, NoBase
<1>2. \A t \in Tasks : TaskInv(t) /\ CountInv(t)
  BY Resting DEF Init
<1>3. \A t \in Tasks : SuccessInv(t)
  BY EmptyStream DEF Init, SuccessInv, Concluded
<1>4. log = << >> /\ saved.log = << >>
  BY DEF Init
<1> QED BY <1>1, <1>2, <1>3, <1>4, EmptyStream DEF IInv, AgreedInv

\* Every step of a task, in or around the node, keeps the invariant.
LEMMA TaskStep ==
  ASSUME NEW t \in Tasks, TaskNext(t), IInv
  PROVE  IInv'
<1>1. TypeInv /\ StreamInv(log) /\ StreamInv(saved.log) /\ \A u \in Tasks : TaskInv(u)
  BY DEF IInv
<1>2. TypeInv'
  BY <1>1, TypeStep
<1>3. \A u \in Tasks \ {t} : Frame(u)
  BY <1>1, OnlyItsOwnTask DEF TaskInv
<1>4. UNCHANGED <<environment, verdict, saved>> /\ log' \in Seq(RecordedEvent)
  BY <1>1, OnlyItsOwnTask DEF TaskInv
<1>5. StreamInv(log') /\ StreamInv(saved'.log)
  BY <1>1, <1>4, StreamStep
<1>6. ASSUME NEW u \in Tasks PROVE TaskInv(u)'
  <2>1. CASE u = t
    BY <1>1, <1>2, <2>1, PhaseStep, OffsetStep, AllowanceStep DEF TaskInv
  <2>2. CASE u # t
    BY <1>1, <1>3, <1>4, <2>2, FrameKeeps
  <2> QED BY <2>1, <2>2
<1>7. ASSUME AsAgreed' PROVE AgreedInv'
  <2>1. AsAgreed /\ AgreedInv
    BY <1>4, <1>7 DEF AsAgreed, IInv
  <2>2. (~ AttemptGap(log) /\ ~ AttemptAfterSuccess(log))'
    BY <1>1, <1>2, <2>1, CountedStep
  <2>3. ASSUME NEW u \in Tasks PROVE SuccessInv(u)'
    <3>1. CASE u = t
      BY <1>1, <1>2, <2>1, <3>1, SuccessStep DEF AgreedInv
    <3>2. CASE u # t
      BY <1>1, <1>3, <1>4, <2>1, <3>2, FrameKeeps DEF AgreedInv
    <3> QED BY <3>1, <3>2
  <2>4. ASSUME NEW u \in Tasks, verdict' # "malformed" PROVE CountInv(u)'
    <3>1. verdict # "malformed" /\ CountInv(u) /\ CountInv(t)
      BY <1>4, <2>1, <2>4 DEF AgreedInv
    <3>2. CASE u = t
      BY <1>1, <1>2, <2>1, <3>1, <3>2, CountStep
    <3>3. CASE u # t
      BY <1>1, <1>3, <1>4, <3>1, <3>3, FrameKeeps
    <3> QED BY <3>2, <3>3
  <2> QED BY <2>2, <2>3, <2>4 DEF AgreedInv
<1> QED BY <1>2, <1>5, <1>6, <1>7 DEF IInv

\* Saving stream and checkpoint keeps the invariant: as agreed, no run is under way.
LEMMA SaveStep ==
  ASSUME Save, IInv
  PROVE  IInv'
<1>1. /\ UNCHANGED <<framework, verdict, bases, pc, attempt, log>>
      /\ saved' = [log |-> log, done |-> {t \in Tasks : status[t] = "done"}]
  BY DEF Save
<1>2. TypeInv'
  BY <1>1 DEF IInv, TypeInv
<1>3. StreamInv(log') /\ StreamInv(saved'.log)
  BY <1>1 DEF IInv
<1>4. ASSUME NEW t \in Tasks PROVE TaskInv(t)'
  <2>1. TaskInv(t)
    BY DEF IInv
  <2> QED BY <1>1, <2>1 DEF TaskInv, PhaseInv, OffsetInv, AllowanceInv
<1>5. ASSUME AsAgreed' PROVE AgreedInv'
  <2>1. AsAgreed /\ AgreedInv
    BY <1>1, <1>5 DEF AsAgreed, IInv
  <2>2. \A t \in Tasks : status[t] \in {"ready", "done"}
    BY <2>1 DEF Save, AsAgreed
  <2>3. ASSUME NEW t \in Tasks PROVE SuccessInv(t)'
    <3>1. Concluded(log, t) => status[t] = "done"
      <4>1. pc[t] # "succeeded"
        BY <2>2 DEF IInv, TaskInv, PhaseInv
      <4> QED BY <2>1, <2>2, <4>1 DEF AgreedInv, SuccessInv
    <3> QED BY <1>1, <3>1 DEF SuccessInv
  <2>4. ASSUME NEW t \in Tasks, CountInv(t) PROVE CountInv(t)'
    BY <1>1, <2>4 DEF CountInv, NextIs
  <2> QED BY <1>1, <2>1, <2>3, <2>4 DEF AgreedInv
<1> QED BY <1>2, <1>3, <1>4, <1>5 DEF IInv

\* A restart from what was saved keeps the invariant.
LEMMA CrashStep ==
  ASSUME Crash, IInv
  PROVE  IInv'
<1>1. /\ log' = saved.log /\ saved' = saved /\ environment' = environment /\ verdict' \in Verdicts
      /\ status' = [t \in Tasks |-> IF t \in saved.done THEN "done" ELSE "ready"]
      /\ pc' = [t \in Tasks |-> "idle"]
  BY DEF Crash
<1>2. saved.log \in Seq(RecordedEvent) /\ StreamInv(saved.log)
  BY DEF IInv, TypeInv
<1>3. TypeInv'
  BY <1>1, <1>2, OccurrenceAssumption DEF Crash, IInv, TypeInv, Statuses, Phases, NoBase
<1>4. ASSUME NEW t \in Tasks PROVE (TaskInv(t) /\ CountInv(t))'
  <2>1. pc'[t] = "idle" /\ status'[t] \in {"ready", "done"}
    BY <1>1
  <2> QED BY <2>1 DEF TaskInv, PhaseInv, OffsetInv, AllowanceInv, CountInv
<1>5. ASSUME AsAgreed' PROVE AgreedInv'
  <2>1. AgreedInv
    BY <1>1, <1>5 DEF AsAgreed, IInv
  <2>2. ~ AttemptGap(saved.log) /\ ~ AttemptAfterSuccess(saved.log)
    BY <1>2, StreamDiagnostics DEF Crash
  <2>3. ASSUME NEW t \in Tasks PROVE SuccessInv(t)'
    BY <1>1, <2>1 DEF AgreedInv, SuccessInv
  <2> QED BY <1>1, <1>4, <2>2, <2>3 DEF AgreedInv
<1> QED BY <1>1, <1>2, <1>3, <1>4, <1>5 DEF IInv

\* Every step of tasks and host keeps the invariant.
THEOREM NextIInv == IInv /\ [Next]_vars => IInv'
<1> SUFFICES ASSUME IInv, [Next]_vars PROVE IInv'
  OBVIOUS
<1>1. ASSUME NEW t \in Tasks, TaskNext(t) PROVE IInv'
  BY <1>1, TaskStep
<1>2. CASE Save
  BY <1>2, SaveStep
<1>3. CASE Crash
  BY <1>3, CrashStep
<1>4. CASE UNCHANGED vars
  BY <1>4 DEF vars, IInv, TypeInv, StreamInv, TaskInv, PhaseInv, OffsetInv, AllowanceInv, AsAgreed, AgreedInv,
              SuccessInv, CountInv, NextIs
<1> QED BY <1>1, <1>2, <1>3, <1>4 DEF Next, TaskNext

\* The invariant holds in every reachable state.
THEOREM AdapterInvariant == Spec => []IInv
BY InitIInv, NextIInv, PTL DEF Spec

\* Under the contract the stream passes the validator's rules at any moment.
THEOREM StreamsAreValid == Spec => []StreamValid
<1>1. IInv => StreamValid
  BY StreamDiagnostics DEF IInv, TypeInv, AgreedInv, StreamValid
<1> QED BY <1>1, AdapterInvariant, PTL

\* The attempt in hand is the successor of the last recorded one.
THEOREM AttemptsAreNext == Spec => []AttemptIsNext
<1>1. IInv => AttemptIsNext
  BY HighestIsRecorded DEF IInv, AgreedInv, CountInv, AttemptIsNext
<1> QED BY <1>1, AdapterInvariant, PTL

\* Whatever fails, attempts are neither reused nor reordered nor decided twice.
THEOREM FaultsAreContained == Spec => []FaultsStayContained
<1>1. IInv => FaultsStayContained
  BY StreamDiagnostics DEF IInv, TypeInv, FaultsStayContained
<1> QED BY <1>1, AdapterInvariant, PTL

\* An action runs under exactly one allowance of its own attempt, and before anything
\* concluded that attempt.
THEOREM RunsUnderItsAllowance == Spec => []RunsUnderOwnAllowance
<1>1. ASSUME IInv, NEW t \in Tasks, pc[t] \in {"acting", "failing", "succeeding"}
      PROVE  LET own == {i \in DOMAIN log : log[i].occurrence = t /\ log[i].attempt = attempt[t]}
             IN  /\ Cardinality({i \in own : log[i].type = "capability_allowed"}) = 1
                 /\ \A i \in own : log[i].type \notin Terminals
  <2> DEFINE own == {i \in DOMAIN log : log[i].occurrence = t /\ log[i].attempt = attempt[t]}
             allowed == {i \in own : log[i].type = "capability_allowed"}
  <2>1. /\ \A e \in EventsOf(log, t) : e.attempt = attempt[t] => e.type \in {"capability_requested", "capability_allowed"}
        /\ \E e \in EventsOf(log, t) : e.attempt = attempt[t] /\ e.type = "capability_allowed"
    BY <1>1 DEF IInv, TaskInv, AllowanceInv
  <2>2. PICK i \in DOMAIN log : log[i].occurrence = t /\ log[i].attempt = attempt[t] /\ log[i].type = "capability_allowed"
    BY <2>1 DEF EventsOf
  <2>3. \A j \in allowed : j = i
    BY <1>1, <2>2 DEF IInv, StreamInv, NoClash, Clash, SameAttempt
  <2>4. allowed = {i}
    BY <2>2, <2>3
  <2>5. Cardinality(allowed) = 1
    BY <2>4, FS_Singleton
  <2>6. \A j \in own : log[j].type \notin Terminals
    BY <2>1 DEF EventsOf, Terminals, SuccessTerminals, FailureTerminals
  <2> QED BY <2>5, <2>6
<1>2. IInv => RunsUnderOwnAllowance
  BY <1>1 DEF RunsUnderOwnAllowance
<1> QED BY <1>2, AdapterInvariant, PTL

-----------------------------------------------------------------------------
(* The adapter implements OccurrenceLifecycle: what it records in an       *)
(* attempt is a beginning and at most one conclusion.                      *)

\* As agreed, what was saved is the record of the attempts below those at work.
SavedInv(t) ==
  /\ EventsOf(saved.log, t) = {e \in EventsOf(log, t) : e.attempt <= HighestOf(saved.log, t)}
  /\ pc[t] \notin {"idle", "entered", "identified"} => HighestOf(saved.log, t) < attempt[t]
RInv == IInv /\ (AsAgreed => \A t \in Tasks : SavedInv(t))

\* The events of one attempt, and the outcome of an attempt and of all attempts in a stream.
AttemptEvents(s, t, n) == {e \in EventsOf(s, t) : e.attempt = n}
OutcomeIn(s, t, n) ==
  LET types == {e.type : e \in AttemptEvents(s, t, n)}
  IN  CASE "agent_invoked" \in types -> "succeeded"
        [] "runtime_failed" \in types -> "failed"
        [] types \cap {"capability_denied", "policy_violation"} # {} -> "denied"
        [] OTHER -> "open"
HistoryIn(s, t) == [n \in 1..HighestOf(s, t) |-> OutcomeIn(s, t, n)]

Mapped == [t \in Tasks |-> IF AsAgreed THEN HistoryIn(log, t) ELSE << >>]

\* The refinement mapping, in these terms.
LEMMA MappedIs ==
  [t \in Tasks |-> IF AsAgreed THEN [n \in 1..Highest(t) |-> Outcome(t, n)] ELSE << >>] = Mapped
<1>1. ASSUME NEW t \in Tasks, NEW n PROVE Outcome(t, n) = OutcomeIn(log, t, n)
  <2> DEFINE types == {log[i].type : i \in {j \in DOMAIN log : log[j].occurrence = t /\ log[j].attempt = n}}
  <2>1. types = {e.type : e \in AttemptEvents(log, t, n)}
    BY DEF AttemptEvents, EventsOf
  <2> QED BY <2>1 DEF Outcome, OutcomeIn
<1> QED BY <1>1, HighestIsRecorded DEF Mapped, HistoryIn

\* The history of a task is a sequence of outcomes, one for each attempt.
LEMMA HistoryFields ==
  ASSUME NEW s \in Seq(RecordedEvent), NEW t \in Tasks
  PROVE  /\ HistoryIn(s, t) \in Seq(Lifecycle!Outcomes)
         /\ Len(HistoryIn(s, t)) = HighestOf(s, t)
         /\ \A n \in 1..HighestOf(s, t) : HistoryIn(s, t)[n] = OutcomeIn(s, t, n)
<1>1. HighestOf(s, t) \in Nat
  BY HighestIs
<1>2. \A n : OutcomeIn(s, t, n) \in Lifecycle!Outcomes
  BY DEF OutcomeIn, Lifecycle!Outcomes
<1>3. HistoryIn(s, t) \in [1..HighestOf(s, t) -> Lifecycle!Outcomes]
  BY <1>2 DEF HistoryIn
<1>4. HistoryIn(s, t) \in Seq(Lifecycle!Outcomes)
  BY <1>1, <1>3
<1>5. DOMAIN HistoryIn(s, t) = 1..HighestOf(s, t)
  BY DEF HistoryIn
<1> QED BY <1>1, <1>4, <1>5 DEF HistoryIn

\* An attempt keeps its outcome while it has the same events.
LEMMA SameOutcome ==
  ASSUME NEW s, NEW u, NEW t, NEW n, AttemptEvents(s, t, n) = AttemptEvents(u, t, n)
  PROVE  OutcomeIn(s, t, n) = OutcomeIn(u, t, n)
  BY DEF OutcomeIn

\* Sequences that grow by one member, change their last, or are cut.
LEMMA GrowsByOne ==
  ASSUME NEW S, NEW f \in Seq(S), NEW g \in Seq(S), Len(g) = Len(f) + 1, \A n \in 1..Len(f) : g[n] = f[n]
  PROVE  g = Append(f, g[Len(g)])
<1>1. Len(f) \in Nat /\ g[Len(g)] \in S
  OBVIOUS
<1>2. Append(f, g[Len(g)]) \in Seq(S) /\ Len(Append(f, g[Len(g)])) = Len(g)
  BY <1>1
<1>3. \A n \in 1..Len(g) : g[n] = Append(f, g[Len(g)])[n]
  BY <1>1
<1> QED BY <1>2, <1>3, SeqEqual

\* A sequence that differs in its last element alone replaces it.
LEMMA ChangesLast ==
  ASSUME NEW S, NEW f \in Seq(S), NEW g \in Seq(S), Len(g) = Len(f), Len(f) # 0,
         \A n \in 1..(Len(f) - 1) : g[n] = f[n]
  PROVE  g = Append(Front(f), g[Len(g)])
<1>1. Len(f) \in Nat \ {0} /\ \A n \in 1..Len(f) : f[n] \in S
  OBVIOUS
<1>2. /\ Front(f) \in Seq(S) /\ Len(Front(f)) = Len(f) - 1
      /\ \A n \in 1..(Len(f) - 1) : Front(f)[n] = f[n]
  <2>1. Front(f) = SubSeq(f, 1, Len(f) - 1)
    BY DEF Front
  <2> QED BY <1>1, <2>1, SubSeqProperties
<1>3. Len(g) = Len(Front(f)) + 1 /\ \A n \in 1..Len(Front(f)) : g[n] = Front(f)[n]
  BY <1>1, <1>2
<1> QED BY <1>2, <1>3, GrowsByOne

\* A sequence that agrees with another as far as it goes is a prefix of it.
LEMMA IsCut ==
  ASSUME NEW S, NEW f \in Seq(S), NEW g \in Seq(S), Len(g) <= Len(f), \A n \in 1..Len(g) : g[n] = f[n]
  PROVE  IsPrefix(g, f)
<1>1. SubSeq(g, 1, Len(g)) = g
  BY SubSeqFull
<1>2. Len(f) \in Nat /\ Len(g) \in Nat /\ \A n \in 1..Len(g) : f[n] \in S
  OBVIOUS
<1>3. /\ SubSeq(f, 1, Len(g)) \in Seq(S) /\ Len(SubSeq(f, 1, Len(g))) = Len(g)
      /\ \A n \in 1..Len(g) : SubSeq(f, 1, Len(g))[n] = f[n]
  BY <1>2, SubSeqProperties
<1>4. SubSeq(f, 1, Len(g)) = g
  BY <1>3, SeqEqual
<1> QED BY <1>1, <1>4 DEF IsPrefix

\* The types the three recording actions record.
StepTypes(t) ==
  IF pc[t] = "identified" THEN DecisionTypes
  ELSE IF pc[t] = "failing" THEN {"runtime_failed"} ELSE {"agent_invoked"}

\* What each recording step adds to the events of its task.
LEMMA RecordedEvents ==
  ASSUME NEW t \in Tasks, TypeInv, TaskInv(t), RecordDecision(t) \/ ObserveFailure(t) \/ ObserveSuccess(t)
  PROVE  /\ EventsOf(log', t) = EventsOf(log, t) \cup {Recorded(t, type) : type \in StepTypes(t)}
         /\ attempt[t] \in Nat /\ attempt[t] >= 1
         /\ \A type : Recorded(t, type).attempt = attempt[t] /\ Recorded(t, type).type = type
<1>0. attempt[t] \in Nat /\ attempt[t] >= 1 /\ log \in Seq(RecordedEvent)
  BY OccurrenceAssumption DEF TypeInv, TaskInv, PhaseInv, RecordDecision, ObserveFailure, ObserveSuccess
<1>1. CASE RecordDecision(t)
  <2>1. StepTypes(t) = DecisionTypes
    BY <1>1 DEF RecordDecision, StepTypes
  <2>2. EventsOf(log', t) = EventsOf(log, t) \cup {Recorded(t, type) : type \in DecisionTypes}
    BY <1>0, <1>1, DecisionEvents
  <2> QED BY <1>0, <2>1, <2>2 DEF Recorded
<1>2. CASE ObserveFailure(t) \/ ObserveSuccess(t)
  <2>1. PICK type \in {"runtime_failed", "agent_invoked"} :
          log' = Append(log, Recorded(t, type)) /\ StepTypes(t) = {type}
    BY <1>2 DEF ObserveFailure, ObserveSuccess, StepTypes
  <2>2. type \in RecordedTypes
    BY DEF RecordedTypes
  <2>3. Recorded(t, type) \in RecordedEvent /\ Recorded(t, type).occurrence = t
    BY <1>0, <2>2, RecordedTyped DEF Recorded
  <2>4. EventsOf(log', t) = EventsOf(log, t) \cup {Recorded(t, type)}
    BY <1>0, <2>1, <2>3, AppendEvents
  <2>5. {Recorded(t, x) : x \in StepTypes(t)} = {Recorded(t, type)}
    BY <2>1
  <2> QED BY <1>0, <2>4, <2>5 DEF Recorded
<1> QED BY <1>1, <1>2

\* The saved stream is a lower part of the stream.
LEMMA SavedBelow ==
  ASSUME NEW t \in Tasks, TypeInv, SavedInv(t)
  PROVE  /\ HighestOf(saved.log, t) \in Nat /\ HighestOf(saved.log, t) <= HighestOf(log, t)
         /\ \A n \in 1..HighestOf(saved.log, t) : AttemptEvents(saved.log, t, n) = AttemptEvents(log, t, n)
<1> DEFINE h == HighestOf(saved.log, t)
<1>1. saved.log \in Seq(RecordedEvent) /\ log \in Seq(RecordedEvent)
  BY DEF TypeInv
<1>2. h \in Nat /\ HighestOf(log, t) \in Nat
  BY <1>1, HighestIs
<1>3. h = 0 \/ \E e \in EventsOf(log, t) : e.attempt = h
  BY <1>1, HighestIs DEF SavedInv
<1>4. h <= HighestOf(log, t)
  BY <1>1, <1>2, <1>3, HighestIs DEF UpTo
<1>5. ASSUME NEW n \in 1..h PROVE AttemptEvents(saved.log, t, n) = AttemptEvents(log, t, n)
  BY <1>2 DEF SavedInv, AttemptEvents
<1> QED BY <1>2, <1>4, <1>5

\* No step of a task parts its history from the saved one.
LEMMA SavedTaskStep ==
  ASSUME NEW t \in Tasks, TaskNext(t), IInv, IInv', AsAgreed, \A u \in Tasks : SavedInv(u)
  PROVE  \A u \in Tasks : SavedInv(u)'
<1>0. TypeInv /\ TypeInv' /\ TaskInv(t) /\ log \in Seq(RecordedEvent) /\ log' \in Seq(RecordedEvent)
  BY DEF IInv, TypeInv
<1>1. (\A u \in Tasks \ {t} : Frame(u)) /\ saved' = saved
  BY <1>0, OnlyItsOwnTask DEF TaskInv
<1>2. ASSUME NEW u \in Tasks \ {t} PROVE SavedInv(u)'
  BY <1>1 DEF SavedInv, Frame
<1>3. CASE RecordDecision(t) \/ ObserveFailure(t) \/ ObserveSuccess(t)
  <2> DEFINE h == HighestOf(saved.log, t)
             new == {Recorded(t, type) : type \in StepTypes(t)}
  <2>1. /\ EventsOf(log', t) = EventsOf(log, t) \cup new /\ \A e \in new : e.attempt = attempt[t]
        /\ attempt[t] \in Nat /\ attempt[t] >= 1
    BY <1>0, <1>3, RecordedEvents
  <2>2. h < attempt[t] /\ h \in Nat
    <3>1. CASE RecordDecision(t)
      <4>1. h \in Nat /\ h <= HighestOf(log, t) /\ HighestOf(log, t) \in Nat
        BY <1>0, SavedBelow, HighestIs
      <4>2. HighestOf(log, t) = 0 \/ \E e \in EventsOf(log, t) : e.attempt = HighestOf(log, t)
        BY <1>0, HighestIs
      <4>3. UpTo(log, t, attempt[t] - 1)
        BY <1>0, <3>1 DEF RecordDecision, TaskInv, OffsetInv
      <4>4. HighestOf(log, t) <= attempt[t] - 1
        BY <2>1, <4>1, <4>2, <4>3 DEF UpTo
      <4> QED BY <2>1, <4>1, <4>4
    <3>2. CASE ObserveFailure(t) \/ ObserveSuccess(t)
      BY <1>0, <3>2, SavedBelow DEF ObserveFailure, ObserveSuccess, SavedInv
    <3> QED BY <1>3, <3>1, <3>2
  <2>3. attempt' = attempt
    BY <1>3 DEF RecordDecision, ObserveFailure, ObserveSuccess
  <2>4. EventsOf(saved.log, t) = {e \in EventsOf(log, t) : e.attempt <= h}
    BY DEF SavedInv
  <2> HIDE DEF h, new
  <2>5. EventsOf(saved.log, t) = {e \in EventsOf(log', t) : e.attempt <= h}
    BY <2>1, <2>2, <2>4
  <2> QED BY <1>1, <1>2, <2>2, <2>3, <2>5 DEF SavedInv, h
<1>4. CASE ~ (RecordDecision(t) \/ ObserveFailure(t) \/ ObserveSuccess(t))
  <2>1. log' = log
    BY <1>4, Records
  <2>2. pc'[t] \notin {"idle", "entered", "identified"} =>
          pc[t] \notin {"idle", "entered", "identified"} /\ attempt'[t] = attempt[t]
    BY <1>0, <1>4 DEF TaskNext, LangGraph, Node, Schedule, Retry, Invoke, GiveUp, Commit, LateFailure, Becomes, Identify,
         RecorderRaises, Deny, Interrupt, Abort, ReturnResult, ActionEnds, Leave, TypeInv
  <2> QED BY <1>1, <1>2, <2>1, <2>2 DEF SavedInv
<1> QED BY <1>3, <1>4

\* Nothing is saved in the beginning, and nothing recorded.
THEOREM InitRInv == Init => RInv
<1> SUFFICES ASSUME Init PROVE RInv
  OBVIOUS
<1>1. \A t \in Tasks : SavedInv(t)
  BY EmptyStream DEF Init, SavedInv
<1> QED BY <1>1, InitIInv DEF RInv

\* The invariant of the refinement is kept by every step.
THEOREM NextRInv == RInv /\ [Next]_vars => RInv'
<1> SUFFICES ASSUME RInv, [Next]_vars PROVE RInv'
  OBVIOUS
<1>1. IInv /\ IInv'
  BY NextIInv DEF RInv
<1>2. environment' = environment
  BY OnlyItsOwnTask, <1>1 DEF Next, TaskNext, Save, Crash, vars, IInv, TaskInv
<1> SUFFICES ASSUME AsAgreed' PROVE \A t \in Tasks : SavedInv(t)'
  BY <1>1 DEF RInv
<1>3. AsAgreed /\ \A t \in Tasks : SavedInv(t)
  BY <1>2 DEF AsAgreed, RInv
<1>4. ASSUME NEW t \in Tasks, TaskNext(t) PROVE \A u \in Tasks : SavedInv(u)'
  BY <1>1, <1>3, <1>4, SavedTaskStep
<1>5. CASE Save
  <2>1. log' = log /\ saved'.log = log /\ pc' = pc /\ \A t \in Tasks : pc[t] = "idle"
    BY <1>1, <1>3, <1>5 DEF Save, AsAgreed, IInv, TaskInv, PhaseInv
  <2>2. \A t \in Tasks : \A e \in EventsOf(log, t) : e.attempt <= HighestOf(log, t)
    BY <1>1, HighestIs DEF IInv, TypeInv, UpTo
  <2> QED BY <2>1, <2>2 DEF SavedInv
<1>6. CASE Crash
  <2>1. log' = saved.log /\ saved' = saved /\ \A t \in Tasks : pc'[t] = "idle"
    BY <1>6 DEF Crash
  <2>2. \A t \in Tasks : \A e \in EventsOf(saved.log, t) : e.attempt <= HighestOf(saved.log, t)
    BY <1>1, HighestIs DEF IInv, TypeInv, UpTo
  <2> QED BY <2>1, <2>2 DEF SavedInv
<1>7. CASE UNCHANGED vars
  BY <1>3, <1>7 DEF vars, SavedInv
<1> QED BY <1>4, <1>5, <1>6, <1>7 DEF Next, TaskNext

\* A decision begins the next attempt.
LEMMA DecisionBegins ==
  ASSUME NEW t \in Tasks, RecordDecision(t), verdict # "malformed", IInv, IInv', AsAgreed
  PROVE  /\ HistoryIn(log, t) # << >> => Last(HistoryIn(log, t)) # "succeeded"
         /\ \E outcome \in {"open", "denied"} : HistoryIn(log', t) = Append(HistoryIn(log, t), outcome)
<1> DEFINE h == HighestOf(log, t)
           n == attempt[t]
<1>0. /\ TypeInv /\ TaskInv(t) /\ log \in Seq(RecordedEvent) /\ log' \in Seq(RecordedEvent) /\ h \in Nat
      /\ CountInv(t) /\ SuccessInv(t) /\ PhaseInv(t)
  BY HighestIs DEF IInv, TypeInv, TaskInv, AgreedInv
<1>1. n = h + 1 /\ HighestOf(log', t) = n /\ ~ Concluded(log, t)
  BY <1>0, HighestAfter DEF RecordDecision, CountInv, SuccessInv, PhaseInv
<1>2. /\ EventsOf(log', t) = EventsOf(log, t) \cup {Recorded(t, type) : type \in DecisionTypes}
      /\ \A type : Recorded(t, type).attempt = n /\ Recorded(t, type).type = type
  BY <1>0, RecordedEvents DEF RecordDecision, StepTypes
<1>3. \A e \in EventsOf(log, t) : e.attempt <= h /\ e.attempt \in Nat /\ e.type # "agent_invoked"
  BY <1>0, <1>1, HighestIs, EventsIndex, RecordedFields DEF UpTo, Concluded
<1> HIDE DEF h, n
<1>4. \A k \in 1..h : AttemptEvents(log', t, k) = AttemptEvents(log, t, k)
  BY <1>0, <1>1, <1>2 DEF AttemptEvents
<1>5. AttemptEvents(log', t, n) = {Recorded(t, type) : type \in DecisionTypes}
  BY <1>0, <1>1, <1>2, <1>3 DEF AttemptEvents
<1>6. OutcomeIn(log', t, n) \in {"open", "denied"}
  <2>1. {e.type : e \in AttemptEvents(log', t, n)} = DecisionTypes
    BY <1>2, <1>5
  <2>2. "agent_invoked" \notin DecisionTypes /\ "runtime_failed" \notin DecisionTypes
    BY DEF DecisionTypes
  <2> QED BY <2>1, <2>2 DEF OutcomeIn
<1>7. HistoryIn(log', t) = Append(HistoryIn(log, t), OutcomeIn(log', t, n))
  <2> DEFINE f == HistoryIn(log, t)
             g == HistoryIn(log', t)
  <2>1. f \in Seq(Lifecycle!Outcomes) /\ g \in Seq(Lifecycle!Outcomes) /\ Len(f) = h /\ Len(g) = n
    BY <1>0, <1>1, HistoryFields DEF h
  <2>2. \A k \in 1..h : f[k] = OutcomeIn(log, t, k)
    BY <1>0, HistoryFields DEF h
  <2>3. \A k \in 1..n : g[k] = OutcomeIn(log', t, k)
    BY <1>0, <1>1, HistoryFields
  <2> HIDE DEF f, g
  <2>4. \A k \in 1..h : g[k] = f[k]
    BY <1>0, <1>1, <1>4, <2>2, <2>3, SameOutcome
  <2>5. g = Append(f, g[n])
    BY <1>1, <2>1, <2>4, GrowsByOne
  <2>6. g[n] = OutcomeIn(log', t, n)
    BY <1>0, <1>1, <2>3
  <2> QED BY <2>5, <2>6 DEF f, g
<1>8. ASSUME HistoryIn(log, t) # << >> PROVE Last(HistoryIn(log, t)) # "succeeded"
  <2>1. Len(HistoryIn(log, t)) = h /\ h # 0
    BY <1>0, <1>8, HistoryFields DEF h
  <2>2. Last(HistoryIn(log, t)) = OutcomeIn(log, t, h)
    BY <1>0, <2>1, HistoryFields DEF Last, h
  <2>3. "agent_invoked" \notin {e.type : e \in AttemptEvents(log, t, h)}
    BY <1>3 DEF AttemptEvents
  <2> QED BY <2>2, <2>3 DEF OutcomeIn
<1> QED BY <1>6, <1>7, <1>8

\* An observation closes the attempt under way.
LEMMA ObservationCloses ==
  ASSUME NEW t \in Tasks, ObserveFailure(t) \/ ObserveSuccess(t), IInv, IInv', AsAgreed
  PROVE  /\ HistoryIn(log, t) # << >> /\ Last(HistoryIn(log, t)) = "open"
         /\ \E outcome \in {"failed", "succeeded"} : HistoryIn(log', t) = Append(Front(HistoryIn(log, t)), outcome)
<1> DEFINE n == attempt[t]
           types == {e.type : e \in AttemptEvents(log, t, n)}
           later == {e.type : e \in AttemptEvents(log', t, n)}
<1>0. /\ TypeInv /\ TaskInv(t) /\ log \in Seq(RecordedEvent) /\ log' \in Seq(RecordedEvent)
      /\ pc[t] \in {"failing", "succeeding"} /\ verdict = "allow" /\ CountInv(t)
  BY DEF IInv, TypeInv, TaskInv, PhaseInv, AgreedInv, ObserveFailure, ObserveSuccess
<1>1. HighestOf(log, t) = n /\ HighestOf(log', t) = n
  BY <1>0, HighestAfter DEF CountInv
<1>2. PICK type \in {"runtime_failed", "agent_invoked"} : StepTypes(t) = {type}
  BY <1>0 DEF StepTypes
<1>3. /\ EventsOf(log', t) = EventsOf(log, t) \cup {Recorded(t, x) : x \in {type}}
      /\ n \in Nat /\ n >= 1
      /\ \A x : Recorded(t, x).attempt = n /\ Recorded(t, x).type = x
  BY <1>0, <1>2, RecordedEvents
<1>4. types \subseteq {"capability_requested", "capability_allowed"}
  BY <1>0 DEF TaskInv, AllowanceInv, AttemptEvents
<1> HIDE DEF n
<1>5. \A k \in 1..(n - 1) : AttemptEvents(log', t, k) = AttemptEvents(log, t, k)
  BY <1>3 DEF AttemptEvents
<1>6. AttemptEvents(log', t, n) = AttemptEvents(log, t, n) \cup {Recorded(t, type)}
  BY <1>3 DEF AttemptEvents
<1>7. later = types \cup {type}
  BY <1>3, <1>6
<1>8. OutcomeIn(log, t, n) = "open"
  BY <1>4 DEF OutcomeIn
<1>9. OutcomeIn(log', t, n) \in {"failed", "succeeded"}
  BY <1>4, <1>7 DEF OutcomeIn
<1> DEFINE f == HistoryIn(log, t)
           g == HistoryIn(log', t)
<1>10. f \in Seq(Lifecycle!Outcomes) /\ g \in Seq(Lifecycle!Outcomes) /\ Len(f) = n /\ Len(g) = n
  BY <1>0, <1>1, HistoryFields
<1>11. (\A k \in 1..n : f[k] = OutcomeIn(log, t, k)) /\ (\A k \in 1..n : g[k] = OutcomeIn(log', t, k))
  BY <1>0, <1>1, HistoryFields
<1> HIDE DEF f, g
<1>12. \A k \in 1..(n - 1) : g[k] = f[k]
  BY <1>3, <1>5, <1>11, SameOutcome
<1>13. g = Append(Front(f), g[n])
  BY <1>3, <1>10, <1>12, ChangesLast
<1>14. f # << >> /\ Last(f) = "open" /\ g[n] = OutcomeIn(log', t, n)
  BY <1>3, <1>8, <1>10, <1>11 DEF Last
<1> QED BY <1>9, <1>13, <1>14 DEF f, g

\* A crash cuts the histories back to what was saved.
LEMMA CrashRollsBack ==
  ASSUME NEW t \in Tasks, Crash, IInv, SavedInv(t)
  PROVE  IsPrefix(HistoryIn(log', t), HistoryIn(log, t))
<1> DEFINE f == HistoryIn(log, t)
           g == HistoryIn(saved.log, t)
           h == HighestOf(saved.log, t)
<1>0. TypeInv /\ log \in Seq(RecordedEvent) /\ saved.log \in Seq(RecordedEvent) /\ log' = saved.log
  BY DEF IInv, TypeInv, Crash
<1>1. /\ h \in Nat /\ h <= HighestOf(log, t) /\ HighestOf(log, t) \in Nat
      /\ \A n \in 1..h : AttemptEvents(saved.log, t, n) = AttemptEvents(log, t, n)
  BY <1>0, SavedBelow, HighestIs
<1>2. /\ f \in Seq(Lifecycle!Outcomes) /\ g \in Seq(Lifecycle!Outcomes) /\ Len(f) = HighestOf(log, t) /\ Len(g) = h
      /\ \A n \in 1..h : g[n] = OutcomeIn(saved.log, t, n)
  BY <1>0, HistoryFields
<1>3. \A n \in 1..HighestOf(log, t) : f[n] = OutcomeIn(log, t, n)
  BY <1>0, HistoryFields
<1> HIDE DEF f, g, h
<1>4. \A n \in 1..h : g[n] = f[n]
  BY <1>1, <1>2, <1>3, SameOutcome
<1>5. IsPrefix(g, f)
  BY <1>1, <1>2, <1>4, IsCut
<1> QED BY <1>0, <1>5 DEF f, g

\* What an abstract step says, over the mapped history.
MappedNext ==
  \/ \A t \in Tasks : IsPrefix(Mapped'[t], Mapped[t])
  \/ \E t \in Tasks :
       /\ Mapped[t] # << >> => Last(Mapped[t]) # "succeeded"
       /\ \E outcome \in {"open", "denied"} : Mapped' = [Mapped EXCEPT ![t] = Append(@, outcome)]
  \/ \E t \in Tasks :
       /\ Mapped[t] # << >> /\ Last(Mapped[t]) = "open"
       /\ \E outcome \in {"failed", "succeeded"} : Mapped' = [Mapped EXCEPT ![t] = Append(Front(@), outcome)]

\* A step that records nothing changes no history.
LEMMA NothingRecorded ==
  ASSUME log' = log, environment' = environment
  PROVE  Mapped' = Mapped
  BY DEF Mapped, AsAgreed, HistoryIn, OutcomeIn, AttemptEvents

\* A step of one task changes the history of that task alone.
LEMMA OwnHistory ==
  ASSUME NEW t \in Tasks, TaskNext(t), IInv, IInv', AsAgreed
  PROVE  Mapped' = [Mapped EXCEPT ![t] = HistoryIn(log', t)]
<1>0. TypeInv /\ log \in Seq(RecordedEvent) /\ log' \in Seq(RecordedEvent)
  BY DEF IInv, TypeInv
<1>1. (\A u \in Tasks \ {t} : Frame(u)) /\ environment' = environment
  BY OnlyItsOwnTask DEF IInv, TaskInv
<1>2. ASSUME NEW u \in Tasks \ {t} PROVE HistoryIn(log', u) = HistoryIn(log, u)
  <2>1. EventsOf(log', u) = EventsOf(log, u)
    BY <1>1 DEF Frame
  <2>2. AttemptsOf(log', u) = AttemptsOf(log, u)
    <3>1. AttemptsOf(log', u) = {e.attempt : e \in EventsOf(log', u)}
      BY <1>0, EventsIndex
    <3>2. AttemptsOf(log, u) = {e.attempt : e \in EventsOf(log, u)}
      BY <1>0, EventsIndex
    <3> QED BY <2>1, <3>1, <3>2
  <2>3. HighestOf(log', u) = HighestOf(log, u)
    BY <2>2 DEF HighestOf
  <2>4. \A n : OutcomeIn(log', u, n) = OutcomeIn(log, u, n)
    BY <2>1, SameOutcome DEF AttemptEvents
  <2> QED BY <2>3, <2>4 DEF HistoryIn
<1>3. AsAgreed'
  BY <1>1 DEF AsAgreed
<1> QED BY <1>2, <1>3 DEF Mapped

\* Each step is a step of the abstract lives, or none.
LEMMA StepMaps ==
  ASSUME RInv, RInv', [Next]_vars
  PROVE  MappedNext \/ Mapped' = Mapped
<1>0. IInv /\ IInv' /\ environment' = environment
  BY OnlyItsOwnTask DEF RInv, Next, TaskNext, Save, Crash, vars, IInv, TaskInv
<1>1. CASE ~ AsAgreed
  BY <1>0, <1>1 DEF Mapped, AsAgreed
<1>2. ASSUME AsAgreed, NEW t \in Tasks, TaskNext(t) PROVE MappedNext \/ Mapped' = Mapped
  <2>1. Mapped[t] = HistoryIn(log, t) /\ Mapped' = [Mapped EXCEPT ![t] = HistoryIn(log', t)]
    BY <1>0, <1>2, OwnHistory DEF Mapped
  <2>2. CASE RecordDecision(t) /\ verdict # "malformed"
    BY <1>0, <1>2, <2>1, <2>2, DecisionBegins DEF MappedNext
  <2>3. CASE ObserveFailure(t) \/ ObserveSuccess(t)
    BY <1>0, <1>2, <2>1, <2>3, ObservationCloses DEF MappedNext
  <2>4. CASE log' = log
    BY <1>0, <2>4, NothingRecorded
  <2>5. RecordDecision(t) /\ verdict = "malformed" => log' = log
    BY <1>0, DecisionMoves DEF IInv
  <2> QED BY <1>2, <2>2, <2>3, <2>4, <2>5, Records
<1>3. ASSUME AsAgreed, Crash PROVE MappedNext
  <2>1. \A t \in Tasks : IsPrefix(HistoryIn(log', t), HistoryIn(log, t))
    BY <1>0, <1>3, CrashRollsBack DEF RInv
  <2>2. AsAgreed'
    BY <1>0, <1>3 DEF AsAgreed
  <2> QED BY <1>3, <2>1, <2>2 DEF MappedNext, Mapped
<1>4. CASE Save \/ UNCHANGED vars
  <2>1. log' = log
    BY <1>4 DEF Save, vars
  <2> QED BY <1>0, <2>1, NothingRecorded
<1> QED BY <1>1, <1>2, <1>3, <1>4 DEF Next, TaskNext

\* The record of every task follows the life of an occurrence (ADR-0042).
THEOREM AdapterImplementsLifecycle == Spec => ImplementsLifecycle
<1>1. Init => Lifecycle!Init
  <2> SUFFICES ASSUME Init PROVE Lifecycle!Init
    OBVIOUS
  <2>1. \A t \in Tasks : HistoryIn(log, t) = << >>
    <3>1. \A t \in Tasks : log = << >> /\ log \in Seq(RecordedEvent) /\ HighestOf(log, t) \in Nat /\ EventsOf(log, t) = {}
      BY EmptyStream, HighestIs DEF Init
    <3>2. \A t \in Tasks : HighestOf(log, t) = 0
      BY <3>1, HighestIs
    <3>3. \A t \in Tasks : Len(HistoryIn(log, t)) = 0 /\ HistoryIn(log, t) \in Seq(Lifecycle!Outcomes)
      BY <3>1, <3>2, HistoryFields
    <3> QED BY <3>3
  <2>2. Mapped = [t \in Tasks |-> << >>]
    BY <2>1 DEF Mapped
  <2> QED BY <2>2, MappedIs DEF Lifecycle!Init, Tasks
<1>2. RInv /\ RInv' /\ [Next]_vars =>
        [Lifecycle!Next]_([t \in Tasks |-> IF AsAgreed THEN [n \in 1..Highest(t) |-> Outcome(t, n)] ELSE << >>])
  <2> SUFFICES ASSUME RInv, RInv', [Next]_vars PROVE Lifecycle!Next \/ UNCHANGED [t \in Tasks |->
                 IF AsAgreed THEN [n \in 1..Highest(t) |-> Outcome(t, n)] ELSE << >>]
    OBVIOUS
  <2>1. [t \in Tasks |-> IF AsAgreed THEN [n \in 1..Highest(t) |-> Outcome(t, n)] ELSE << >>] = Mapped
    BY MappedIs
  <2>2. ([t \in Tasks |-> IF AsAgreed THEN [n \in 1..Highest(t) |-> Outcome(t, n)] ELSE << >>] = Mapped)'
    BY MappedIs, PTL
  <2>3. ASSUME MappedNext PROVE Lifecycle!Next
    <3>1. /\ \A x : Lifecycle!Last(x) = Last(x) /\ Lifecycle!Front(x) = Front(x)
          /\ \A x, y : Lifecycle!IsPrefix(x, y) <=> IsPrefix(x, y)
      BY DEF Lifecycle!Last, Last, Lifecycle!Front, Front, Lifecycle!IsPrefix, IsPrefix
    <3>2. CASE \A t \in Tasks : IsPrefix(Mapped'[t], Mapped[t])
      <4>1. DOMAIN Mapped' = Occurrences
        BY DEF Mapped, Tasks
      <4>2. Lifecycle!Rollback
        BY <2>1, <2>2, <3>1, <3>2, <4>1 DEF Lifecycle!Rollback, Tasks
      <4> QED BY <4>2 DEF Lifecycle!Next
    <3>3. ASSUME NEW t \in Tasks, Mapped[t] # << >> => Last(Mapped[t]) # "succeeded",
                 NEW outcome \in {"open", "denied"}, Mapped' = [Mapped EXCEPT ![t] = Append(@, outcome)]
          PROVE  Lifecycle!Begin(t)
      BY <2>1, <2>2, <3>1, <3>3 DEF Lifecycle!Begin
    <3>4. ASSUME NEW t \in Tasks, Mapped[t] # << >>, Last(Mapped[t]) = "open",
                 NEW outcome \in {"failed", "succeeded"}, Mapped' = [Mapped EXCEPT ![t] = Append(Front(@), outcome)]
          PROVE  Lifecycle!Close(t)
      BY <2>1, <2>2, <3>1, <3>4 DEF Lifecycle!Close
    <3> QED BY <2>3, <3>2, <3>3, <3>4 DEF MappedNext, Lifecycle!Next, Tasks
  <2> QED BY <2>1, <2>2, <2>3, StepMaps
<1>3. Spec => []RInv
  BY InitRInv, NextRInv, PTL DEF Spec
<1> QED BY <1>1, <1>2, <1>3, PTL DEF Spec, ImplementsLifecycle, Lifecycle!Spec

=============================================================================
