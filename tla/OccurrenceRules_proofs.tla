------------------------ MODULE OccurrenceRules_proofs ------------------------
(***************************************************************************)
(* Lemmas about the transition rules: what one more event does to the      *)
(* verdict on a stream.                                                    *)
(***************************************************************************)
EXTENDS OccurrenceRules, TLAPS

\* What an event is made of.
LEMMA EventFields ==
  ASSUME NEW e \in Event
  PROVE  /\ e.type \in EventTypes /\ e.operation \in Operations /\ e.occurrence \in Occurrences
         /\ e.attempt \in 1..MaxAttempt /\ e.attempt \in Nat /\ e.attempt >= 1 /\ e.subject \in Subjects
  BY DEF Event

\* Where the events of a stream and one more come from.
LEMMA AppendIndex ==
  ASSUME NEW s \in Seq(Event), NEW e \in Event
  PROVE  /\ Append(s, e) \in Seq(Event)
         /\ Len(s) \in Nat /\ DOMAIN s = 1..Len(s) /\ DOMAIN Append(s, e) = 1..(Len(s) + 1)
         /\ \A i \in DOMAIN s : i \in DOMAIN Append(s, e) /\ Append(s, e)[i] = s[i] /\ s[i] \in Event
         /\ Append(s, e)[Len(s) + 1] = e
         /\ \A i \in DOMAIN Append(s, e) : i \in DOMAIN s \/ i = Len(s) + 1
  OBVIOUS

\* A pair of events of a longer stream, the earlier one first.
LEMMA EarlierIndex ==
  ASSUME NEW s \in Seq(Event), NEW e \in Event, NEW j \in DOMAIN Append(s, e), NEW i \in 1..(j - 1)
  PROVE  /\ i \in DOMAIN s /\ Append(s, e)[i] = s[i]
         /\ j \in DOMAIN s \/ j = Len(s) + 1
  BY AppendIndex

(***************************************************************************)
(* Rule by rule: the longer stream breaks it if the shorter one did, or if *)
(* the new event breaks it.                                                *)
(***************************************************************************)
LEMMA AppendMismatch ==
  ASSUME NEW s \in Seq(Event), NEW e \in Event
  PROVE  OperationMismatch(Append(s, e)) <=>
           \/ OperationMismatch(s)
           \/ \E i \in DOMAIN s : s[i].occurrence = e.occurrence /\ s[i].operation # e.operation
  BY AppendIndex DEF OperationMismatch

\* An attempt goes back with a new event when a higher one was recorded.
LEMMA AppendOrder ==
  ASSUME NEW s \in Seq(Event), NEW e \in Event
  PROVE  AttemptOrderInvalid(Append(s, e)) <=>
           \/ AttemptOrderInvalid(s)
           \/ \E i \in DOMAIN s : s[i].occurrence = e.occurrence /\ e.attempt < s[i].attempt
<1> DEFINE t == Append(s, e)
<1>1. ASSUME AttemptOrderInvalid(s) PROVE AttemptOrderInvalid(t)
  <2>1. PICK j \in DOMAIN s : \E i \in 1..(j - 1) : s[i].occurrence = s[j].occurrence /\ s[j].attempt < s[i].attempt
    BY <1>1 DEF AttemptOrderInvalid
  <2>2. PICK i \in 1..(j - 1) : s[i].occurrence = s[j].occurrence /\ s[j].attempt < s[i].attempt
    BY <2>1
  <2>3. j \in DOMAIN t /\ t[j] = s[j] /\ t[i] = s[i]
    BY AppendIndex
  <2> HIDE DEF t
  <2> QED BY <2>2, <2>3 DEF AttemptOrderInvalid
<1>2. ASSUME NEW i \in DOMAIN s, s[i].occurrence = e.occurrence, e.attempt < s[i].attempt PROVE AttemptOrderInvalid(t)
  <2>1. i \in 1..(Len(s) + 1 - 1) /\ Len(s) + 1 \in DOMAIN t /\ t[Len(s) + 1] = e /\ t[i] = s[i]
    BY AppendIndex
  <2> HIDE DEF t
  <2> QED BY <1>2, <2>1 DEF AttemptOrderInvalid
<1>3. ASSUME NEW j \in DOMAIN t, NEW i \in 1..(j - 1), t[i].occurrence = t[j].occurrence, t[j].attempt < t[i].attempt
      PROVE  AttemptOrderInvalid(s) \/ \E k \in DOMAIN s : s[k].occurrence = e.occurrence /\ e.attempt < s[k].attempt
  BY <1>3, EarlierIndex, AppendIndex DEF AttemptOrderInvalid
<1> QED BY <1>1, <1>2, <1>3 DEF AttemptOrderInvalid

\* A later event does not change which events succeed.
LEMMA AppendSucceeds ==
  ASSUME NEW s \in Seq(Event), NEW e \in Event
  PROVE  /\ \A i \in DOMAIN s : Succeeds(Append(s, e), i) <=> Succeeds(s, i)
         /\ Succeeds(Append(s, e), Len(s) + 1) <=>
              /\ e.type \in SuccessTerminals
              /\ \A h \in DOMAIN s : SameAttempt(s[h], e) => s[h].type \notin Terminals
<1> DEFINE t == Append(s, e)
<1>1. ASSUME NEW i \in DOMAIN s PROVE Succeeds(t, i) <=> Succeeds(s, i)
  <2>1. t[i] = s[i] /\ \A h \in 1..(i - 1) : t[h] = s[h]
    BY AppendIndex
  <2> HIDE DEF t
  <2> QED BY <2>1 DEF Succeeds
<1>2. t[Len(s) + 1] = e /\ 1..(Len(s) + 1 - 1) = DOMAIN s /\ \A h \in DOMAIN s : t[h] = s[h]
  BY AppendIndex
<1> HIDE DEF t
<1>3. Succeeds(t, Len(s) + 1) <=>
        e.type \in SuccessTerminals /\ \A h \in DOMAIN s : SameAttempt(s[h], e) => s[h].type \notin Terminals
  BY <1>2 DEF Succeeds
<1> QED BY <1>1, <1>3 DEF t

\* A new event follows a success of a lower attempt of its occurrence.
LEMMA AppendAfterSuccess ==
  ASSUME NEW s \in Seq(Event), NEW e \in Event
  PROVE  AttemptAfterSuccess(Append(s, e)) <=>
           \/ AttemptAfterSuccess(s)
           \/ \E i \in DOMAIN s : Succeeds(s, i) /\ s[i].occurrence = e.occurrence /\ s[i].attempt < e.attempt
<1> DEFINE t == Append(s, e)
           Pair(u, i, j) == Succeeds(u, i) /\ u[i].occurrence = u[j].occurrence /\ u[i].attempt < u[j].attempt
<1>1. ASSUME NEW j \in DOMAIN s, NEW i \in 1..(j - 1)
      PROVE  j \in DOMAIN t /\ (Pair(t, i, j) <=> Pair(s, i, j))
  <2>1. i \in DOMAIN s /\ j \in DOMAIN t /\ t[i] = s[i] /\ t[j] = s[j]
    BY AppendIndex
  <2> QED BY <2>1, AppendSucceeds
<1>2. ASSUME NEW i \in DOMAIN s
      PROVE  /\ Len(s) + 1 \in DOMAIN t /\ i \in 1..(Len(s) + 1 - 1)
             /\ Pair(t, i, Len(s) + 1) <=>
                  Succeeds(s, i) /\ s[i].occurrence = e.occurrence /\ s[i].attempt < e.attempt
  <2>1. i \in 1..(Len(s) + 1 - 1) /\ Len(s) + 1 \in DOMAIN t /\ t[Len(s) + 1] = e /\ t[i] = s[i]
    BY AppendIndex
  <2> QED BY <2>1, AppendSucceeds
<1>3. ASSUME NEW j \in DOMAIN t, NEW i \in 1..(j - 1) PROVE i \in DOMAIN s /\ (j \in DOMAIN s \/ j = Len(s) + 1)
  BY EarlierIndex
<1>4. \A u : AttemptAfterSuccess(u) <=> \E j \in DOMAIN u : \E i \in 1..(j - 1) : Pair(u, i, j)
  BY DEF AttemptAfterSuccess
<1> DEFINE New == \E i \in DOMAIN s : Succeeds(s, i) /\ s[i].occurrence = e.occurrence /\ s[i].attempt < e.attempt
<1>5. ASSUME AttemptAfterSuccess(s) \/ New PROVE AttemptAfterSuccess(t)
  <2> HIDE DEF t, Pair
  <2>1. CASE AttemptAfterSuccess(s)
    BY <1>1, <1>4, <2>1
  <2>2. CASE New
    BY <1>2, <1>4, <2>2
  <2> QED BY <1>5, <2>1, <2>2
<1>6. ASSUME AttemptAfterSuccess(t) PROVE AttemptAfterSuccess(s) \/ New
  <2> HIDE DEF t, Pair
  <2>1. PICK j \in DOMAIN t : \E i \in 1..(j - 1) : Pair(t, i, j)
    BY <1>4, <1>6
  <2>2. PICK i \in 1..(j - 1) : Pair(t, i, j)
    BY <2>1
  <2>3. CASE j \in DOMAIN s
    BY <1>1, <1>4, <2>2, <2>3
  <2>4. CASE j = Len(s) + 1
    BY <1>2, <1>3, <2>2, <2>4
  <2> QED BY <1>3, <2>3, <2>4
<1> QED BY <1>5, <1>6

\* Two events of one attempt that contradict each other as outcomes.
Contradict(e, f) ==
  /\ SameAttempt(e, f)
  /\ {e.type, f.type} \subseteq Terminals /\ {e.type, f.type} \cap SuccessTerminals # {}

\* A new terminal event contradicts one of the same attempt.
LEMMA AppendOutcome ==
  ASSUME NEW s \in Seq(Event), NEW e \in Event
  PROVE  OutcomeContradiction(Append(s, e)) <=>
           OutcomeContradiction(s) \/ \E i \in DOMAIN s : Contradict(s[i], e)
<1> DEFINE t == Append(s, e)
<1>1. ASSUME NEW j \in DOMAIN s, NEW i \in 1..(j - 1) PROVE j \in DOMAIN t /\ t[i] = s[i] /\ t[j] = s[j]
  BY AppendIndex
<1>2. ASSUME NEW i \in DOMAIN s
      PROVE  Len(s) + 1 \in DOMAIN t /\ i \in 1..(Len(s) + 1 - 1) /\ t[Len(s) + 1] = e /\ t[i] = s[i]
  BY AppendIndex
<1>3. ASSUME NEW j \in DOMAIN t, NEW i \in 1..(j - 1) PROVE i \in DOMAIN s /\ (j \in DOMAIN s \/ j = Len(s) + 1)
  BY EarlierIndex
<1>4. \A u : OutcomeContradiction(u) <=> \E j \in DOMAIN u : \E i \in 1..(j - 1) : Contradict(u[i], u[j])
  BY DEF OutcomeContradiction, Contradict
<1> HIDE DEF t
<1>5. ASSUME OutcomeContradiction(s) \/ \E i \in DOMAIN s : Contradict(s[i], e) PROVE OutcomeContradiction(t)
  <2>1. CASE OutcomeContradiction(s)
    BY <1>1, <1>4, <2>1
  <2>2. CASE \E i \in DOMAIN s : Contradict(s[i], e)
    BY <1>2, <1>4, <2>2
  <2> QED BY <1>5, <2>1, <2>2
<1>6. ASSUME OutcomeContradiction(t) PROVE OutcomeContradiction(s) \/ \E i \in DOMAIN s : Contradict(s[i], e)
  <2>1. PICK j \in DOMAIN t : \E i \in 1..(j - 1) : Contradict(t[i], t[j])
    BY <1>4, <1>6
  <2>2. PICK i \in 1..(j - 1) : Contradict(t[i], t[j])
    BY <2>1
  <2>3. CASE j \in DOMAIN s
    BY <1>1, <1>4, <2>2, <2>3
  <2>4. CASE j = Len(s) + 1
    BY <1>2, <1>3, <2>2, <2>4
  <2> QED BY <1>3, <2>3, <2>4
<1> QED BY <1>5, <1>6 DEF t

\* A new decision contradicts an earlier one of its scope.
LEMMA AppendDecision ==
  ASSUME NEW s \in Seq(Event), NEW e \in Event, NEW explicit
  PROVE  DecisionContradiction(Append(s, e), explicit) <=>
           \/ DecisionContradiction(s, explicit)
           \/ \E i \in DOMAIN s :
                /\ SameScope(s[i], e, explicit)
                /\ \/ s[i].type = "capability_allowed" /\ e.type = "capability_denied"
                   \/ s[i].type = "capability_denied" /\ e.type = "capability_allowed"
<1> DEFINE t == Append(s, e)
           Pair(f, g) == f.type = "capability_allowed" /\ g.type = "capability_denied" /\ SameScope(f, g, explicit)
<1>1. \A u : DecisionContradiction(u, explicit) <=> \E i, j \in DOMAIN u : Pair(u[i], u[j])
  BY DEF DecisionContradiction
<1>2. \A f, g : SameScope(f, g, explicit) <=> SameScope(g, f, explicit)
  BY DEF SameScope
<1>3. ~ Pair(e, e)
  OBVIOUS
<1>4. (\E i, j \in DOMAIN t : Pair(t[i], t[j])) <=>
        (\E i, j \in DOMAIN s : Pair(s[i], s[j])) \/ \E i \in DOMAIN s : Pair(s[i], e) \/ Pair(e, s[i])
  <2> HIDE DEF Pair
  <2> QED BY <1>3, AppendIndex
<1> QED BY <1>1, <1>2, <1>4

\* A new event lacks its opener when none of its scope came before.
LEMMA AppendUnopened ==
  ASSUME NEW s \in Seq(Event), NEW e \in Event, NEW explicit
  PROVE  Unopened(Append(s, e), explicit) <=>
           \/ Unopened(s, explicit)
           \/ /\ e.type \in DOMAIN Opener
              /\ \A i \in DOMAIN s : s[i].type = Opener[e.type] => ~ SameScope(s[i], e, explicit)
<1> DEFINE t == Append(s, e)
           Opens(f, g) == f.type = Opener[g.type] /\ SameScope(f, g, explicit)
           Closed(u, j) == u[j].type \in DOMAIN Opener /\ \A i \in 1..(j - 1) : ~ Opens(u[i], u[j])
<1>1. \A u : Unopened(u, explicit) <=> \E j \in DOMAIN u : Closed(u, j)
  BY DEF Unopened
<1>2. ASSUME NEW j \in DOMAIN s PROVE j \in DOMAIN t /\ (Closed(t, j) <=> Closed(s, j))
  <2>1. j \in DOMAIN t /\ t[j] = s[j] /\ \A i \in 1..(j - 1) : t[i] = s[i]
    BY AppendIndex
  <2> HIDE DEF t, Opens
  <2> QED BY <2>1
<1>3. /\ Len(s) + 1 \in DOMAIN t
      /\ Closed(t, Len(s) + 1) <=> e.type \in DOMAIN Opener /\ \A i \in DOMAIN s : ~ Opens(s[i], e)
  <2>1. /\ Len(s) + 1 \in DOMAIN t /\ t[Len(s) + 1] = e /\ 1..(Len(s) + 1 - 1) = DOMAIN s
        /\ \A i \in DOMAIN s : t[i] = s[i]
    BY AppendIndex
  <2> HIDE DEF t, Opens
  <2> QED BY <2>1
<1>4. \A j \in DOMAIN t : j \in DOMAIN s \/ j = Len(s) + 1
  BY AppendIndex
<1>5. Unopened(t, explicit) <=>
        Unopened(s, explicit) \/ (e.type \in DOMAIN Opener /\ \A i \in DOMAIN s : ~ Opens(s[i], e))
  <2> HIDE DEF t, Opens, Closed
  <2> QED BY <1>1, <1>2, <1>3, <1>4
<1> QED BY <1>5

\* A new event is a replay when it was recorded before.
LEMMA AppendReplays ==
  ASSUME NEW s \in Seq(Event), NEW e \in Event
  PROVE  Replays(Append(s, e)) <=> Replays(s) \/ \E i \in DOMAIN s : s[i] = e
  BY AppendIndex DEF Replays

\* The attempts of an occurrence that a stream has.
AttemptsOf(s, o) == {s[i].attempt : i \in {j \in DOMAIN s : s[j].occurrence = o}}

\* A new event adds its attempt to those of its occurrence.
LEMMA AppendAttempts ==
  ASSUME NEW s \in Seq(Event), NEW e \in Event
  PROVE  /\ \A o \in Occurrences : AttemptsOf(Append(s, e), o) =
              IF o = e.occurrence THEN AttemptsOf(s, o) \cup {e.attempt} ELSE AttemptsOf(s, o)
         /\ \A o \in Occurrences : AttemptsOf(s, o) \subseteq 1..MaxAttempt
<1> DEFINE t == Append(s, e)
<1>1. ASSUME NEW o \in Occurrences, NEW n \in AttemptsOf(t, o)
      PROVE  n \in AttemptsOf(s, o) \/ (o = e.occurrence /\ n = e.attempt)
  BY AppendIndex DEF AttemptsOf
<1>2. ASSUME NEW o \in Occurrences, NEW n, n \in AttemptsOf(s, o) \/ (o = e.occurrence /\ n = e.attempt)
      PROVE  n \in AttemptsOf(t, o)
  BY <1>2, AppendIndex DEF AttemptsOf
<1>3. ASSUME NEW o \in Occurrences PROVE AttemptsOf(s, o) \subseteq 1..MaxAttempt
  BY AppendIndex, EventFields DEF AttemptsOf
<1> QED BY <1>1, <1>2, <1>3

\* A stream has a gap if some occurrence has an attempt and not all before it.
LEMMA GapOfAttempts ==
  ASSUME NEW s \in Seq(Event)
  PROVE  AttemptGap(s) <=> \E o \in Occurrences : \E n \in AttemptsOf(s, o) : ~ (1..n \subseteq AttemptsOf(s, o))
<1>1. ASSUME NEW i \in DOMAIN s, NEW k \in 1..s[i].attempt
      PROVE  /\ s[i].occurrence \in Occurrences /\ s[i].attempt \in AttemptsOf(s, s[i].occurrence)
             /\ k \in AttemptsOf(s, s[i].occurrence) <=>
                  \E j \in DOMAIN s : s[j].occurrence = s[i].occurrence /\ s[j].attempt = k
  BY EventFields DEF AttemptsOf
<1>2. ASSUME NEW o \in Occurrences, NEW n \in AttemptsOf(s, o) PROVE \E i \in DOMAIN s : s[i].occurrence = o /\ s[i].attempt = n
  BY DEF AttemptsOf
<1> QED BY <1>1, <1>2 DEF AttemptGap

=============================================================================
