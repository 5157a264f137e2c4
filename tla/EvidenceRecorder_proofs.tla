----------------------- MODULE EvidenceRecorder_proofs -----------------------
(***************************************************************************)
(* Proofs about EvidenceRecorder, for every set of threads, missions,      *)
(* occurrences and prior streams and every bound on the calls.             *)
(***************************************************************************)
EXTENDS EvidenceRecorder, SequenceTheorems, WellFoundedInduction, TLAPS

(***************************************************************************)
(* Streams: what appending a batch to a stream preserves.                  *)
(***************************************************************************)

\* What an event of a stream is made of.
LEMMA EventFields ==
  ASSUME NEW s \in Seq(Event), NEW i \in DOMAIN s
  PROVE  /\ s[i] \in Event
         /\ s[i].mission \in Missions /\ s[i].sequence \in Nat /\ s[i].timestamp \in Nat
         /\ s[i].pos \in Nat /\ s[i].size \in Nat /\ s[i].by \in Writers
<1>1. s[i] \in Event
  OBVIOUS
<1> QED BY <1>1 DEF Event

\* Where the events of a concatenation come from.
LEMMA ConcatIndex ==
  ASSUME NEW s \in Seq(Event), NEW b \in Seq(Event)
  PROVE  /\ s \o b \in Seq(Event)
         /\ Len(s \o b) = Len(s) + Len(b)
         /\ DOMAIN s = 1..Len(s) /\ DOMAIN b = 1..Len(b)
         /\ DOMAIN (s \o b) = 1..(Len(s) + Len(b))
         /\ \A i \in DOMAIN s : i \in DOMAIN (s \o b) /\ (s \o b)[i] = s[i]
         /\ \A i \in DOMAIN b : i + Len(s) \in DOMAIN (s \o b) /\ (s \o b)[i + Len(s)] = b[i]
         /\ \A i \in DOMAIN (s \o b) :
              \/ i \in DOMAIN s /\ (s \o b)[i] = s[i]
              \/ i - Len(s) \in DOMAIN b /\ (s \o b)[i] = b[i - Len(s)]
  OBVIOUS

\* b continues the numbering of mission m after sequence n.
Continues(b, m, n) == \A i \in DOMAIN b : b[i].mission = m /\ b[i].sequence = n + i

\* A batch that continues the highest sequence of its mission leaves no gap and
\* no duplicate.
LEMMA AppendContiguous ==
  ASSUME NEW s \in Seq(Event), NEW b \in Seq(Event), NEW m \in Missions, NEW n \in Nat,
         Contiguous(s), IsHighestSequence(n, s, m), Continues(b, m, n)
  PROVE  Contiguous(s \o b)
<1> DEFINE c == s \o b
<1>1. \A i \in DOMAIN s : s[i].mission = m => s[i].sequence <= n
  BY DEF IsHighestSequence
<1>2. \A i \in DOMAIN s : s[i].sequence \in Nat
  BY EventFields
<1>3. NoDuplicateSequence(c)
  <2> SUFFICES ASSUME NEW i \in DOMAIN c, NEW j \in DOMAIN c,
                      SameMission(c, i, j), c[i].sequence = c[j].sequence
               PROVE  i = j
    BY DEF NoDuplicateSequence
  <2>1. CASE i \in DOMAIN s /\ j \in DOMAIN s
    BY <2>1, ConcatIndex DEF Contiguous, NoDuplicateSequence, SameMission
  <2>2. CASE i - Len(s) \in DOMAIN b /\ j - Len(s) \in DOMAIN b
    BY <2>2, ConcatIndex DEF Continues
  <2>3. CASE i \in DOMAIN s /\ j - Len(s) \in DOMAIN b
    BY <2>3, <1>1, <1>2, ConcatIndex DEF Continues, SameMission
  <2>4. CASE j \in DOMAIN s /\ i - Len(s) \in DOMAIN b
    BY <2>4, <1>1, <1>2, ConcatIndex DEF Continues, SameMission
  <2> HIDE DEF c
  <2>5. \A k \in DOMAIN c : k \in DOMAIN s \/ k - Len(s) \in DOMAIN b
    BY ConcatIndex DEF c
  <2> QED BY <2>1, <2>2, <2>3, <2>4, <2>5
<1>4. NoSequenceGap(c)
  <2> SUFFICES ASSUME NEW i \in DOMAIN c
               PROVE  /\ c[i].sequence >= 1
                      /\ \A k \in 1..c[i].sequence :
                           \E j \in DOMAIN c : SameMission(c, i, j) /\ c[j].sequence = k
    BY DEF NoSequenceGap
  <2>1. CASE i \in DOMAIN s
    <3>1. c[i] = s[i] /\ \A j \in DOMAIN s : j \in DOMAIN c /\ c[j] = s[j]
      BY <2>1, ConcatIndex
    <3>2. /\ s[i].sequence >= 1
          /\ \A k \in 1..s[i].sequence :
               \E j \in DOMAIN s : SameMission(s, i, j) /\ s[j].sequence = k
      BY <2>1 DEF Contiguous, NoSequenceGap
    <3> HIDE DEF c
    <3> QED BY <3>1, <3>2 DEF SameMission
  <2>2. CASE i - Len(s) \in DOMAIN b
    <3>1. c[i].mission = m /\ c[i].sequence = n + (i - Len(s)) /\ i - Len(s) \in 1..Len(b)
      BY <2>2, ConcatIndex DEF Continues
    <3>2. ASSUME NEW k \in 1..n
          PROVE  \E j \in DOMAIN s : s[j].mission = m /\ s[j].sequence = k
      <4>0. \A i1 \in DOMAIN s : s[i1].sequence \in Nat
        BY EventFields
      <4>1. PICK h \in DOMAIN s : s[h].mission = m /\ s[h].sequence = n
        BY DEF IsHighestSequence
      <4> QED BY <4>0, <4>1 DEF Contiguous, NoSequenceGap, SameMission
    <3>3. ASSUME NEW k \in 1..(n + (i - Len(s)))
          PROVE  \E j \in DOMAIN c : c[j].mission = m /\ c[j].sequence = k
      <4>1. CASE k <= n
        BY <4>1, <3>2, ConcatIndex
      <4>2. CASE k > n
        <5>1. k - n \in DOMAIN b
          BY <4>2, <3>1, ConcatIndex
        <5>2. (k - n) + Len(s) \in DOMAIN c /\ c[(k - n) + Len(s)] = b[k - n]
          BY <5>1, ConcatIndex
        <5>3. b[k - n].mission = m /\ b[k - n].sequence = k
          BY <5>1 DEF Continues
        <5> QED BY <5>2, <5>3
      <4> QED BY <4>1, <4>2
    <3> HIDE DEF c
    <3>4. c[i].sequence >= 1
      BY <3>1, LenProperties
    <3>5. \A k \in 1..c[i].sequence : \E j \in DOMAIN c : c[j].mission = m /\ c[j].sequence = k
      BY <3>1, <3>3
    <3> QED BY <3>1, <3>4, <3>5 DEF SameMission
  <2> QED BY <2>1, <2>2, ConcatIndex
<1> QED BY <1>3, <1>4 DEF Contiguous

\* The batch moves the highest sequence of its own mission by its length ...
LEMMA AppendHighestOwn ==
  ASSUME NEW s \in Seq(Event), NEW b \in Seq(Event), NEW m \in Missions, NEW n \in Nat,
         IsHighestSequence(n, s, m), Continues(b, m, n), Len(b) > 0
  PROVE  IsHighestSequence(n + Len(b), s \o b, m)
<1> DEFINE c == s \o b
<1>1. \A i \in DOMAIN s : s[i].mission = m => s[i].sequence <= n /\ s[i].sequence \in Nat
  BY EventFields DEF IsHighestSequence
<1>2. ASSUME NEW i \in DOMAIN c, c[i].mission = m PROVE c[i].sequence <= n + Len(b)
  BY <1>1, <1>2, ConcatIndex DEF Continues
<1>3. Len(b) \in DOMAIN b /\ Len(b) + Len(s) \in DOMAIN c /\ c[Len(b) + Len(s)] = b[Len(b)]
  BY ConcatIndex
<1>4. b[Len(b)].mission = m /\ b[Len(b)].sequence = n + Len(b)
  BY <1>3 DEF Continues
<1> HIDE DEF c
<1>5. c[Len(b) + Len(s)].mission = m /\ c[Len(b) + Len(s)].sequence = n + Len(b)
  BY <1>3, <1>4
<1> QED BY <1>2, <1>3, <1>5 DEF IsHighestSequence, c

\* ... and no other mission's.
LEMMA AppendHighestOther ==
  ASSUME NEW s \in Seq(Event), NEW b \in Seq(Event), NEW m \in Missions, NEW n \in Nat,
         NEW k \in Nat, NEW other \in Missions \ {m},
         IsHighestSequence(k, s, other), Continues(b, m, n)
  PROVE  IsHighestSequence(k, s \o b, other)
<1> DEFINE c == s \o b
<1>1. \A i \in DOMAIN c : c[i].mission = other => i \in DOMAIN s /\ c[i] = s[i]
  BY ConcatIndex DEF Continues
<1>2. \A i \in DOMAIN s : i \in DOMAIN c /\ c[i] = s[i]
  BY ConcatIndex
<1> HIDE DEF c
<1> QED BY <1>1, <1>2 DEF IsHighestSequence, c

\* b is one whole batch of one call.
OneBatch(b, w) ==
  \A i \in DOMAIN b : b[i].pos = i /\ b[i].size = Len(b) /\ b[i].by = w

\* Appending one whole batch keeps every batch whole.
LEMMA AppendBatchesWhole ==
  ASSUME NEW s \in Seq(Event), NEW b \in Seq(Event), NEW m \in Missions, NEW n \in Nat,
         NEW w, BatchesWhole(s), Continues(b, m, n), OneBatch(b, w)
  PROVE  BatchesWhole(s \o b)
<1> DEFINE c == s \o b
<1> SUFFICES ASSUME NEW i \in DOMAIN c, NEW k \in 1..c[i].size
             PROVE  LET j == i - c[i].pos + k
                    IN  /\ j \in DOMAIN c
                        /\ SameMission(c, i, j)
                        /\ c[j].by = c[i].by /\ c[j].pos = k /\ c[j].size = c[i].size
                        /\ c[j].sequence - c[i].sequence = k - c[i].pos
  BY DEF BatchesWhole
<1>1. CASE i \in DOMAIN s
  <2>1. c[i] = s[i] /\ \A j \in DOMAIN s : j \in DOMAIN c /\ c[j] = s[j]
    BY <1>1, ConcatIndex
  <2> HIDE DEF c
  <2> QED BY <1>1, <2>1 DEF BatchesWhole, SameMission
<1>2. CASE i - Len(s) \in DOMAIN b
  <2>1. c[i] = b[i - Len(s)] /\ DOMAIN b = 1..Len(b) /\ i \in Nat /\ Len(s) \in Nat /\ Len(b) \in Nat
    BY <1>2, ConcatIndex
  <2>2. c[i].pos = i - Len(s) /\ c[i].size = Len(b) /\ c[i].by = w
        /\ c[i].mission = m /\ c[i].sequence = n + (i - Len(s))
    BY <1>2, <2>1 DEF OneBatch, Continues
  <2>3. k \in DOMAIN b
    BY <2>1, <2>2
  <2>4. k + Len(s) \in DOMAIN c /\ c[k + Len(s)] = b[k]
    BY <2>3, ConcatIndex
  <2>5. b[k].pos = k /\ b[k].size = Len(b) /\ b[k].by = w /\ b[k].mission = m /\ b[k].sequence = n + k
    BY <2>3 DEF OneBatch, Continues
  <2> HIDE DEF c
  <2>6. i - c[i].pos + k = k + Len(s)
    BY <2>1, <2>2
  <2>7. c[k + Len(s)].sequence - c[i].sequence = k - c[i].pos
    BY <2>1, <2>2, <2>4, <2>5
  <2> QED BY <2>2, <2>4, <2>5, <2>6, <2>7 DEF SameMission
<1> QED BY <1>1, <1>2, ConcatIndex

\* A batch stamped no earlier than the log keeps the times ordered.
LEMMA AppendTimesOrdered ==
  ASSUME NEW s \in Seq(Event), NEW b \in Seq(Event), NEW m \in Missions, NEW n \in Nat,
         NEW now \in Nat, TimesOrdered(s), IsHighestSequence(n, s, m), Continues(b, m, n),
         \A i \in DOMAIN s : s[i].timestamp <= now,
         \A i \in DOMAIN b : b[i].timestamp = now
  PROVE  /\ TimesOrdered(s \o b)
         /\ \A i \in DOMAIN (s \o b) : (s \o b)[i].timestamp <= now
<1> DEFINE c == s \o b
<1>1. \A i \in DOMAIN s : s[i].timestamp \in Nat /\ s[i].sequence \in Nat
  BY EventFields
<1>2. \A i \in DOMAIN c : c[i].timestamp <= now
  BY <1>1, ConcatIndex
<1>3. ASSUME NEW i \in DOMAIN c, NEW j \in DOMAIN c,
             SameMission(c, i, j), c[i].sequence < c[j].sequence
      PROVE  c[i].timestamp <= c[j].timestamp
  <2>1. CASE j - Len(s) \in DOMAIN b
    <3>1. c[j].timestamp = now
      BY <2>1, ConcatIndex
    <3> QED BY <3>1, <1>2
  <2>2. CASE j \in DOMAIN s /\ i - Len(s) \in DOMAIN b
    <3>1. c[j] = s[j] /\ c[i] = b[i - Len(s)] /\ DOMAIN b = 1..Len(b) /\ Len(b) \in Nat
      BY <2>2, ConcatIndex
    <3>2. c[i].mission = m /\ c[i].sequence = n + (i - Len(s)) /\ i - Len(s) >= 1
      BY <2>2, <3>1 DEF Continues
    <3>3. c[j].sequence <= n /\ c[j].sequence \in Nat
      BY <2>2, <3>1, <3>2, <1>1, <1>3 DEF IsHighestSequence, SameMission
    <3> HIDE DEF c
    <3> QED BY <2>2, <3>1, <3>2, <3>3, <1>3
  <2>3. CASE j \in DOMAIN s /\ i \in DOMAIN s
    <3>1. c[j] = s[j] /\ c[i] = s[i]
      BY <2>3, ConcatIndex
    <3> HIDE DEF c
    <3> QED BY <2>3, <3>1, <1>3 DEF TimesOrdered, SameMission
  <2> QED BY <2>1, <2>2, <2>3, ConcatIndex
<1> QED BY <1>2, <1>3 DEF TimesOrdered

\* Events that agree with the mode keep a stream homogeneous.
LEMMA AppendHomogeneous ==
  ASSUME NEW s \in Seq(Event), NEW b \in Seq(Event), NEW declared, Homogeneous(s, declared),
         \A i \in DOMAIN b : AgreesWithMode(b[i], declared)
  PROVE  Homogeneous(s \o b, declared)
BY ConcatIndex DEF Homogeneous

(***************************************************************************)
(* The recorder.                                                           *)
(***************************************************************************)

USE DEF Modes

\* What a call in progress is made of.
LEMMA CallFields ==
  ASSUME NEW c \in Calls
  PROVE  /\ c.kind \in Kinds /\ c.mission \in Missions /\ c.size \in Nat
         /\ c.occurrence \in Occurrences \cup {NoOccurrence}
         /\ c.kind # "explicit" => c.occurrence = NoOccurrence
  BY RecorderAssumption DEF Calls, Kinds

\* The empty call is no call.
LEMMA NoCallIsNoCall == NoCall \notin Calls
  BY DEF NoCall, Calls

\* A restored counter is a number.
LEMMA RestoredHighest ==
  ASSUME NEW p \in Priors, NEW m \in Missions
  PROVE  /\ Restored(p.events, m) \in Nat
         /\ IsHighestSequence(Restored(p.events, m), p.events, m)
<1> DEFINE own == {i \in DOMAIN p.events : p.events[i].mission = m}
           S == {0} \cup {p.events[i].sequence : i \in own}
           bounds == {n \in Nat : \A x \in S : x <= n}
           less == {pair \in Nat \X Nat : pair[1] < pair[2]}
<1>1. p.events \in Seq(Event) /\ \A i \in DOMAIN p.events : p.events[i] \in Event
  BY RecorderAssumption
<1>2. S \subseteq 0..MaxSequence
  BY <1>1, RecorderAssumption, StreamAssumption DEF Event
<1>3. \E n \in S : \A x \in S : n >= x
  <2>1. MaxSequence \in bounds
    BY <1>2, StreamAssumption
  <2>2. IsWellFoundedOn(less, Nat)
    BY NatLessThanWellFounded DEF OpToRel
  <2>3. PICK b \in bounds : \A n \in bounds : <<n, b>> \notin less
    <3> HIDE DEF bounds, less
    <3>1. bounds \subseteq Nat /\ bounds # {}
      BY <2>1 DEF bounds
    <3> QED BY <2>2, <3>1, WFMin
  <2>4. b \in S
    <3> SUFFICES ASSUME b \notin S PROVE FALSE
      OBVIOUS
    <3>1. b \in Nat \ {0}
      OBVIOUS
    <3>2. \A x \in S : x <= b - 1
      BY <1>2, <3>1
    <3>3. b - 1 \in bounds
      BY <3>1, <3>2
    <3>4. <<b - 1, b>> \in less
      BY <3>1
    <3> QED BY <3>3, <3>4, <2>3
  <2> QED BY <2>4, <1>2
<1>4. Max(S) \in S /\ \A x \in S : Max(S) >= x
  BY <1>3 DEF Max
<1>5. Restored(p.events, m) = Max(S)
  BY DEF Restored
<1>6. \A x \in S : x = 0 \/ \E i \in own : p.events[i].sequence = x
  OBVIOUS
<1>7. \A i \in own : p.events[i].sequence \in S
  OBVIOUS
<1>8. Max(S) \in Nat
  BY <1>2, <1>4
<1> HIDE DEF S
<1> QED BY <1>2, <1>4, <1>5, <1>6, <1>7, <1>8 DEF IsHighestSequence

-----------------------------------------------------------------------------
(* Type correctness.                                                       *)

\* The event a build step appends is an event.
LEMMA NextEventTyped ==
  ASSUME NEW t \in Threads, TypeOK, call[t] \in Calls
  PROVE  NextEvent(t) \in Event
<1>1. /\ call[t].mission \in Missions /\ call[t].size \in Nat
      /\ call[t].occurrence \in Occurrences \cup {NoOccurrence}
  BY CallFields
<1>2. sequences[call[t].mission] \in Nat /\ Len(built[t]) \in Nat
  BY <1>1 DEF TypeOK
<1>3. t \in Writers /\ DecisionAt \in Nat
  BY RecorderAssumption
<1> QED BY <1>1, <1>2, <1>3 DEF NextEvent, Event

\* The initial state is typed.
LEMMA TypeInit == Init => TypeOK
<1> SUFFICES ASSUME Init PROVE TypeOK
  OBVIOUS
<1>1. <<>> \in Seq(Event) /\ EmptyStream \in [mode: Modes, events: Seq(Event)]
  BY DEF EmptyStream
<1>2. mode \in Modes
  BY DEF Init, InitialMode
<1> HIDE DEF Modes
<1> QED BY <1>1, <1>2, RecorderAssumption DEF Init, TypeOK

PCs == {"idle", "entered", "preparing", "waiting", "building", "committing", "reading", "assembling"}

\* The moves of a program counter keep the thread's variables typed.
LEMMA LocalsTyped ==
  ASSUME NEW t \in Threads, TypeOK
  PROVE  /\ Return(t) => /\ pc' \in [Threads -> PCs]
                         /\ call' \in [Threads -> Calls \cup {NoCall}]
                         /\ built' \in [Threads -> Seq(Event)]
         /\ \A label \in PCs : Goto(t, label) => /\ pc' \in [Threads -> PCs]
                                                 /\ call' \in [Threads -> Calls \cup {NoCall}]
<1>1. <<>> \in Seq(Event)
  OBVIOUS
<1> QED BY <1>1 DEF TypeOK, Return, Goto, PCs

\* Every step keeps the types.
LEMMA TypeStep == IInv /\ [Next]_vars => TypeOK'
<1> SUFFICES ASSUME IInv, [Next]_vars PROVE TypeOK'
  OBVIOUS
<1> TypeOK /\ CallInv /\ FactoryInv
  BY DEF IInv
<1> HIDE DEF Modes
<1>1. ASSUME NEW t \in Threads, Begin(t) PROVE TypeOK'
  BY <1>1, RecorderAssumption DEF Begin, TypeOK, factoryVars, shared
<1>2. ASSUME NEW t \in Threads, CheckMode(t) PROVE TypeOK'
  <2>1. /\ pc' \in [Threads -> PCs] /\ call' \in [Threads -> Calls \cup {NoCall}]
        /\ built' \in [Threads -> Seq(Event)]
    BY <1>2, LocalsTyped DEF CheckMode, TypeOK, PCs
  <2> QED BY <1>2, <2>1 DEF CheckMode, TypeOK, factoryVars, shared, PCs
<1>3. ASSUME NEW t \in Threads, Prepare(t) PROVE TypeOK'
  <2>1. /\ pc' \in [Threads -> PCs] /\ call' \in [Threads -> Calls \cup {NoCall}]
        /\ built' \in [Threads -> Seq(Event)]
    BY <1>3, LocalsTyped DEF Prepare, TypeOK, PCs
  <2> QED BY <1>3, <2>1 DEF Prepare, TypeOK, factoryVars, shared, PCs
<1>4. ASSUME NEW t \in Threads, Acquire(t) PROVE TypeOK'
  BY <1>4, RecorderAssumption DEF Acquire, Goto, TypeOK, factoryVars, shared
<1>5. ASSUME NEW t \in Threads, Build(t) PROVE TypeOK'
  <2>1. NextEvent(t) \in Event
    BY <1>5, NextEventTyped DEF Build, CallInv
  <2>2. built' \in [Threads -> Seq(Event)]
    BY <1>5, <2>1 DEF Build, TypeOK
  <2> QED BY <1>5, <2>2 DEF Build, TypeOK, factoryVars, shared
<1>6. ASSUME NEW t \in Threads, BuildRaises(t) PROVE TypeOK'
  BY <1>6 DEF BuildRaises, Return, TypeOK, factoryVars, shared
<1>7. ASSUME NEW t \in Threads, CommitCounter(t) PROVE TypeOK'
  <2>1. call[t].mission \in Missions /\ call[t].size \in Nat
    BY <1>7, CallFields DEF CommitCounter, CallInv
  <2>2. sequences' \in [Missions -> Nat]
    <3>1. sequences \in [Missions -> Nat] /\ sequences[call[t].mission] + call[t].size \in Nat
      BY <2>1 DEF TypeOK
    <3> QED BY <1>7, <2>1, <3>1 DEF CommitCounter
  <2>3. pc' \in [Threads -> PCs] /\ call' \in [Threads -> Calls \cup {NoCall}]
    BY <1>7, LocalsTyped DEF CommitCounter, PCs
  <2> QED BY <1>7, <2>2, <2>3 DEF CommitCounter, TypeOK, factoryVars, PCs
<1>8. ASSUME NEW t \in Threads, CommitEvents(t) PROVE TypeOK'
  <2>1. events' \in Seq(Event)
    BY <1>8, ConcatProperties DEF CommitEvents, TypeOK
  <2> QED BY <1>8, <2>1 DEF CommitEvents, Return, TypeOK, factoryVars
<1>9. ASSUME NEW t \in Threads, Snapshot(t) PROVE TypeOK'
  BY <1>9 DEF Snapshot, Goto, TypeOK, factoryVars, shared
<1>10. ASSUME NEW t \in Threads, Assemble(t) PROVE TypeOK'
  BY <1>10 DEF Assemble, Return, TypeOK, factoryVars, shared
<1>11. ASSUME CheckFactory \/ FactoryAcquire \/ FactoryRefuses PROVE TypeOK'
  BY <1>11, RecorderAssumption DEF CheckFactory, FactoryAcquire, FactoryRefuses, TypeOK, shared, local
<1>12. ASSUME SwitchMode PROVE TypeOK'
  BY <1>12 DEF SwitchMode, TypeOK, local, Modes
<1>13. ASSUME InstallMode \/ InstallPrefix PROVE TypeOK'
  <2>1. factory.kind = "resume"
    BY <1>13 DEF InstallMode, InstallPrefix, FactoryInv
  <2>2. factory.prior \in Priors
    BY <2>1 DEF TypeOK, Factories
  <2>3. factory.prior.mode \in Modes /\ factory.prior.events \in Seq(Event)
    BY <2>2, RecorderAssumption
  <2>4. \A m \in Missions : Restored(factory.prior.events, m) \in Nat
    BY <2>2, RestoredHighest
  <2> QED BY <1>13, <2>3, <2>4 DEF InstallMode, InstallPrefix, TypeOK, local
<1>14. ASSUME UNCHANGED vars PROVE TypeOK'
  BY <1>14 DEF vars, TypeOK
<1> QED BY <1>1, <1>2, <1>3, <1>4, <1>5, <1>6, <1>7, <1>8, <1>9, <1>10, <1>11, <1>12, <1>13, <1>14
        DEF Next, Step, FactoryStep, Finished

-----------------------------------------------------------------------------
(* Mutual exclusion, and what a thread in a call is doing.                 *)

\* Whoever the program counters put into the critical section holds the lock.
LEMMA LockStep == IInv /\ [Next]_vars => LockInv'
<1> SUFFICES ASSUME IInv, [Next]_vars PROVE LockInv'
  OBVIOUS
<1> TypeOK /\ LockInv
  BY DEF IInv
<1> USE DEF LockInv, InCriticalSection
<1>0. Constructor \notin Threads /\ Nobody \notin Threads /\ Nobody # Constructor
      /\ pc \in [Threads -> PCs]
  BY RecorderAssumption DEF TypeOK, PCs
<1>1. ASSUME NEW t \in Threads, Begin(t) \/ CheckMode(t) \/ Prepare(t) \/ Assemble(t) PROVE LockInv'
  BY <1>0, <1>1 DEF Begin, CheckMode, Prepare, Assemble, Return, Goto, factoryVars
<1>2. ASSUME NEW t \in Threads, Acquire(t) PROVE LockInv'
  BY <1>0, <1>2 DEF Acquire, LockFree, Goto, factoryVars
<1>3. ASSUME NEW t \in Threads, Build(t) \/ CommitCounter(t) PROVE LockInv'
  BY <1>0, <1>3 DEF Build, CommitCounter, Goto, factoryVars
<1>4. ASSUME NEW t \in Threads, BuildRaises(t) \/ CommitEvents(t) \/ Snapshot(t) PROVE LockInv'
  BY <1>0, <1>4 DEF BuildRaises, CommitEvents, Snapshot, Return, Goto, factoryVars
<1>5. ASSUME CheckFactory \/ FactoryAcquire \/ FactoryRefuses \/ SwitchMode \/ InstallMode \/ InstallPrefix
      PROVE  LockInv'
  BY <1>0, <1>5 DEF CheckFactory, FactoryAcquire, FactoryRefuses, SwitchMode, InstallMode,
                    InstallPrefix, LockFree, local
<1>6. ASSUME UNCHANGED vars PROVE LockInv'
  BY <1>6 DEF vars
<1> QED BY <1>1, <1>2, <1>3, <1>4, <1>5, <1>6 DEF Next, Step, FactoryStep, Finished

\* A call at each place remains what it may be there.
LEMMA CallStep == IInv /\ [Next]_vars => CallInv'
<1> SUFFICES ASSUME IInv, [Next]_vars PROVE CallInv'
  OBVIOUS
<1> TypeOK /\ CallInv
  BY DEF IInv
<1> USE DEF CallInv
<1>0. /\ pc \in [Threads -> PCs] /\ call \in [Threads -> Calls \cup {NoCall}]
      /\ built \in [Threads -> Seq(Event)]
  BY DEF TypeOK, PCs
<1>1. ASSUME NEW t \in Threads, Begin(t) PROVE CallInv'
  BY <1>0, <1>1 DEF Begin
<1>2. ASSUME NEW t \in Threads, Return(t) PROVE CallInv'
  BY <1>0, <1>2 DEF Return
<1>3. ASSUME NEW t \in Threads, CheckMode(t) PROVE CallInv'
  BY <1>0, <1>2, <1>3 DEF CheckMode, Goto
<1>4. ASSUME NEW t \in Threads, Prepare(t) PROVE CallInv'
  BY <1>0, <1>2, <1>4 DEF Prepare, Goto
<1>5. ASSUME NEW t \in Threads, Acquire(t) \/ Build(t) \/ CommitCounter(t) \/ Snapshot(t) PROVE CallInv'
  BY <1>0, <1>5 DEF Acquire, Build, CommitCounter, Snapshot, Goto
<1>6. ASSUME NEW t \in Threads, BuildRaises(t) \/ CommitEvents(t) \/ Assemble(t) PROVE CallInv'
  BY <1>2, <1>6 DEF BuildRaises, CommitEvents, Assemble
<1>7. ASSUME FactoryStep \/ UNCHANGED vars PROVE CallInv'
  BY <1>7 DEF FactoryStep, CheckFactory, FactoryAcquire, FactoryRefuses, SwitchMode, InstallMode,
              InstallPrefix, local, vars
<1> QED BY <1>1, <1>3, <1>4, <1>5, <1>6, <1>7 DEF Next, Step, Finished

\* Only the holder of the lock is building or committing.
LEMMA OneHolder ==
  ASSUME LockInv, NEW t \in Threads, NEW u \in Threads, InCriticalSection(t), InCriticalSection(u)
  PROVE  t = u
BY DEF LockInv

\* How a step may change the events and the mode.
LEMMA SharedChanges ==
  ASSUME IInv, [Next]_vars
  PROVE  \/ UNCHANGED <<events, mode>>
         \/ \E t \in Threads : CommitEvents(t)
         \/ SwitchMode \/ InstallMode \/ InstallPrefix
<1>1. ASSUME NEW t \in Threads, Begin(t) \/ Step(t)
      PROVE  UNCHANGED <<events, mode>> \/ CommitEvents(t)
  BY <1>1 DEF Begin, Step, CheckMode, Prepare, Acquire, Build, BuildRaises, CommitCounter, Snapshot,
              Assemble, shared
<1>2. ASSUME FactoryStep
      PROVE  UNCHANGED <<events, mode>> \/ SwitchMode \/ InstallMode \/ InstallPrefix
  BY <1>2 DEF FactoryStep, CheckFactory, FactoryAcquire, FactoryRefuses, shared
<1> QED BY <1>1, <1>2 DEF Next, Finished, vars

-----------------------------------------------------------------------------
(* The batch under construction.                                           *)

BuiltOK(t) ==
  /\ pc[t] = "building" =>
       Len(built[t]) <= call[t].size /\ BatchOf(t, sequences[call[t].mission])
  /\ pc[t] = "committing" =>
       /\ Len(built[t]) = call[t].size /\ call[t].size <= sequences[call[t].mission]
       /\ BatchOf(t, sequences[call[t].mission] - call[t].size)

\* A step that leaves t's locals, the counters and the mode alone.
LEMMA BuiltUnchanged ==
  ASSUME NEW t \in Threads, BuiltOK(t),
         pc'[t] = pc[t], call'[t] = call[t], built'[t] = built[t], UNCHANGED <<sequences, mode>>
  PROVE  BuiltOK(t)'
BY DEF BuiltOK, BatchOf, AgreesWithMode

\* Building one more event extends a batch that continues the mission.
LEMMA BuildExtends ==
  ASSUME IInv, NEW t \in Threads, Build(t)
  PROVE  BuiltOK(t)'
<1> TypeOK /\ CallInv /\ BuiltInv
  BY DEF IInv
<1> DEFINE e == NextEvent(t)
           m == call[t].mission
<1>1. /\ pc[t] = "building" /\ pc' = pc /\ call' = call /\ mode' = mode /\ sequences' = sequences
      /\ Len(built[t]) < call[t].size /\ AgreesWithMode(e, mode)
      /\ built' = [built EXCEPT ![t] = Append(@, e)]
  BY DEF Build, CommitAllowed, shared
<1>2. call[t].size \in Nat /\ built[t] \in Seq(Event) /\ e \in Event
  BY <1>1, CallFields, NextEventTyped DEF CallInv, TypeOK
<1>3. built'[t] = Append(built[t], e)
  BY <1>1 DEF TypeOK
<1>4. BatchOf(t, sequences[m])
  BY <1>1 DEF BuiltInv
<1>5. e = [mission |-> m, sequence |-> sequences[m] + (Len(built[t]) + 1),
           timestamp |-> DecisionAt, occurrence |-> call[t].occurrence,
           by |-> t, pos |-> Len(built[t]) + 1, size |-> call[t].size]
  <2>1. sequences[m] \in Nat /\ Len(built[t]) \in Nat
    BY <1>1, <1>2, CallFields DEF TypeOK, CallInv
  <2>2. sequences[m] + Len(built[t]) + 1 = sequences[m] + (Len(built[t]) + 1)
    BY <2>1
  <2> QED BY <2>2 DEF NextEvent
<1> HIDE DEF e, m
<1>6. Len(built'[t]) = Len(built[t]) + 1 /\ Len(built'[t]) <= call[t].size
  BY <1>1, <1>2, <1>3
<1>7. ASSUME NEW i \in DOMAIN built'[t]
      PROVE  /\ built'[t][i] = [mission |-> m, sequence |-> sequences[m] + i,
                                timestamp |-> DecisionAt, occurrence |-> call[t].occurrence,
                                by |-> t, pos |-> i, size |-> call[t].size]
             /\ AgreesWithMode(built'[t][i], mode)
  <2>1. CASE i \in DOMAIN built[t]
    <3>1. built'[t][i] = built[t][i]
      BY <1>2, <1>3, <2>1, AppendProperties
    <3> QED BY <3>1, <2>1, <1>4 DEF BatchOf, m
  <2>2. CASE i = Len(built[t]) + 1
    <3>1. built'[t][i] = e
      BY <1>2, <1>3, <2>2, AppendProperties
    <3> QED BY <3>1, <2>2, <1>5, <1>1
  <2> QED BY <2>1, <2>2, <1>2, <1>3, AppendProperties
<1>8. BatchOf(t, sequences[m])'
  BY <1>1, <1>7 DEF BatchOf, AgreesWithMode, m
<1> QED BY <1>1, <1>6, <1>8 DEF BuiltOK, m

\* Every step keeps the batches under construction so.
LEMMA BuiltStep == IInv /\ [Next]_vars => BuiltInv'
<1> SUFFICES ASSUME IInv, [Next]_vars, NEW u \in Threads PROVE BuiltOK(u)'
  BY DEF BuiltInv, BuiltOK
<1> TypeOK /\ LockInv /\ CallInv /\ BuiltInv
  BY DEF IInv
<1>0. /\ pc \in [Threads -> PCs] /\ call \in [Threads -> Calls \cup {NoCall}]
      /\ built \in [Threads -> Seq(Event)]
  BY DEF TypeOK, PCs
<1>1. BuiltOK(u)
  BY DEF BuiltInv, BuiltOK
<1>2. CASE pc'[u] \notin {"building", "committing"}
  BY <1>2 DEF BuiltOK
<1>3. ASSUME NEW t \in Threads, t # u, Begin(t) \/ Step(t), pc[u] \in {"building", "committing"}
      PROVE  BuiltOK(u)'
  <2>1. ~InCriticalSection(t)
    BY <1>3, OneHolder DEF InCriticalSection
  <2>2. pc'[u] = pc[u] /\ call'[u] = call[u] /\ built'[u] = built[u]
    BY <1>0, <1>3 DEF Begin, Step, CheckMode, Prepare, Acquire, Build, BuildRaises, CommitCounter,
                      CommitEvents, Snapshot, Assemble, Return, Goto
  <2>3. UNCHANGED <<sequences, mode>>
    BY <1>3, <2>1 DEF Begin, Step, CheckMode, Prepare, Acquire, Build, BuildRaises, CommitCounter,
                      CommitEvents, Snapshot, Assemble, InCriticalSection, shared
  <2> QED BY <2>2, <2>3, <1>1, BuiltUnchanged
<1>4. ASSUME NEW t \in Threads, t # u, Begin(t) \/ Step(t), pc[u] \notin {"building", "committing"}
      PROVE  BuiltOK(u)'
  <2>1. pc'[u] = pc[u]
    BY <1>0, <1>4 DEF Begin, Step, CheckMode, Prepare, Acquire, Build, BuildRaises, CommitCounter,
                      CommitEvents, Snapshot, Assemble, Return, Goto
  <2> QED BY <2>1, <1>4, <1>2
<1>5. CASE Acquire(u)
  <2>1. pc'[u] \in {"reading", "building"} /\ built' = built /\ built[u] = <<>> /\ call' = call
    BY <1>0, <1>5 DEF Acquire, Goto, CallInv
  <2>2. CASE pc'[u] = "building"
    <3>1. call[u].size \in Nat
      BY <1>5, CallFields DEF Acquire, CallInv
    <3> QED BY <2>1, <2>2, <3>1 DEF BuiltOK, BatchOf
  <2> QED BY <2>1, <2>2, <1>2
<1>6. CASE Build(u)
  BY <1>6, BuildExtends
<1>7. CASE CommitCounter(u)
  <2>1. /\ pc[u] = "building" /\ pc'[u] = "committing" /\ call' = call /\ built' = built /\ mode' = mode
        /\ Len(built[u]) = call[u].size
        /\ sequences' = [sequences EXCEPT ![call[u].mission] = @ + call[u].size]
    BY <1>0, <1>7 DEF CommitCounter, Goto
  <2>2. call[u].mission \in Missions /\ call[u].size \in Nat
    BY <2>1, CallFields DEF CallInv
  <2>3. /\ sequences[call[u].mission] \in Nat
        /\ sequences'[call[u].mission] = sequences[call[u].mission] + call[u].size
    BY <2>1, <2>2 DEF TypeOK
  <2>4. /\ sequences'[call[u].mission] - call[u].size = sequences[call[u].mission]
        /\ call[u].size <= sequences'[call[u].mission]
    BY <2>2, <2>3
  <2>5. BatchOf(u, sequences[call[u].mission])
    BY <1>1, <2>1 DEF BuiltOK
  <2>6. BatchOf(u, sequences[call[u].mission] - call[u].size)'
    BY <2>1, <2>4, <2>5 DEF BatchOf, AgreesWithMode
  <2> QED BY <2>1, <2>4, <2>6 DEF BuiltOK
<1>8. CASE Begin(u) \/ CheckMode(u) \/ Prepare(u) \/ BuildRaises(u) \/ CommitEvents(u) \/ Snapshot(u) \/ Assemble(u)
  <2>1. pc'[u] \notin {"building", "committing"}
    BY <1>0, <1>8 DEF Begin, CheckMode, Prepare, BuildRaises, CommitEvents, Snapshot, Assemble, Return, Goto
  <2> QED BY <2>1, <1>2
<1>9. CASE FactoryStep
  <2>1. pc' = pc /\ call' = call /\ built' = built
    BY <1>9 DEF FactoryStep, CheckFactory, FactoryAcquire, FactoryRefuses, SwitchMode, InstallMode,
                InstallPrefix, local
  <2>2. CASE lock = Constructor
    BY <2>1, <2>2, RecorderAssumption DEF LockInv, InCriticalSection, BuiltOK
  <2>3. CASE lock # Constructor
    <3>1. UNCHANGED <<sequences, mode>>
      BY <1>9, <2>3 DEF FactoryStep, CheckFactory, FactoryAcquire, FactoryRefuses, SwitchMode,
                        InstallMode, InstallPrefix, shared, LockInv
    <3> QED BY <2>1, <3>1, <1>1, BuiltUnchanged
  <2> QED BY <2>2, <2>3
<1>10. CASE UNCHANGED vars
  BY <1>10, <1>1, BuiltUnchanged DEF vars
<1> QED BY <1>3, <1>4, <1>5, <1>6, <1>7, <1>8, <1>9, <1>10 DEF Next, Step, Finished

-----------------------------------------------------------------------------
(* The log.                                                                *)

\* What a committing thread is about to append.
LEMMA CommitFacts ==
  ASSUME IInv, NEW t \in Threads, pc[t] = "committing"
  PROVE  LET m == call[t].mission
             n == sequences[m] - call[t].size
         IN  /\ m \in Missions /\ n \in Nat /\ built[t] \in Seq(Event)
             /\ Len(built[t]) > 0 /\ Len(built[t]) = call[t].size /\ lock = t
             /\ Continues(built[t], m, n) /\ OneBatch(built[t], t)
             /\ IsHighestSequence(n, events, m)
             /\ \A i \in DOMAIN built[t] :
                  built[t][i].timestamp = DecisionAt /\ AgreesWithMode(built[t][i], mode)
<1> TypeOK /\ LockInv /\ CallInv /\ BuiltInv /\ CountersInv
  BY DEF IInv
<1> DEFINE m == call[t].mission
           n == sequences[m] - call[t].size
<1>1. /\ m \in Missions /\ call[t].size \in Nat /\ call[t].size > 0 /\ sequences[m] \in Nat
      /\ built[t] \in Seq(Event)
  BY CallFields DEF CallInv, TypeOK
<1>2. Len(built[t]) = call[t].size /\ call[t].size <= sequences[m] /\ BatchOf(t, n)
  BY DEF BuiltInv
<1>3. n \in Nat
  BY <1>1, <1>2
<1>4. lock = t
  BY DEF LockInv, InCriticalSection
<1>5. CommittedSequence(m) = n
  BY <1>4 DEF CommittedSequence
<1>6. IsHighestSequence(n, events, m)
  BY <1>1, <1>5 DEF CountersInv
<1> HIDE DEF m, n
<1>7. \A i \in DOMAIN built[t] :
        /\ built[t][i].mission = m /\ built[t][i].sequence = n + i /\ built[t][i].pos = i
        /\ built[t][i].size = Len(built[t]) /\ built[t][i].by = t
        /\ built[t][i].timestamp = DecisionAt /\ AgreesWithMode(built[t][i], mode)
  <2> TAKE i \in DOMAIN built[t]
  <2>1. AgreesWithMode(built[t][i], mode)
    BY <1>2 DEF BatchOf
  <2>2. built[t][i] = [mission |-> m, sequence |-> n + i, timestamp |-> DecisionAt,
                       occurrence |-> call[t].occurrence, by |-> t, pos |-> i, size |-> Len(built[t])]
    BY <1>2 DEF BatchOf, m
  <2> QED BY <2>1, <2>2
<1>8. Continues(built[t], m, n) /\ OneBatch(built[t], t)
  BY <1>7 DEF Continues, OneBatch
<1>9. Len(built[t]) > 0
  BY <1>1, <1>2
<1>10. \A i \in DOMAIN built[t] :
         built[t][i].timestamp = DecisionAt /\ AgreesWithMode(built[t][i], mode)
  BY <1>7
<1> QED BY <1>1, <1>2, <1>3, <1>4, <1>6, <1>8, <1>9, <1>10 DEF m, n

\* The log stays well formed, its batches whole, its stamps in the past.
LEMMA LogStep ==
  ASSUME IInv, [Next]_vars
  PROVE  (WellFormed(events, mode) /\ DecisionsAtomic /\ StampsInv)'
<1> TypeOK /\ WellFormed(events, mode) /\ DecisionsAtomic /\ StampsInv /\ FactoryInv
  BY DEF IInv
<1>1. CASE UNCHANGED <<events, mode>>
  BY <1>1 DEF DecisionsAtomic, StampsInv
<1>2. ASSUME NEW t \in Threads, CommitEvents(t)
      PROVE  (WellFormed(events, mode) /\ DecisionsAtomic /\ StampsInv)'
  <2>1. events' = events \o built[t] /\ mode' = mode /\ pc[t] = "committing"
    BY <1>2 DEF CommitEvents
  <2> DEFINE b == built[t]
             m == call[t].mission
             n == sequences[m] - call[t].size
  <2>2. /\ m \in Missions /\ n \in Nat /\ b \in Seq(Event) /\ Len(b) > 0
        /\ Continues(b, m, n) /\ OneBatch(b, t) /\ IsHighestSequence(n, events, m)
        /\ \A i \in DOMAIN b : b[i].timestamp = DecisionAt /\ AgreesWithMode(b[i], mode)
    BY <2>1, CommitFacts
  <2>3. events \in Seq(Event) /\ DecisionAt \in Nat
    BY RecorderAssumption DEF TypeOK
  <2> HIDE DEF b, m, n
  <2>4. Contiguous(events \o b)
    BY <2>2, <2>3, AppendContiguous DEF WellFormed
  <2>5. /\ TimesOrdered(events \o b)
        /\ \A i \in DOMAIN (events \o b) : (events \o b)[i].timestamp <= DecisionAt
    BY <2>2, <2>3, AppendTimesOrdered DEF WellFormed, StampsInv
  <2>6. Homogeneous(events \o b, mode)
    BY <2>2, <2>3, AppendHomogeneous DEF WellFormed
  <2>7. BatchesWhole(events \o b)
    BY <2>2, <2>3, AppendBatchesWhole DEF DecisionsAtomic
  <2>8. \A i \in DOMAIN (events \o b) : (events \o b)[i].pos \in 1..(events \o b)[i].size
    BY <2>2, <2>3, ConcatIndex DEF OneBatch, StampsInv
  <2>9. events' = events \o b
    BY <2>1 DEF b
  <2> QED BY <2>1, <2>4, <2>5, <2>6, <2>7, <2>8, <2>9 DEF WellFormed, DecisionsAtomic, StampsInv
<1>3. CASE SwitchMode \/ InstallMode
  <2>1. events = <<>> /\ events' = <<>>
    BY <1>3 DEF SwitchMode, InstallMode, NothingRecorded
  <2> QED BY <2>1 DEF WellFormed, Contiguous, NoDuplicateSequence, NoSequenceGap, TimesOrdered,
                      Homogeneous, DecisionsAtomic, BatchesWhole, StampsInv
<1>4. CASE InstallPrefix
  <2>1. /\ events' = factory.prior.events /\ mode' = mode /\ mode = factory.prior.mode
        /\ factory.kind = "resume" /\ FactoryChecks
    BY <1>4 DEF InstallPrefix, FactoryInv
  <2>2. Resumable(factory.prior)
    BY <2>1 DEF FactoryChecks
  <2>3. factory.prior \in Priors
    BY <2>1 DEF TypeOK, Factories
  <2>4. /\ events' \in Seq(Event)
        /\ \A i \in DOMAIN events' :
             events'[i].by = Constructor /\ events'[i].pos = 1 /\ events'[i].size = 1
    BY <2>1, <2>3, RecorderAssumption
  <2>5. BatchesWhole(events')
    <3> SUFFICES ASSUME NEW i \in DOMAIN events', NEW k \in 1..events'[i].size
                 PROVE  /\ k = 1 /\ i - events'[i].pos + k = i
                        /\ events'[i].sequence - events'[i].sequence = k - events'[i].pos
                        /\ events'[i].pos = k
      BY <2>4 DEF BatchesWhole, SameMission
    <3>1. events'[i].sequence \in Nat /\ i \in Nat
      BY <2>4, EventFields
    <3> QED BY <2>4, <3>1
  <2> QED BY <2>1, <2>2, <2>4, <2>5 DEF Resumable, DecisionsAtomic, StampsInv
<1> QED BY <1>1, <1>2, <1>3, <1>4, SharedChanges

\* What the counters say, step by step.
LEMMA CountersStep == IInv /\ [Next]_vars => CountersInv'
<1> SUFFICES ASSUME IInv, [Next]_vars, NEW m \in Missions
             PROVE  IsHighestSequence(CommittedSequence(m), events, m)'
  BY DEF CountersInv
<1> TypeOK /\ LockInv /\ CallInv /\ CountersInv /\ FactoryInv
  BY DEF IInv
<1>0. /\ pc \in [Threads -> PCs] /\ call \in [Threads -> Calls \cup {NoCall}]
      /\ sequences \in [Missions -> Nat] /\ events \in Seq(Event)
      /\ IsHighestSequence(CommittedSequence(m), events, m)
  BY DEF TypeOK, PCs, CountersInv
<1>1. ASSUME NEW t \in Threads, Begin(t) \/ CheckMode(t) \/ Prepare(t) \/ Acquire(t) \/ Build(t)
                              \/ BuildRaises(t) \/ Snapshot(t) \/ Assemble(t)
      PROVE  CommittedSequence(m)' = CommittedSequence(m) /\ events' = events
  <2>1. events' = events /\ sequences' = sequences
    BY <1>1 DEF Begin, CheckMode, Prepare, Acquire, Build, BuildRaises, Snapshot, Assemble, shared
  <2>2. pc[t] # "committing" /\ pc'[t] # "committing"
        /\ \A u \in Threads \ {t} : pc'[u] = pc[u] /\ call'[u] = call[u]
    BY <1>0, <1>1 DEF Begin, CheckMode, Prepare, Acquire, Build, BuildRaises, Snapshot, Assemble,
                      Return, Goto
  <2>3. \A u \in Threads : pc'[u] = "committing" <=> pc[u] = "committing"
    BY <2>2
  <2>4. CASE \E u \in Threads : pc[u] = "committing" /\ call[u].mission = m
    <3>1. PICK u \in Threads : pc[u] = "committing" /\ call[u].mission = m
      BY <2>4
    <3>2. u # t /\ lock = u
      BY <3>1, <2>2 DEF LockInv, InCriticalSection
    <3>3. lock' = u
      <4>1. LockInv' /\ pc'[u] = "committing"
        BY <3>1, <2>3, LockStep
      <4> QED BY <4>1 DEF LockInv, InCriticalSection
    <3>4. call'[u] = call[u] /\ pc'[u] = "committing"
      BY <3>1, <3>2, <2>2
    <3> QED BY <2>1, <3>1, <3>2, <3>3, <3>4 DEF CommittedSequence
  <2>5. CASE ~\E u \in Threads : pc[u] = "committing" /\ call[u].mission = m
    <3>1. ~\E u \in Threads : pc'[u] = "committing" /\ call'[u].mission = m
      BY <2>2, <2>5
    <3> QED BY <2>1, <2>5, <3>1 DEF CommittedSequence
  <2> QED BY <2>4, <2>5, <2>1
<1>2. ASSUME NEW t \in Threads, CommitCounter(t)
      PROVE  CommittedSequence(m)' = CommittedSequence(m) /\ events' = events
  <2> DEFINE own == call[t].mission
  <2>1. /\ pc[t] = "building" /\ pc' = [pc EXCEPT ![t] = "committing"] /\ call' = call /\ lock' = lock
        /\ events' = events /\ sequences' = [sequences EXCEPT ![own] = @ + call[t].size]
    BY <1>2 DEF CommitCounter, Goto
  <2>2. own \in Missions /\ call[t].size \in Nat
    BY <2>1, CallFields DEF CallInv
  <2>3. lock = t /\ \A u \in Threads : pc[u] # "committing"
    BY <2>1, OneHolder DEF LockInv, InCriticalSection
  <2>4. CommittedSequence(m) = sequences[m]
    BY <2>3 DEF CommittedSequence
  <2>5. CASE m = own
    <3>1. CommittedSequence(m)' = sequences'[m] - call[t].size
      BY <1>0, <2>1, <2>3, <2>5 DEF CommittedSequence
    <3>2. sequences'[m] = sequences[m] + call[t].size /\ sequences[m] \in Nat
      BY <1>0, <2>1, <2>2, <2>5
    <3> QED BY <2>1, <2>2, <2>4, <3>1, <3>2
  <2>6. CASE m # own
    <3>1. CommittedSequence(m)' = sequences'[m]
      BY <1>0, <2>1, <2>3, <2>6 DEF CommittedSequence
    <3> QED BY <1>0, <2>1, <2>2, <2>4, <2>6, <3>1
  <2> QED BY <2>5, <2>6
<1>3. ASSUME NEW t \in Threads, CommitEvents(t)
      PROVE  IsHighestSequence(CommittedSequence(m), events, m)'
  <2> DEFINE own == call[t].mission
             n == sequences[own] - call[t].size
             b == built[t]
  <2>1. /\ events' = events \o b /\ sequences' = sequences /\ pc[t] = "committing"
        /\ pc' = [pc EXCEPT ![t] = "idle"]
    BY <1>3 DEF CommitEvents, Return
  <2>2. /\ own \in Missions /\ n \in Nat /\ b \in Seq(Event) /\ Len(b) > 0 /\ Len(b) = call[t].size
        /\ lock = t /\ Continues(b, own, n) /\ IsHighestSequence(n, events, own)
    BY <2>1, CommitFacts
  <2>3. \A u \in Threads : pc'[u] # "committing"
    BY <1>0, <2>1, <2>2 DEF LockInv, InCriticalSection
  <2>4. CommittedSequence(m)' = sequences[m]
    BY <2>1, <2>3 DEF CommittedSequence
  <2>5. CASE m = own
    <3>1. sequences[m] = n + Len(b)
      BY <1>0, <2>2, <2>5
    <3> HIDE DEF own, n, b
    <3>2. IsHighestSequence(n + Len(b), events \o b, m)
      BY <1>0, <2>2, <2>5, AppendHighestOwn
    <3>3. IsHighestSequence(sequences[m], events', m)
      BY <3>1, <3>2, <2>1
    <3> QED BY <2>4, <3>3 DEF IsHighestSequence
  <2>6. CASE m # own
    <3>1. CommittedSequence(m) = sequences[m]
      BY <2>1, <2>2, <2>6 DEF CommittedSequence, LockInv, InCriticalSection
    <3>2. sequences[m] \in Nat /\ IsHighestSequence(sequences[m], events, m)
      BY <1>0, <3>1
    <3> HIDE DEF own, n, b
    <3>3. IsHighestSequence(sequences[m], events \o b, m)
      BY <1>0, <2>2, <2>6, <3>2, AppendHighestOther
    <3> QED BY <2>1, <2>4, <3>3 DEF IsHighestSequence
  <2> QED BY <2>5, <2>6
<1>4. ASSUME FactoryStep
      PROVE  IsHighestSequence(CommittedSequence(m), events, m)'
  <2>1. pc' = pc /\ call' = call
    BY <1>4 DEF FactoryStep, CheckFactory, FactoryAcquire, FactoryRefuses, SwitchMode, InstallMode,
                InstallPrefix, local
  <2>2. CASE UNCHANGED <<events, sequences, lock>>
    BY <1>0, <2>1, <2>2 DEF CommittedSequence, IsHighestSequence
  <2>3. CASE UNCHANGED <<events, sequences>> /\ \A t \in Threads : pc[t] # "committing"
    BY <1>0, <2>1, <2>3 DEF CommittedSequence, IsHighestSequence
  <2>4. CASE InstallPrefix
    <3>1. /\ factory.kind = "resume" /\ lock = Constructor
          /\ events' = factory.prior.events
          /\ sequences' = [q \in Missions |-> Restored(factory.prior.events, q)]
      BY <2>4 DEF InstallPrefix, FactoryInv, LockInv
    <3>2. factory.prior \in Priors
      BY <3>1 DEF TypeOK, Factories
    <3>3. \A t \in Threads : pc'[t] # "committing"
      BY <2>1, <3>1, RecorderAssumption DEF LockInv, InCriticalSection
    <3>4. CommittedSequence(m)' = Restored(factory.prior.events, m)
      BY <3>1, <3>3 DEF CommittedSequence
    <3>5. IsHighestSequence(Restored(factory.prior.events, m), factory.prior.events, m)
      BY <3>2, RestoredHighest
    <3> QED BY <3>1, <3>4, <3>5 DEF IsHighestSequence
  <2>5. CASE FactoryAcquire \/ FactoryRefuses \/ SwitchMode
    <3>1. \A t \in Threads : pc[t] # "committing"
      BY <2>5, RecorderAssumption
         DEF FactoryAcquire, FactoryRefuses, SwitchMode, LockFree, LockInv, InCriticalSection
    <3> QED BY <2>3, <2>5, <3>1 DEF FactoryAcquire, FactoryRefuses, SwitchMode, shared
  <2>6. CASE CheckFactory \/ InstallMode
    BY <2>2, <2>6 DEF CheckFactory, InstallMode, shared
  <2> QED BY <1>4, <2>4, <2>5, <2>6 DEF FactoryStep
<1>5. CASE UNCHANGED vars
  BY <1>0, <1>5 DEF vars, CommittedSequence, IsHighestSequence
<1>6. ASSUME CommittedSequence(m)' = CommittedSequence(m), events' = events
      PROVE  IsHighestSequence(CommittedSequence(m), events, m)'
  BY <1>0, <1>6 DEF IsHighestSequence
<1> QED BY <1>1, <1>2, <1>3, <1>4, <1>5, <1>6 DEF Next, Step, Finished

\* The empty stream is well formed in every mode.
LEMMA EmptyWellFormed == \A m : WellFormed(<<>>, m) /\ BatchesWhole(<<>>)
BY DEF WellFormed, Contiguous, NoDuplicateSequence, NoSequenceGap, TimesOrdered, Homogeneous, BatchesWhole

-----------------------------------------------------------------------------
(* The factory, the snapshots and the published streams.                   *)

\* While a factory may still switch the mode nothing is recorded, or it refuses.
LEMMA FactoryInvStep == IInv /\ [Next]_vars => FactoryInv'
<1> SUFFICES ASSUME IInv, [Next]_vars PROVE FactoryInv'
  OBVIOUS
<1> TypeOK /\ FactoryInv /\ LockInv
  BY DEF IInv
<1>1. CASE UNCHANGED <<factory, fpc, mode, events>>
  BY <1>1 DEF FactoryInv, InitialMode, FactoryChecks, Resumable
<1>2. ASSUME NEW t \in Threads, CommitEvents(t) PROVE FactoryInv'
  <2>1. lock = t /\ Constructor \notin Threads
    BY <1>2, CommitFacts, RecorderAssumption DEF CommitEvents
  <2>2. fpc # "installing" /\ UNCHANGED <<factory, fpc, mode>>
    BY <1>2, <2>1 DEF LockInv, CommitEvents, factoryVars
  <2> QED BY <2>2 DEF FactoryInv, InitialMode, FactoryChecks, Resumable
<1>3. CASE FactoryStep
  <2>1. factory' = factory /\ InitialMode' = InitialMode
    BY <1>3 DEF FactoryStep, CheckFactory, FactoryAcquire, FactoryRefuses, SwitchMode, InstallMode,
                InstallPrefix, InitialMode
  <2>2. FactoryChecks' = FactoryChecks
    BY <2>1 DEF FactoryChecks, Resumable
  <2> QED BY <1>3, <2>1, <2>2
          DEF FactoryStep, CheckFactory, FactoryAcquire, FactoryRefuses, SwitchMode, InstallMode,
              InstallPrefix, NothingRecorded, FactoryInv, shared
<1>4. ASSUME NEW t \in Threads, Begin(t) \/ Step(t)
      PROVE  UNCHANGED <<factory, fpc, mode, events>> \/ CommitEvents(t)
  BY <1>4 DEF Begin, Step, CheckMode, Prepare, Acquire, Build, BuildRaises, CommitCounter, Snapshot,
              Assemble, shared, factoryVars
<1> QED BY <1>1, <1>2, <1>3, <1>4 DEF Next, Finished, vars

\* A snapshot that waits for its mode still fits it.
LEMMA SnapshotStep == IInv /\ [Next]_vars => SnapshotInv'
<1> SUFFICES ASSUME IInv, [Next]_vars, NEW u \in Threads, pc'[u] = "assembling"
             PROVE  /\ WellFormed(built'[u], mode') /\ BatchesWhole(built'[u])
                    /\ events' = <<>> => built'[u] = <<>>
  BY DEF SnapshotInv
<1> TypeOK /\ LockInv /\ SnapshotInv /\ WellFormed(events, mode) /\ DecisionsAtomic /\ FactoryInv
  BY DEF IInv
<1>0. pc \in [Threads -> PCs] /\ built \in [Threads -> Seq(Event)]
  BY DEF TypeOK, PCs
<1>1. CASE Snapshot(u)
  <2>1. built'[u] = events /\ events' = events /\ mode' = mode
    BY <1>0, <1>1 DEF Snapshot, shared
  <2> QED BY <2>1 DEF DecisionsAtomic
<1>2. CASE ~Snapshot(u)
  <2>1. pc[u] = "assembling" /\ built'[u] = built[u]
    <3>1. ASSUME NEW t \in Threads, Begin(t) \/ Step(t)
          PROVE  pc[u] = "assembling" /\ built'[u] = built[u]
      BY <1>0, <1>2, <3>1 DEF Begin, Step, CheckMode, Prepare, Acquire, Build, BuildRaises,
                             CommitCounter, CommitEvents, Snapshot, Assemble, Return, Goto
    <3>2. CASE FactoryStep \/ UNCHANGED vars
      BY <3>2 DEF FactoryStep, CheckFactory, FactoryAcquire, FactoryRefuses, SwitchMode, InstallMode,
                  InstallPrefix, local, vars
    <3> QED BY <3>1, <3>2 DEF Next, Finished
  <2>2. WellFormed(built[u], mode) /\ BatchesWhole(built[u]) /\ (events = <<>> => built[u] = <<>>)
    BY <2>1 DEF SnapshotInv
  <2>3. CASE UNCHANGED <<events, mode>>
    BY <2>1, <2>2, <2>3
  <2>4. ASSUME NEW t \in Threads, CommitEvents(t) PROVE mode' = mode /\ events' # <<>>
    <3>1. events' = events \o built[t] /\ mode' = mode /\ built[t] \in Seq(Event) /\ Len(built[t]) > 0
      BY <2>4, CommitFacts DEF CommitEvents
    <3>2. events \in Seq(Event)
      BY DEF TypeOK
    <3> QED BY <3>1, <3>2, ConcatIndex
  <2>5. CASE SwitchMode \/ InstallMode \/ InstallPrefix
    <3>1. events = <<>>
      BY <2>5 DEF SwitchMode, InstallMode, InstallPrefix, NothingRecorded, FactoryInv
    <3> QED BY <2>1, <2>2, <3>1, EmptyWellFormed
  <2> QED BY <2>1, <2>2, <2>3, <2>4, <2>5, SharedChanges
<1> QED BY <1>1, <1>2

\* What is handed out is well formed.
LEMMA PublishedStep == IInv /\ [Next]_vars => PublishedWellFormed'
<1> SUFFICES ASSUME IInv, [Next]_vars, NEW u \in Threads
             PROVE  /\ WellFormed(published'[u].events, published'[u].mode)
                    /\ BatchesWhole(published'[u].events)
  BY DEF PublishedWellFormed
<1> TypeOK /\ SnapshotInv /\ PublishedWellFormed
  BY DEF IInv
<1>0. published \in [Threads -> [mode: Modes, events: Seq(Event)]]
  BY DEF TypeOK
<1>1. CASE Assemble(u)
  <2>1. published'[u].events = built[u] /\ published'[u].mode = mode
    BY <1>0, <1>1 DEF Assemble
  <2> QED BY <1>1, <2>1 DEF Assemble, SnapshotInv
<1>2. CASE published'[u] = published[u]
  BY <1>2 DEF PublishedWellFormed
<1>3. ASSUME NEW t \in Threads, Begin(t) \/ Step(t), ~Assemble(u)
      PROVE  published'[u] = published[u]
  BY <1>0, <1>3 DEF Begin, Step, CheckMode, Prepare, Acquire, Build, BuildRaises, CommitCounter,
                    CommitEvents, Snapshot, Assemble
<1>4. CASE FactoryStep \/ UNCHANGED vars
  BY <1>2, <1>4 DEF FactoryStep, CheckFactory, FactoryAcquire, FactoryRefuses, SwitchMode,
                    InstallMode, InstallPrefix, local, vars
<1> QED BY <1>1, <1>2, <1>3, <1>4 DEF Next, Finished

-----------------------------------------------------------------------------
(* The theorems.                                                           *)

\* The invariant holds in the beginning.
LEMMA InitIInv == Init => IInv
<1> SUFFICES ASSUME Init PROVE IInv
  OBVIOUS
<1>1. TypeOK
  BY TypeInit
<1>2. LockInv /\ CallInv /\ BuiltInv
  BY RecorderAssumption DEF Init, LockInv, CallInv, BuiltInv, InCriticalSection, NoCall
<1>3. CountersInv
  <2> SUFFICES ASSUME NEW m \in Missions
               PROVE  IsHighestSequence(CommittedSequence(m), events, m)
    BY DEF CountersInv
  <2>1. CommittedSequence(m) = 0
    BY DEF Init, CommittedSequence
  <2>2. IsHighestSequence(0, <<>>, m)
    BY DEF IsHighestSequence
  <2> QED BY <2>1, <2>2 DEF Init
<1>4. StampsInv /\ FactoryInv /\ SnapshotInv
  BY DEF Init, StampsInv, FactoryInv, SnapshotInv
<1>5. WellFormed(events, mode) /\ DecisionsAtomic
  BY EmptyWellFormed DEF Init, DecisionsAtomic
<1>6. PublishedWellFormed
  BY EmptyWellFormed DEF Init, PublishedWellFormed, EmptyStream
<1> QED BY <1>1, <1>2, <1>3, <1>4, <1>5, <1>6 DEF IInv

\* Every step keeps it.
LEMMA InductiveStep == IInv /\ [Next]_vars => IInv'
BY TypeStep, LockStep, CallStep, BuiltStep, CountersStep, LogStep, FactoryInvStep, SnapshotStep,
   PublishedStep DEF IInv

\* The invariant holds of every behaviour of the recorder.
THEOREM Inductive == Spec => []IInv
<1>1. Init => IInv
  BY InitIInv
<1>2. IInv /\ [Next]_vars => IInv'
  BY InductiveStep
<1> QED BY <1>1, <1>2, PTL DEF Spec

\* Every variable keeps its type.
THEOREM TypeCorrect == Spec => []TypeOK
BY Inductive, PTL DEF IInv

\* The sequences of every mission are 1..n in every reachable log, whatever the
\* threads, failing builds and restored prefixes do.
THEOREM AlwaysContiguous == Spec => []SequencesContiguous
<1>1. IInv => SequencesContiguous
  BY DEF IInv, WellFormed, SequencesContiguous
<1> QED BY <1>1, Inductive, PTL

\* While the lock is free every counter is the last sequence of its mission.
THEOREM CountersRight == Spec => []CountersMatchEvents
<1>1. IInv => CountersMatchEvents
  <2> SUFFICES ASSUME IInv, LockFree, NEW m \in Missions
               PROVE  IsHighestSequence(sequences[m], events, m)
    BY DEF CountersMatchEvents
  <2>1. \A t \in Threads : pc[t] # "committing"
    BY RecorderAssumption DEF IInv, LockInv, InCriticalSection, LockFree
  <2> QED BY <2>1 DEF IInv, CountersInv, CommittedSequence
<1> QED BY <1>1, Inductive, PTL

\* A decision's events are recorded all together or not at all.
THEOREM AlwaysAtomic == Spec => []DecisionsAtomic
<1>1. IInv => DecisionsAtomic
  BY DEF IInv
<1> QED BY <1>1, Inductive, PTL

\* No interleaving mixes recording modes in one log.
THEOREM NeverMixed == Spec => []ModeNeverMixed
<1>1. IInv => ModeNeverMixed
  BY DEF IInv, WellFormed, ModeNeverMixed
<1> QED BY <1>1, Inductive, PTL

\* Timestamps never decrease along a mission, across a resume too.
THEOREM TimeOrdered == Spec => []TimeNeverDecreases
<1>1. IInv => TimeNeverDecreases
  BY DEF IInv, WellFormed, TimeNeverDecreases
<1> QED BY <1>1, Inductive, PTL

\* Every stream handed out is well formed in the mode it declares.
THEOREM PublishedRight == Spec => []PublishedWellFormed
<1>1. IInv => PublishedWellFormed
  BY DEF IInv
<1> QED BY <1>1, Inductive, PTL

\* What a step does to the log: it grows at its end, in a standing mode.
LEMMA AppendStep ==
  ASSUME IInv, [Next]_vars
  PROVE  IsPrefix(events, events') /\ (events # <<>> => mode' = mode)
<1>0. events \in Seq(Event) /\ events' \in Seq(Event)
  BY TypeStep DEF IInv, TypeOK
<1>1. CASE UNCHANGED <<events, mode>>
  BY <1>0, <1>1 DEF IsPrefix
<1>2. ASSUME NEW t \in Threads, CommitEvents(t) PROVE IsPrefix(events, events') /\ mode' = mode
  <2>1. events' = events \o built[t] /\ mode' = mode /\ built[t] \in Seq(Event)
    BY <1>2, CommitFacts DEF CommitEvents
  <2> QED BY <1>0, <2>1, SubSeqOfConcat1, ConcatIndex, SubSeqFull DEF IsPrefix
<1>3. CASE SwitchMode \/ InstallMode \/ InstallPrefix
  <2>1. events = <<>>
    BY <1>3 DEF SwitchMode, InstallMode, InstallPrefix, NothingRecorded, IInv, FactoryInv
  <2> QED BY <1>0, <2>1 DEF IsPrefix
<1> QED BY <1>1, <1>2, <1>3, SharedChanges

\* Recorded evidence is never changed, dropped or reordered, and its mode stands.
THEOREM AppendOnly == Spec => OnlyAppends
<1>1. IInv /\ [Next]_vars => [IsPrefix(events, events') /\ (events # <<>> => mode' = mode)]_vars
  BY AppendStep
<1> QED BY <1>1, Inductive, PTL DEF Spec, OnlyAppends

-----------------------------------------------------------------------------
(* What a factory delivers.                                                *)

\* A prefix of a prefix is one.
LEMMA PrefixTransitive ==
  ASSUME NEW r \in Seq(Event), NEW s \in Seq(Event), NEW u \in Seq(Event), IsPrefix(r, s), IsPrefix(s, u)
  PROVE  IsPrefix(r, u)
<1>1. Len(r) \in 0..Len(s) /\ Len(s) \in 0..Len(u) /\ Len(u) \in Nat
  BY DEF IsPrefix
<1>2. SubSeq(s, 1, Len(r)) = r /\ SubSeq(u, 1, Len(s)) = s
  BY SubSeqFull DEF IsPrefix
<1>3. \A i \in 1..Len(r) : s[i] = r[i]
  <2>1. \A i \in 1..Len(r) : s[i] \in Event
    BY <1>1
  <2> QED BY <1>1, <1>2, <2>1, SubSeqProperties
<1>4. \A i \in 1..Len(s) : u[i] = s[i]
  <2>1. \A i \in 1..Len(s) : u[i] \in Event
    BY <1>1
  <2> QED BY <1>1, <1>2, <2>1, SubSeqProperties
<1>5. \A i \in 1..Len(r) : u[i] = r[i] /\ u[i] \in Event
  BY <1>1, <1>3, <1>4
<1>6. /\ SubSeq(u, 1, Len(r)) \in Seq(Event) /\ Len(SubSeq(u, 1, Len(r))) = Len(r)
      /\ \A i \in 1..Len(r) : SubSeq(u, 1, Len(r))[i] = u[i]
  BY <1>1, <1>5, SubSeqProperties
<1>7. SubSeq(u, 1, Len(r)) = r
  BY <1>5, <1>6, SeqEqual
<1> QED BY <1>1, <1>2, <1>7, SubSeqFull DEF IsPrefix

\* No step of a thread takes back what a factory delivered.
LEMMA PromiseStep == IInv /\ FactoryKeepsPromise /\ [Next]_vars => FactoryKeepsPromise'
<1> SUFFICES ASSUME IInv, FactoryKeepsPromise, [Next]_vars PROVE FactoryKeepsPromise'
  OBVIOUS
<1> IInv' /\ TypeOK /\ FactoryInv /\ FactoryInv' /\ TypeOK'
  BY InductiveStep DEF IInv
<1>0. factory' = factory /\ InitialMode' = InitialMode
  BY DEF Next, FactoryStep, CheckFactory, FactoryAcquire, FactoryRefuses, SwitchMode, InstallMode, InstallPrefix,
         Begin, Step, CheckMode, Prepare, Acquire, Build, BuildRaises, CommitCounter, CommitEvents, Snapshot,
         Assemble, factoryVars, Finished, vars, InitialMode
<1>1. factory.kind = "resume" => factory.prior.events \in Seq(Event)
  BY RecorderAssumption DEF TypeOK, Factories
<1>2. fpc' = "failed" => mode' = InitialMode'
  BY DEF FactoryInv
<1>3. ASSUME fpc = "ready" PROVE fpc' = "ready" /\ mode' = mode /\ IsPrefix(events, events')
  <2>1. fpc' = "ready"
    BY <1>3 DEF Next, FactoryStep, CheckFactory, FactoryAcquire, FactoryRefuses, SwitchMode, InstallMode,
         InstallPrefix, Begin, Step, CheckMode, Prepare, Acquire, Build, BuildRaises, CommitCounter, CommitEvents,
         Snapshot, Assemble, factoryVars, Finished, vars
  <2>2. mode' = mode
    BY <1>3, SharedChanges DEF CommitEvents, SwitchMode, InstallMode, InstallPrefix
  <2> QED BY <2>1, <2>2, AppendStep
<1>4. CASE fpc = "ready"
  <2>1. factory.kind = "resume" => IsPrefix(factory.prior.events, events')
    <3> SUFFICES ASSUME factory.kind = "resume" PROVE IsPrefix(factory.prior.events, events')
      OBVIOUS
    <3>1. IsPrefix(factory.prior.events, events)
      BY <1>4 DEF FactoryKeepsPromise
    <3>2. events \in Seq(Event) /\ events' \in Seq(Event)
      BY DEF TypeOK
    <3> QED BY <1>1, <1>3, <1>4, <3>1, <3>2, PrefixTransitive
  <2> QED BY <1>0, <1>2, <1>3, <1>4, <2>1 DEF FactoryKeepsPromise
<1>5. CASE fpc # "ready" /\ fpc' = "ready"
  <2>1. CheckFactory \/ SwitchMode \/ InstallPrefix
    BY <1>5 DEF Next, FactoryStep, CheckFactory, FactoryAcquire, FactoryRefuses, SwitchMode, InstallMode,
         InstallPrefix, Begin, Step, CheckMode, Prepare, Acquire, Build, BuildRaises, CommitCounter, CommitEvents,
         Snapshot, Assemble, factoryVars, Finished, vars
  <2>2. CASE CheckFactory
    <3>1. factory.kind = "plain"
      BY <1>5, <2>2 DEF CheckFactory
    <3> QED BY <1>0, <1>5, <3>1 DEF FactoryKeepsPromise
  <2>3. CASE SwitchMode
    BY <1>0, <1>5, <2>3 DEF SwitchMode, FactoryKeepsPromise
  <2>4. CASE InstallPrefix
    <3>1. /\ factory.kind = "resume" /\ mode' = factory.prior.mode /\ events' = factory.prior.events
      BY <2>4 DEF InstallPrefix, FactoryInv
    <3>2. IsPrefix(events', events')
      BY <1>1, <3>1 DEF IsPrefix
    <3> QED BY <1>0, <1>5, <3>1, <3>2 DEF FactoryKeepsPromise
  <2> QED BY <2>1, <2>2, <2>3, <2>4
<1>6. CASE fpc' # "ready"
  BY <1>2, <1>6 DEF FactoryKeepsPromise
<1> QED BY <1>4, <1>5, <1>6

\* for_occurrences delivers an explicit recorder, resume its prior stream in its mode,
\* and a factory that fails leaves the mode it found.
THEOREM PromiseKept == Spec => []FactoryKeepsPromise
<1>1. Init => FactoryKeepsPromise
  BY DEF Init, FactoryKeepsPromise
<1> QED BY <1>1, PromiseStep, Inductive, PTL DEF Spec

-----------------------------------------------------------------------------
(* The recorder implements EvidenceLog.                                    *)

\* What was handed out, and what is about to be, is a prefix of the log.
StreamsInv ==
  \A t \in Threads :
    /\ IsPrefix(published[t].events, events)
    /\ pc[t] = "assembling" => IsPrefix(built[t], events) /\ Len(published[t].events) <= Len(built[t])

\* The streams handed out and the log remain sequences of events.
LEMMA StreamsStep == IInv /\ StreamsInv /\ [Next]_vars => StreamsInv'
<1> SUFFICES ASSUME IInv, StreamsInv, [Next]_vars, NEW u \in Threads
             PROVE  /\ IsPrefix(published'[u].events, events')
                    /\ pc'[u] = "assembling" => IsPrefix(built'[u], events')
                                                  /\ Len(published'[u].events) <= Len(built'[u])
  BY DEF StreamsInv
<1>0. /\ pc \in [Threads -> PCs] /\ built \in [Threads -> Seq(Event)]
      /\ published \in [Threads -> [mode: Modes, events: Seq(Event)]]
      /\ events \in Seq(Event) /\ events' \in Seq(Event)
  BY InductiveStep DEF IInv, TypeOK, PCs
<1>1. IsPrefix(events, events') /\ IsPrefix(events, events) /\ IsPrefix(published[u].events, events)
  BY <1>0, AppendStep DEF StreamsInv, IsPrefix
<1>2. CASE Assemble(u)
  <2>1. published'[u].events = built[u] /\ pc'[u] = "idle" /\ IsPrefix(built[u], events)
    BY <1>0, <1>2 DEF Assemble, Return, StreamsInv
  <2>2. events' = events
    BY <1>2 DEF Assemble, shared
  <2> QED BY <2>1, <2>2
<1>3. CASE Snapshot(u)
  <2>1. published'[u] = published[u] /\ built'[u] = events /\ events' = events
    BY <1>0, <1>3 DEF Snapshot, shared
  <2> QED BY <1>1, <2>1 DEF IsPrefix
<1>4. CASE ~ Assemble(u) /\ ~ Snapshot(u)
  <2>1. /\ published'[u] = published[u]
        /\ pc'[u] = "assembling" => pc[u] = "assembling" /\ built'[u] = built[u]
    <3>1. ASSUME NEW t \in Threads, Begin(t) \/ Step(t)
          PROVE  /\ published'[u] = published[u]
                 /\ pc'[u] = "assembling" => pc[u] = "assembling" /\ built'[u] = built[u]
      BY <1>0, <1>4, <3>1 DEF Begin, Step, CheckMode, Prepare, Acquire, Build, BuildRaises,
                             CommitCounter, CommitEvents, Snapshot, Assemble, Return, Goto
    <3>2. CASE FactoryStep \/ UNCHANGED vars
      BY <3>2 DEF FactoryStep, CheckFactory, FactoryAcquire, FactoryRefuses, SwitchMode, InstallMode,
                  InstallPrefix, local, vars
    <3> QED BY <3>1, <3>2 DEF Next, Finished
  <2>2. IsPrefix(published[u].events, events')
    BY <1>0, <1>1, PrefixTransitive
  <2>3. pc[u] = "assembling" => IsPrefix(built[u], events') /\ Len(published[u].events) <= Len(built[u])
    BY <1>0, <1>1, PrefixTransitive DEF StreamsInv
  <2> QED BY <2>1, <2>2, <2>3
<1> QED BY <1>2, <1>3, <1>4

\* The operators of the abstract specification are those of the streams.
LEMMA LogOperators ==
  /\ \A s : Log!Contiguous(s) <=> Contiguous(s)
  /\ \A s, m : Log!Homogeneous(s, m) <=> Homogeneous(s, m)
  /\ \A s, m : Log!WellFormed(s, m) <=> WellFormed(s, m)
  /\ \A e, m : Log!AgreesWithMode(e, m) <=> AgreesWithMode(e, m)
  /\ \A s, r : Log!IsStrictPrefix(s, r) <=> IsPrefix(s, r) /\ s # r
  /\ Log!Modes = Modes
<1>1. \A e, m : Log!AgreesWithMode(e, m) <=> AgreesWithMode(e, m)
  BY DEF Log!AgreesWithMode, AgreesWithMode
<1>2. \A s, m : Log!Homogeneous(s, m) <=> Homogeneous(s, m)
  BY <1>1 DEF Log!Homogeneous, Homogeneous
<1>3. \A s : Log!Contiguous(s) <=> Contiguous(s)
  BY DEF Log!Contiguous, Contiguous, Log!NoDuplicateSequence, NoDuplicateSequence, Log!NoSequenceGap,
         NoSequenceGap, Log!SameMission, SameMission
<1>4. \A s : Log!TimesOrdered(s) <=> TimesOrdered(s)
  BY DEF Log!TimesOrdered, TimesOrdered, Log!SameMission, SameMission
<1>5. \A s, m : Log!WellFormed(s, m) <=> WellFormed(s, m)
  BY <1>2, <1>3, <1>4 DEF Log!WellFormed, WellFormed
<1>6. \A s, r : Log!IsStrictPrefix(s, r) <=> IsPrefix(s, r) /\ s # r
  BY DEF Log!IsStrictPrefix, Log!IsPrefix, IsPrefix
<1> QED BY <1>1, <1>2, <1>3, <1>5, <1>6 DEF Log!Modes, Modes

\* A commit appends one whole batch.
LEMMA CommitAppends ==
  ASSUME IInv, IInv', NEW t \in Threads, CommitEvents(t), [Next]_vars
  PROVE  Log!AppendBatch
<1> DEFINE b == built[t]
<1>0. events \in Seq(Event) /\ events' \in Seq(Event) /\ b \in Seq(Event) /\ Len(b) > 0
      /\ events' = events \o b /\ mode' = mode /\ published' = published
  BY CommitFacts DEF IInv, TypeOK, CommitEvents
<1>1. \A i \in DOMAIN b : b[i].pos = i /\ b[i].by = t /\ b[i].size = Len(b) /\ AgreesWithMode(b[i], mode)
  BY CommitFacts DEF CommitEvents, OneBatch
<1> HIDE DEF b
<1>2. Log!Added = b
  <2>1. SubSeq(events', Len(events) + 1, Len(events')) = b
    BY <1>0, ConcatIndex, SubSeqOfConcat2
  <2> QED BY <2>1 DEF Log!Added
<1>3. IsPrefix(events, events') /\ events # events'
  <2>1. Len(events') = Len(events) + Len(b) /\ Len(events) \in Nat /\ Len(b) \in Nat
    BY <1>0, ConcatIndex
  <2> QED BY <1>0, <2>1, AppendStep
<1>4. 1 \in DOMAIN b /\ DOMAIN b = 1..Len(b)
  BY <1>0
<1>5. Contiguous(events')
  BY DEF IInv, WellFormed
<1> QED BY <1>0, <1>1, <1>2, <1>3, <1>4, <1>5, LogOperators DEF Log!AppendBatch

\* A stream handed out is a prefix of the log that is no shorter than the last.
LEMMA AssemblePublishes ==
  ASSUME IInv, StreamsInv, NEW t \in Threads, Assemble(t)
  PROVE  Log!Publish(t)
<1> DEFINE n == Len(built[t])
<1>0. /\ events \in Seq(Event) /\ built[t] \in Seq(Event) /\ mode \in Modes
      /\ published[t].events \in Seq(Event)
      /\ pc[t] = "assembling" /\ UNCHANGED <<events, mode>>
      /\ published' = [published EXCEPT ![t] = [mode |-> mode, events |-> built[t]]]
  BY DEF IInv, TypeOK, Assemble, shared
<1>1. SubSeq(events, 1, n) = built[t] /\ n <= Len(events) /\ Len(published[t].events) <= n
  BY <1>0, SubSeqFull DEF StreamsInv, IsPrefix
<1>2. Homogeneous(SubSeq(events, 1, n), mode)
  BY <1>0, <1>1 DEF IInv, SnapshotInv, WellFormed
<1>3. n \in Len(published[t].events)..Len(events)
  BY <1>0, <1>1
<1> QED BY <1>0, <1>1, <1>2, <1>3, LogOperators DEF Log!Publish

\* Each step of threads and factory is a step of the abstract log, or none.
LEMMA LogStepMaps ==
  ASSUME IInv, IInv', StreamsInv, [Next]_vars
  PROVE  Log!Next \/ UNCHANGED <<events, mode, published>>
<1>1. ASSUME NEW t \in Threads, Begin(t) \/ Step(t)
      PROVE  Log!Next \/ UNCHANGED <<events, mode, published>>
  <2>1. CASE CommitEvents(t)
    BY <2>1, CommitAppends DEF Log!Next
  <2>2. CASE Assemble(t)
    BY <2>2, AssemblePublishes DEF Log!Next
  <2>3. CASE ~ CommitEvents(t) /\ ~ Assemble(t)
    BY <1>1, <2>3 DEF Begin, Step, CheckMode, Prepare, Acquire, Build, BuildRaises, CommitCounter, Snapshot, shared
  <2> QED BY <2>1, <2>2, <2>3
<1>2. CASE CheckFactory \/ FactoryAcquire \/ FactoryRefuses
  BY <1>2 DEF CheckFactory, FactoryAcquire, FactoryRefuses, shared, local
<1>3. CASE SwitchMode \/ InstallMode
  <2>1. events = <<>> /\ UNCHANGED <<events, published>> /\ mode' \in Modes
    BY <1>3 DEF SwitchMode, InstallMode, NothingRecorded, local, IInv, TypeOK
  <2> QED BY <2>1, LogOperators DEF Log!ChooseMode, Log!Next
<1>4. CASE InstallPrefix
  <2>1. events = <<>> /\ UNCHANGED <<mode, published>> /\ WellFormed(events', mode')
    BY <1>4 DEF InstallPrefix, local, IInv, FactoryInv
  <2> QED BY <2>1, LogOperators DEF Log!Restore, Log!Next
<1> QED BY <1>1, <1>2, <1>3, <1>4 DEF Next, FactoryStep, Finished, vars

\* To its callers the recorder is one append-only log: a call adds all its events or
\* none, and a stream handed out is a prefix of it.
THEOREM RecorderImplementsLog == Spec => ImplementsLog
<1>1. Init => Log!Init
  BY DEF Init, InitialMode, Log!Init, Log!EmptyStream, EmptyStream, Factories
<1>2. Init => StreamsInv
  BY DEF Init, StreamsInv, EmptyStream, IsPrefix
<1>3. IInv /\ IInv' /\ StreamsInv /\ [Next]_vars => [Log!Next]_(Log!vars)
  BY LogStepMaps DEF Log!vars
<1> QED BY <1>1, <1>2, <1>3, StreamsStep, Inductive, PTL DEF Spec, ImplementsLog, Log!Spec

===============================================================================
