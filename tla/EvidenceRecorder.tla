-------------------------- MODULE EvidenceRecorder --------------------------
(***************************************************************************)
(* EvidenceRecorder of nornyx/agentic/authz.py: threads that share one     *)
(* recorder, its lock, its event list and per-mission sequence counters,   *)
(* while the factory that constructs it (the constructor, for_occurrences  *)
(* or resume) may still be at work -- a subclass __init__ may publish the  *)
(* recorder before the factory has set the mode or restored a prefix.      *)
(*                                                                         *)
(* A step ends where the code can be preempted with an effect another      *)
(* thread can see: around every read of _occurrence_mode outside the lock, *)
(* at every acquisition, after each event built and between the two        *)
(* assignments of a commit.                                                *)
(***************************************************************************)
EXTENDS EvidenceStream, FiniteSetsExt, SequencesExt

CONSTANTS
  Threads,         \* callers of the recording methods and of stream()
  Constructor,     \* the thread inside __init__, for_occurrences or resume
  Nobody,          \* the lock is free
  DecisionAt,      \* context.decision_at, stamped on every event
  Priors,          \* candidate prior streams of resume: [mode, events]
  MaxBatch,        \* most intents of one decision
  MaxCalls         \* bound on the calls begun in a behaviour

ASSUME RecorderAssumption ==
  /\ Writers = Threads \cup {Constructor}
  /\ Constructor \notin Threads
  /\ Nobody \notin Writers
  /\ DecisionAt \in Nat /\ MaxBatch \in Nat \ {0} /\ MaxCalls \in Nat
  /\ Priors \subseteq [mode : Modes, events : Seq(Event)]
  /\ \A p \in Priors : \A i \in DOMAIN p.events :
       /\ p.events[i].by = Constructor
       /\ p.events[i].pos = 1 /\ p.events[i].size = 1
       /\ p.events[i].sequence <= MaxSequence

VARIABLES
  factory,     \* [kind, schema, prior]: how the recorder is constructed
  fpc,         \* where the factory is
  mode,        \* _occurrence_mode
  lock,        \* the holder of _lock
  events,      \* _events
  sequences,   \* _sequences (absent is 0)
  pc,          \* where each thread is
  call,        \* the call each thread is in
  built,       \* its local list of built events, or its snapshot
  published,   \* the stream last returned to each thread
  calls        \* calls begun so far

factoryVars == <<factory, fpc>>
shared == <<mode, events, sequences>>
local == <<pc, call, built, published, calls>>
vars == <<factory, fpc, mode, lock, events, sequences, pc, call, built, published, calls>>

Kinds == {"legacy", "stamp", "explicit", "stream"}

(***************************************************************************)
(* A call.  "legacy" is record_decision (size 0..MaxBatch) and             *)
(* record_observation (size 1); "stamp" a direct _stamp call; "explicit"   *)
(* the two occurrence methods; "stream" is stream() and validate().        *)
(***************************************************************************)
Calls ==
  [kind: {"legacy"}, mission: Missions, size: 0..MaxBatch, occurrence: {NoOccurrence}]
    \cup [kind: {"stamp"}, mission: Missions, size: {1}, occurrence: {NoOccurrence}]
    \cup [kind: {"explicit"}, mission: Missions, size: 0..MaxBatch, occurrence: Occurrences]
    \cup [kind: {"stream"}, mission: Missions, size: {0}, occurrence: {NoOccurrence}]

\* A thread that is in no call.
NoCall == [kind |-> "none", size |-> 0]

Factories ==
  [kind: {"plain", "for_occurrences"}, schema: {"1.0", "1.1"}, prior: {[mode |-> "none", events |-> <<>>]}]
    \cup [kind: {"resume"}, schema: {"1.0", "1.1"}, prior: Priors]

EmptyStream == [mode |-> "none", events |-> <<>>]
InitialMode == IF factory.schema = "1.0" THEN "none" ELSE "legacy"

Init ==
  /\ factory \in Factories
  /\ fpc = "constructed"
  /\ mode = InitialMode
  /\ lock = Nobody
  /\ events = <<>>
  /\ sequences = [m \in Missions |-> 0]
  /\ pc = [t \in Threads |-> "idle"]
  /\ call = [t \in Threads |-> NoCall]
  /\ built = [t \in Threads |-> <<>>]
  /\ published = [t \in Threads |-> EmptyStream]
  /\ calls = 0

-----------------------------------------------------------------------------
(* Recording: the path through record_decision, record_observation, _stamp *)
(* and the two occurrence methods.                                         *)

Goto(t, label) == pc' = [pc EXCEPT ![t] = label] /\ UNCHANGED call

\* The call of t returns or raises, and its local lists are gone.
Return(t) ==
  /\ pc' = [pc EXCEPT ![t] = "idle"]
  /\ call' = [call EXCEPT ![t] = NoCall]
  /\ built' = [built EXCEPT ![t] = <<>>]

\* Mutant of LockFree: no mutual exclusion.
LockIgnored == TRUE

LockFree == lock = Nobody

Begin(t) ==
  /\ pc[t] = "idle" /\ calls < MaxCalls
  /\ \E c \in Calls : call' = [call EXCEPT ![t] = c]
  /\ calls' = calls + 1
  /\ pc' = [pc EXCEPT ![t] = "entered"]
  /\ UNCHANGED <<factoryVars, shared, lock, built, published>>

\* _require_legacy_recording and _require_explicit_occurrences, before the lock.
\* _stamp and stream have no such check.
EntryAllowed(c) ==
  /\ c.kind = "legacy" => mode # "explicit"
  /\ c.kind = "explicit" => factory.schema = "1.1" /\ mode = "explicit"

CheckMode(t) ==
  /\ pc[t] = "entered"
  /\ \/ EntryAllowed(call[t]) /\ Goto(t, "preparing") /\ UNCHANGED built
     \/ ~EntryAllowed(call[t]) /\ Return(t)
  /\ UNCHANGED <<factoryVars, shared, lock, published, calls>>

\* Fields are detached and checked before the lock: a malformed intent refuses
\* the whole call, and a decision without intents returns at once.
Prepare(t) ==
  /\ pc[t] = "preparing"
  /\ \/ /\ call[t].kind = "stream" \/ call[t].size > 0
        /\ Goto(t, "waiting") /\ UNCHANGED built
     \/ call[t].kind # "stream" /\ Return(t)
  /\ UNCHANGED <<factoryVars, shared, lock, published, calls>>

Acquire(t) ==
  /\ pc[t] = "waiting" /\ LockFree
  /\ lock' = t
  /\ Goto(t, IF call[t].kind = "stream" THEN "reading" ELSE "building")
  /\ UNCHANGED <<factoryVars, shared, built, published, calls>>

\* The event _build_event_unlocked stamps next for the call of t.
NextEvent(t) ==
  [mission |-> call[t].mission,
   sequence |-> sequences[call[t].mission] + Len(built[t]) + 1,
   timestamp |-> DecisionAt,
   occurrence |-> call[t].occurrence,
   by |-> t, pos |-> Len(built[t]) + 1, size |-> call[t].size]

\* Mutant of CommitAllowed: the mode is only checked on entry.
CommitUnchecked(e) == TRUE

\* The last check of _build_checked_unlocked, under the lock: a mode that
\* changed since CheckMode is caught here.
CommitAllowed(e) == AgreesWithMode(e, mode)

Build(t) ==
  /\ pc[t] = "building" /\ Len(built[t]) < call[t].size
  /\ CommitAllowed(NextEvent(t))
  /\ built' = [built EXCEPT ![t] = Append(@, NextEvent(t))]
  /\ UNCHANGED <<factoryVars, shared, lock, pc, call, published, calls>>

\* Mutants of BuildRaises: the lock is kept; the counter is rolled back although it
\* has not moved; the events built so far are committed.
RaiseKeepsLock(t) ==
  /\ pc[t] = "building" /\ Len(built[t]) < call[t].size
  /\ Return(t)
  /\ UNCHANGED <<factoryVars, shared, lock, published, calls>>
RaiseRollsBack(t) ==
  /\ pc[t] = "building" /\ Len(built[t]) < call[t].size
  /\ sequences' = [sequences EXCEPT ![call[t].mission] = @ - Len(built[t])]
  /\ lock' = Nobody
  /\ Return(t)
  /\ UNCHANGED <<factoryVars, mode, events, published, calls>>
RaiseKeepsBuilt(t) ==
  /\ pc[t] = "building" /\ Len(built[t]) < call[t].size
  /\ events' = events \o built[t]
  /\ sequences' = [sequences EXCEPT ![call[t].mission] = @ + Len(built[t])]
  /\ lock' = Nobody
  /\ Return(t)
  /\ UNCHANGED <<factoryVars, mode, published, calls>>

\* The build raises: the event disagrees with the mode, or the builder is broken.
\* The with statement releases the lock; nothing was committed.
BuildRaises(t) ==
  /\ pc[t] = "building" /\ Len(built[t]) < call[t].size
  /\ lock' = Nobody
  /\ Return(t)
  /\ UNCHANGED <<factoryVars, shared, published, calls>>

\* Every build of the batch succeeded: the counter moves first ...
CommitCounter(t) ==
  /\ pc[t] = "building" /\ Len(built[t]) = call[t].size
  /\ sequences' = [sequences EXCEPT ![call[t].mission] = @ + call[t].size]
  /\ Goto(t, "committing")
  /\ UNCHANGED <<factoryVars, mode, events, lock, built, published, calls>>

\* Mutant of CommitEvents: one event per step, as repeated _stamp calls would.
CommitOneByOne(t) ==
  /\ pc[t] = "committing"
  /\ events' = Append(events, Head(built[t]))
  /\ IF Len(built[t]) = 1
     THEN lock' = Nobody /\ Return(t)
     ELSE built' = [built EXCEPT ![t] = Tail(@)] /\ UNCHANGED <<lock, pc, call>>
  /\ UNCHANGED <<factoryVars, mode, sequences, published, calls>>

\* ... then the events are appended, and the lock is released.
CommitEvents(t) ==
  /\ pc[t] = "committing"
  /\ events' = events \o built[t]
  /\ lock' = Nobody
  /\ Return(t)
  /\ UNCHANGED <<factoryVars, mode, sequences, published, calls>>

-----------------------------------------------------------------------------
(* Reading: stream(), on which validate() is built.                        *)

Snapshot(t) ==
  /\ pc[t] = "reading"
  /\ built' = [built EXCEPT ![t] = events]
  /\ lock' = Nobody
  /\ Goto(t, "assembling")
  /\ UNCHANGED <<factoryVars, shared, published, calls>>

\* The mode is read after the lock was released.
Assemble(t) ==
  /\ pc[t] = "assembling"
  /\ published' = [published EXCEPT ![t] = [mode |-> mode, events |-> built[t]]]
  /\ Return(t)
  /\ UNCHANGED <<factoryVars, shared, lock, calls>>

-----------------------------------------------------------------------------
(* The factories: the constructor, for_occurrences and resume.             *)

\* Mutant of Resumable: the clock of the new context is not compared.
ResumableAnyClock(prior) ==
  /\ prior.mode = "none" <=> factory.schema = "1.0"
  /\ WellFormed(prior.events, prior.mode)

\* What resume checks before it takes the lock: the schema version and mode of
\* the prior stream, the validator's verdict, and the new context's clock.
Resumable(prior) ==
  /\ prior.mode = "none" <=> factory.schema = "1.0"
  /\ WellFormed(prior.events, prior.mode)
  /\ \A i \in DOMAIN prior.events : prior.events[i].timestamp <= DecisionAt

FactoryChecks ==
  CASE factory.kind = "plain"           -> TRUE
    [] factory.kind = "for_occurrences" -> factory.schema = "1.1"
    [] factory.kind = "resume"          -> Resumable(factory.prior)

CheckFactory ==
  /\ fpc = "constructed"
  /\ fpc' = IF ~FactoryChecks THEN "failed"
            ELSE IF factory.kind = "plain" THEN "ready" ELSE "waiting"
  /\ UNCHANGED <<factory, shared, lock, local>>

\* Mutant of FactoryAcquire: the mode is set before _require_no_events.
ModeBeforeCheck ==
  /\ fpc = "waiting" /\ LockFree
  /\ lock' = Constructor
  /\ fpc' = "holding"
  /\ mode' = IF factory.kind = "resume" THEN factory.prior.mode ELSE "explicit"
  /\ UNCHANGED <<factory, events, sequences, local>>

FactoryAcquire ==
  /\ fpc = "waiting" /\ LockFree
  /\ lock' = Constructor
  /\ fpc' = "holding"
  /\ UNCHANGED <<factory, shared, local>>

\* Mutant of NothingRecorded: recorded events do not matter.
AnythingRecorded == TRUE

\* _require_no_events, under the lock: no mode switch once anything is recorded.
NothingRecorded == events = <<>>

\* Mutant of FactoryRefuses: the raise leaves the lock held.
RefusalKeepsLock ==
  /\ fpc = "holding" /\ ~NothingRecorded
  /\ fpc' = "failed"
  /\ UNCHANGED <<factory, lock, shared, local>>

FactoryRefuses ==
  /\ fpc = "holding" /\ ~NothingRecorded
  /\ lock' = Nobody
  /\ fpc' = "failed"
  /\ UNCHANGED <<factory, shared, local>>

SwitchMode ==
  /\ fpc = "holding" /\ NothingRecorded /\ factory.kind = "for_occurrences"
  /\ mode' = "explicit"
  /\ lock' = Nobody
  /\ fpc' = "ready"
  /\ UNCHANGED <<factory, events, sequences, local>>

InstallMode ==
  /\ fpc = "holding" /\ NothingRecorded /\ factory.kind = "resume"
  /\ mode' = factory.prior.mode
  /\ fpc' = "installing"
  /\ UNCHANGED <<factory, lock, events, sequences, local>>

\* Mutant of Restored: numbering starts over.
NotRestored(prefix, m) == 0

\* The counter of a mission restarts at its highest restored sequence.
Restored(prefix, m) ==
  Max({0} \cup {prefix[i].sequence : i \in {j \in DOMAIN prefix : prefix[j].mission = m}})

InstallPrefix ==
  /\ fpc = "installing"
  /\ events' = factory.prior.events
  /\ sequences' = [m \in Missions |-> Restored(factory.prior.events, m)]
  /\ lock' = Nobody
  /\ fpc' = "ready"
  /\ UNCHANGED <<factory, mode, local>>

-----------------------------------------------------------------------------
\* A thread inside a call; Begin is the caller's choice.
Step(t) ==
  \/ CheckMode(t) \/ Prepare(t) \/ Acquire(t)
  \/ Build(t) \/ BuildRaises(t) \/ CommitCounter(t) \/ CommitEvents(t)
  \/ Snapshot(t) \/ Assemble(t)

FactoryStep ==
  CheckFactory \/ FactoryAcquire \/ FactoryRefuses \/ SwitchMode \/ InstallMode \/ InstallPrefix

\* The bounded behaviour is over: every call returned, the factory too.
Finished ==
  /\ calls = MaxCalls /\ \A t \in Threads : pc[t] = "idle"
  /\ fpc \in {"ready", "failed"}
  /\ UNCHANGED vars

Next == FactoryStep \/ (\E t \in Threads : Begin(t) \/ Step(t)) \/ Finished

\* The interpreter keeps scheduling a thread that can run.
Fairness == WF_vars(FactoryStep) /\ \A t \in Threads : WF_vars(Step(t))

Spec == Init /\ [][Next]_vars
FairSpec == Spec /\ Fairness

-----------------------------------------------------------------------------
(* Properties.                                                             *)

TypeOK ==
  /\ factory \in Factories
  /\ fpc \in {"constructed", "waiting", "holding", "installing", "ready", "failed"}
  /\ mode \in Modes
  /\ lock \in Writers \cup {Nobody}
  /\ events \in Seq(Event)
  /\ sequences \in [Missions -> Nat]
  /\ pc \in [Threads -> {"idle", "entered", "preparing", "waiting", "building",
                         "committing", "reading", "assembling"}]
  /\ call \in [Threads -> Calls \cup {NoCall}]
  /\ built \in [Threads -> Seq(Event)]
  /\ published \in [Threads -> [mode: Modes, events: Seq(Event)]]
  /\ calls \in 0..MaxCalls

\* At every moment the recorded events of a mission are numbered 1..n without a
\* duplicate or a gap, whatever threads, failed builds and a restored prefix do:
\* a snapshot can never fail AN_EVT_SEQUENCE_GAP or AN_EVT_DUPLICATE_SEQUENCE.
SequencesContiguous == Contiguous(events)

\* While nobody holds the lock the counter of a mission is its last sequence: a
\* refused or raising batch moves no counter, and a restored prefix is counted.
CountersMatchEvents ==
  LockFree => \A m \in Missions : IsHighestSequence(sequences[m], events, m)

\* "either all of a decision's events are appended ... with no other thread's
\* events interleaved between them, or none are" (record_decision).
DecisionsAtomic == BatchesWhole(events)

\* No recording path mixes modes, even when for_occurrences or resume changes
\* the mode between a call's check and its commit (ADR-0042).
ModeNeverMixed == Homogeneous(events, mode)

\* Evidence never runs backwards in time along a mission, across a resume too.
TimeNeverDecreases == TimesOrdered(events)

\* A stream handed out is well formed and declares the mode of its own events,
\* although stream() reads the mode after it released the lock.
PublishedWellFormed ==
  \A t \in Threads :
    WellFormed(published[t].events, published[t].mode) /\ BatchesWhole(published[t].events)

\* What a factory delivers: for_occurrences an explicit recorder, resume the
\* whole prior stream in its own mode; a failed one leaves the mode it found.
FactoryKeepsPromise ==
  /\ fpc = "ready" /\ factory.kind = "for_occurrences" => mode = "explicit"
  /\ fpc = "ready" /\ factory.kind = "resume" =>
       mode = factory.prior.mode /\ IsPrefix(factory.prior.events, events)
  /\ fpc = "failed" => mode = InitialMode

\* Cumulative evidence: nothing recorded is ever changed, dropped or reordered,
\* and once something is recorded the mode stands.
OnlyAppends ==
  [][IsPrefix(events, events') /\ (events # <<>> => mode' = mode)]_vars

\* The recorder implements the sequential, append-only log its callers rely on.
Log == INSTANCE EvidenceLog WITH
         log <- events, streams <- published, Readers <- Threads
ImplementsLog == Log!Spec

\* Every critical section ends, those that raise included: the lock is released.
LockReleased == lock # Nobody ~> lock = Nobody

\* Every call and the factory return.  (Behaviours have at most MaxCalls calls.)
EveryCallReturns ==
  /\ \A t \in Threads : pc[t] # "idle" ~> pc[t] = "idle"
  /\ <>(fpc \in {"ready", "failed"})

-----------------------------------------------------------------------------
(* The inductive invariant behind the safety properties (proved in         *)
(* EvidenceRecorder_proofs).  Its parts say who is in the critical section,*)
(* what a batch under construction looks like, and what the counters mean  *)
(* between the two assignments of a commit.                                *)

InCriticalSection(t) == pc[t] \in {"building", "committing", "reading"}

LockInv ==
  /\ \A t \in Threads : InCriticalSection(t) <=> lock = t
  /\ fpc \in {"holding", "installing"} <=> lock = Constructor

CallInv ==
  \A t \in Threads :
    /\ pc[t] # "idle" => call[t] \in Calls
    /\ pc[t] \in {"building", "committing"} => call[t].kind # "stream"
    /\ pc[t] \in {"waiting", "building", "committing"} /\ call[t].kind # "stream" => call[t].size > 0
    /\ pc[t] \notin {"building", "committing", "assembling"} => built[t] = <<>>

\* The batch t has built so far continues mission numbering after base.
BatchOf(t, base) ==
  \A i \in DOMAIN built[t] :
    /\ built[t][i] = [mission |-> call[t].mission, sequence |-> base + i,
                      timestamp |-> DecisionAt, occurrence |-> call[t].occurrence,
                      by |-> t, pos |-> i, size |-> call[t].size]
    /\ AgreesWithMode(built[t][i], mode)

BuiltInv ==
  \A t \in Threads :
    /\ pc[t] = "building" =>
         Len(built[t]) <= call[t].size /\ BatchOf(t, sequences[call[t].mission])
    /\ pc[t] = "committing" =>
         /\ Len(built[t]) = call[t].size /\ call[t].size <= sequences[call[t].mission]
         /\ BatchOf(t, sequences[call[t].mission] - call[t].size)

\* The counter of m without the batch a thread is about to append.
CommittedSequence(m) ==
  IF \E t \in Threads : pc[t] = "committing" /\ call[t].mission = m
  THEN sequences[m] - call[lock].size
  ELSE sequences[m]

CountersInv == \A m \in Missions : IsHighestSequence(CommittedSequence(m), events, m)

StampsInv ==
  \A i \in DOMAIN events :
    events[i].timestamp <= DecisionAt /\ events[i].pos \in 1..events[i].size

FactoryInv ==
  /\ fpc \in {"constructed", "waiting", "holding", "failed"} => mode = InitialMode
  /\ fpc \in {"waiting", "holding", "installing", "ready"} => FactoryChecks
  /\ fpc = "installing" =>
       factory.kind = "resume" /\ mode = factory.prior.mode /\ events = <<>>

\* A snapshot waiting for the mode: of an empty log it fits any mode.
SnapshotInv ==
  \A t \in Threads : pc[t] = "assembling" =>
    /\ WellFormed(built[t], mode) /\ BatchesWhole(built[t])
    /\ events = <<>> => built[t] = <<>>

IInv ==
  /\ TypeOK /\ LockInv /\ CallInv /\ BuiltInv /\ CountersInv /\ StampsInv /\ FactoryInv
  /\ WellFormed(events, mode) /\ DecisionsAtomic
  /\ SnapshotInv /\ PublishedWellFormed
=============================================================================
