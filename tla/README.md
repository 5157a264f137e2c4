# Nornyx in TLA+

A verification project for Nornyx: the in-process recorder of evidence, the validator of that
evidence, the decision core and the adapters that authorize and record what agents do; and the
tools around them: the checks of a contract, the governance packs and their composition, the
agentic network with its artifacts and locks, and the planning commands of a harness. The
modules are translated from the Python source; the decision records
(`docs/decisions/ADR-00xx`), the book, the guides and docstrings supply the properties.

Nornyx itself is a declarative language and a Python package around it. Two kinds of things
are hard in it. In the *agentic runtime* order, failure and concurrency matter. The *tools*
are sequential programs, but they read and write several files one after the other while
others edit them, and they decide the same question in several places (a rule engine and
its documentation, a chain of delegations and its links, an approval and its composition):

    declaration (.nyx) --check--> governance document --generate--> artifacts + lock
                                        |                                |
                                        v                                v
    adapter (LangGraph, CrewAI, kernel) --evaluate--> Authorizer (pure decision)
           |                                             |
           +--record_decision / record_observation--> EvidenceRecorder --stream()--+
           |                                             ^                         v
           +--resume(saved stream)-----------------------+---- validate_runtime_events

## 1. The system's parts

| Part (source) | State it keeps | Operations | What is hard about it | What makes it correct |
|---|---|---|---|---|
| `EvidenceRecorder` (`agentic/authz.py`) | `_events`, `_sequences`, `_occurrence_mode`, `_lock` | `record_decision`, `record_observation`, the two occurrence methods, `_stamp`, `stream`, `validate`, `for_occurrences`, `resume` | threads sharing one recorder; mode read before, under and after the lock; counter and list moved by two statements; builds that raise; a factory that changes a recorder a subclass has already published | contiguous sequences, all-or-nothing decisions, one mode, append-only, time never backwards, lock always released |
| Runtime-events validator (`agentic_evidence.py`) | tables of one scan per mission | `validate_runtime_events` | a single pass that must decide rules stated over pairs of events; the first outcome counts | reports exactly what the rules say; a prefix of a valid stream is valid |
| LangGraph adapter (`adapters/.../langgraph.py`) | `attempt_bases` under `attempt_lock`, the shared recorder | the governed node: identify, decide, act, observe | LangGraph's own attempt counter restarts; parallel tasks; interrupts; process death between action and observation; resume from a saved stream | the stream stays valid, attempts are consecutive, an action runs only under its own allowance |
| `Authorizer` (`agentic/authz.py`) | none: a frozen contract | `evaluate` for six request families | time windows, revocation, delegation, approvals, gates; an allowed request must give evidence the validator accepts, which implements the same rules a second time | fail closed; decisions and validator agree at the instant of the decision |
| CrewAI adapter, `enforce()` (`adapters/...`) | a legacy recorder | evaluate, record, act, observe | work done before its observation can be refused | at most one execution per allowance |
| `GovernanceKernel` shim (`integrations/...`) | clock, cumulative stream, recorder replaced by `resume` before each batch | six kinds of operation | decision and observation carry different instants; one invalid batch stops every later call | the stream is valid at every return |
| Harness runtime (`harness_runtime.py`, `policy_runtime.py`, `connector_runtime.py`, `eval_runtime.py`, `bounded_execution.py`, `context_builder.py`) | the files of one output directory | `harness-run`, `policy-check`, `eval-run`, `connector-plan`, readiness | fifteen files written in place, one after the other; four reports that judge the same step, each by its own rules; repositories read while judged | a report says "ready", "planned" or "passed" only if what it stands for holds; no manifest vouches for files of two runs |
| Language (`parser.py`, `checker.py`) | none | `load_nyx`, `check_document`, the search for circular dependencies | an iterative form of a recursive algorithm; code that runs after a check relies on what it has ruled out | cycles exactly those of the graph; what was checked runs, but for values the check does not look at |
| Packs, registry and profile lock (`governance/loader.py`, `registry.py`, `locks.py`) | pack files, `nornyx.profiles.lock` | load, register by tier, resolve, lock, verify | packs and lock are read one by one while they are edited; the lock is read twice by one command; processes die between the temporary file and its replacement | a command passes only under one lock; the lock is replaced as a whole |
| Composition and approvals (`governance/composition.py`, `approvals.py`) | a saved effective approval | compose, normalise, trust | merging what several packs say of one approval: some fields meet, others join | strictest wins, whoever declares what; a trusted approval is that of the packs as they are |
| Rules and structural checks (`governance/rules.py`, `structural.py`) | none | evaluate rules; evidence, human approval, separation of duties, change control, exceptions | paths through nested collections; chains of evidence and renewals; persons under several spellings | rules mean what the appendix says, per element, and fail closed; no change and no exception is approved by whom it serves |
| Agentic network (`governance/agentic_network.py`, `agentic_delegation.py`) | none | both structural checks | a chain is checked link by link; revocations, intervals, scopes | authority never grows along a chain |
| Artifacts and network lock (`agentic_artifacts.py`, the agentic commands of `cli.py`) | artifact files, the network lock | check, generate, lock, lock-check | every file is read and written by itself, with no mutual exclusion | a command that passes undisturbed leaves or has found files that agree |
| Everything else | -- | packages and scanner, AuthZEN, metadata, generators, portal | sequential data processing, no shared state | unit tests |

`PROJECT.json` lists each part with its sources and status, and under `hazards` every
place where this code can go wrong in a way a unit test would hardly reach.

## 2. The modules

| Module | Models | Extends / instantiates |
|---|---|---|
| `EvidenceStream` | an event as the recorder stamps it and the rules of a well-formed stream the recorder answers for | -- |
| `EvidenceLog` | abstract specification: one append-only log, whole batches, one mode | `EvidenceStream` |
| `EvidenceRecorder` | the recorder with its threads, lock and factories | `EvidenceStream`; `EvidenceLog` by refinement |
| `EvidenceRecorder_proofs` | lemmas about streams; the recorder is right and implements the log | the above, TLAPS |
| `OccurrenceRules` | ADR-0042's transition rules over a whole stream, one operator per diagnostic | -- |
| `EventValidation` | the validator's scan, event by event, with its tables | `OccurrenceRules` |
| `OccurrenceRules_proofs`, `EventValidation_proofs` | what one more event does to each rule; the scan decides the rules | the above, TLAPS |
| `OccurrenceLifecycle` | abstract specification: the life of an occurrence | -- |
| `NetworkContract` | the declarations that authorization reads, and the static checks that decide whether a contract loads | -- |
| `Authorizer` | `Authorizer.evaluate`, all six request families, with the intents of each decision | `NetworkContract` |
| `EventReferences` | the validator's own reading of the contract: what it reports about one event | `NetworkContract` |
| `GovernanceKernel` | the facade: clock, validated resumption, decision, protected work, observation, nested calls | `Authorizer`; `EventReferences`, `OccurrenceRules` |
| `GovernanceKernel_proofs` | the core and the validator agree; runs and their evidence; the kernel fails closed | the above, TLAPS |
| `LangGraphAdapter` | `make_governed_node` under LangGraph and a host that saves and resumes | `OccurrenceRules`; `OccurrenceLifecycle` by refinement |
| `LangGraphAdapter_proofs` | valid streams, consecutive attempts, the life of an occurrence, for any number of tasks | the above, `OccurrenceRules_proofs`, TLAPS |
| `NyxDocument` | a document and `load_nyx`, policy references included | -- |
| `DependencyCycles` | the search for circular dependencies, a step per turn of its loop | -- |
| `PolicyRuntime`, `ConnectorRuntime`, `EvalRuntime` | the policy, connector and adapter, and eval reports | `NyxDocument` and each other |
| `DocumentCheck` | the diagnostics of `check_document` | `PolicyRuntime` |
| `HarnessPlan` | what a harness run, a readiness report and a context pack compute before anything is written | `ConnectorRuntime` |
| `HarnessRuntime` | the planning commands over one directory | the six above |
| `HarnessRuntime_proofs` | what a manifest vouches for; what the check rules out; what "passed" and "not blocked" mean; the search finds the circular dependencies | the above, TLAPS |
| `GovernanceApproval` | normalising an approval, composing several, trusting a saved composition | -- |
| `RuleEngine` | the rule language as it is evaluated; what a rule means, element by element | `GovernanceApproval` |
| `PackRegistry`, `GovernanceComposition` | packs, tiers, resolution, lock entries; composing a profile and its modules, and what they say of one document | `GovernanceApproval`, `RuleEngine` |
| `GovernanceWorkspace` | the commands `check`, `report`, `profiles resolve`, `--lock`, a host's verification, over files that are edited | `GovernanceComposition` |
| `GovernanceWorkspace_proofs` | evaluating a rule finds what it means; a value of another type silences none; composition only tightens; what commands that pass have established | the above, TLAPS |
| `ChangeGovernance`, `ExceptionRecords` | the structural checks `evidence_integrity.v1`, `human_approval.v1`, `separation_of_duties.v1`, `change_control.v1`, `exception_management.v1` | `GovernanceApproval` |
| `NetworkFoundation`, `NetworkDelegation` | the two structural checks of an agentic network; the checks that a composition selects | `ExceptionRecords` |
| `NetworkArtifacts` | artifacts and network lock | `NetworkDelegation` |
| `ContractWorkspace`, `ContractSemantics` | the commands over contract, evidence, artifacts and lock; what it means that they accept | the above |
| `ContractSemantics_proofs` | what a command that passed has left, or found, on disk; authority never grows along a chain of delegations; who may release a change; how exceptions are kept apart | the above, TLAPS |
| `MC*` | small instances for TLC | the module named |

How state and actions correspond to the code:

* **`EvidenceRecorder`**. `mode`, `events`, `sequences`, `lock` are `_occurrence_mode`,
  `_events`, `_sequences`, `_lock`. A thread `t` walks through `CheckMode`
  (`_require_legacy_recording` / `_require_explicit_occurrences`), `Prepare` (detaching
  fields; refusals and the empty decision return here), `Acquire`, `Build` once per event
  (`_build_checked_unlocked`), `CommitCounter` and `CommitEvents` (the two assignments at
  the end of the `with` block), or `BuildRaises`. `stream()` is `Snapshot` under the lock
  and `Assemble` after it, where the mode is read. The factory is a thread of its own,
  `CheckFactory ... InstallPrefix`: the code publishes the object to a subclass `__init__`
  before `for_occurrences` and `resume` finish, so threads may already use it. `by`, `pos`
  and `size` are auxiliary event fields that name the call an event came from; no guard
  reads them.
* **`EventValidation`**. The tables keep the code's names. `Scan(e)` is one turn of the
  loop; `Result` adds the attempt-gap check made after the loop, so that every state is
  also the end of a stream. The capability, delegation, handoff and approval tables of the
  code differ in their key alone and are one table `opened` here, keyed by the opening
  event type; `subject` stands for the part of the key that the family adds.
* **`LangGraphAdapter`**. `bases` is `attempt_bases`. `Identify` is everything under
  `attempt_lock`; `RecordDecision`, `ObserveFailure`, `ObserveSuccess` are one recorder call
  each (atomic, by `EvidenceRecorder`); `Deny`, `Interrupt`, `Abort`, `ReturnResult` are the
  exits, with or without `attempt_bases.pop`. LangGraph (retry counter, retry policy,
  interrupt, abort) and the host (`Save`, `Crash` followed by `resume`) are external actors
  modelled from how the adapter, its tests and its guide use them.

* **`Authorizer`, `EventReferences`**. The repository implements the authorization predicates
  twice: `agentic/authz.py` decides with them, `agentic_evidence.py` checks evidence with them.
  The two modules translate the two copies separately and share only the contract, so that a
  difference between the copies is a difference between the modules. A decision carries the
  intents its evidence consists of; the validator's side gives the set of its diagnostics.
  Times are numbers, names are members of small sets; the order of checks is kept.
* **`NetworkContract`**. `Loadable` is the part of the static checks (`agentic_network.py`,
  `agentic_delegation.py`) that speaks of the fields modelled: only contracts that
  `load_authorizer` accepts reach the kernel. A revocation that is already effective at load
  time must show in the item's status; one that takes effect later is left to the run time.
* **`GovernanceKernel`**. `clock` is what `DeterministicClock.next()` returns next,
  `contextAt` the `decision_at` of the current recorder, `stream` its events. `calls` is the
  stack of calls that were allowed and whose observation is still to come: protected work
  (`work`) may call the kernel again, so the stack may grow. Each of `Check`, `Execute`,
  `RequestHandoff`, `RequireApproval`, `CrossZone`, `ShareData` is one method up to its
  observation, `CompleteHandoff` a whole method, `Finish` and `Note` are observations.
  `Continues` is `_advance_recorder`: an equal instant keeps the recorder, any other resumes
  it, and `resume` validates the stream so far. The clock has moved even when it refuses.

* **`LangGraphAdapter`, environments**. `environment` is chosen in the initial state from
  `Environments`: which faults may happen beside those every host has, and how many nodes may be
  invoked. One run so covers the host the decision records promise a valid stream to, and worse ones.
* **`HarnessRuntime`**. `Command` loads a file and begins its check, `SearchStep` is one turn of the
  search for circular dependencies, `Checked` the rest of `check_document`, then comes the
  command's own action. `harness-run` is one `WriteFile` per file in the order of the code and
  `WriteManifest` at the end; a process may die before a write or within it (`Crash` leaves the
  file torn). `Call` is `run_harness` used as a library, on a document nobody checked. Documents,
  sources and repository come from families of the MC module.
* **`GovernanceWorkspace`**. A process reads directory by directory, then pack by pack, the
  document, whether there is a lock, and the lock itself each time it is used:
  `ComposeForCheck` and `EvaluateNow` are the two compositions of one command. `write_lock` is
  `PrepareLock`, `WriteTemporary`, `ReplaceLock`. Edits by others change packs, document, lock or
  saved approval between any two steps. `seen` (every lock there was since the command began)
  is auxiliary: no guard reads it.
* **`ContractWorkspace`**. `composition` stands for the packs, whose reading the workspace above
  models. `Start` fixes it, `LoadContract` reads the contract, `CheckContract` runs the structural
  checks against the evidence on disk, and the commands go on file by file: `OpenArtifact` and
  `FillArtifact` write in place, `InspectArtifact` and `ListDirectory` compare, `WriteLock` is one
  replacement. `calm` (nobody else has changed a file) is auxiliary. A digest is the thing digested.
* **Families of documents**. The pure checks are as much of the code as the steps around them.
  The MC modules take a correct document and all combinations of a few alternatives for each of
  its fields (and, apart, each field amiss alone); each is an initial state, so that a property
  over "what was accepted" compares the checks with a meaning stated without them.

## 3. What the runs show

| Run | Question | Bounds, and why they are enough |
|---|---|---|
| `recorder` | do all interleavings keep the log right, and implement `EvidenceLog`; is the lock always released, does every call return? | two threads and the factory, two missions, one occurrence, batches of at most two events, two calls, seven prior streams (valid in each mode, empty, out of order, gapped, mixed, later than the clock). Two threads and two calls make every race between two calls, beside a factory that may read, write and switch the mode as well; a batch of two is the smallest that can be split. The theorems below remove the bounds of all but the two liveness properties. |
| `validator_scan` | does one pass decide the rules? | every stream of at most four events over two occurrences, two operations, two attempts and two subjects, legacy and explicit. Each rule relates at most three events (a contradicted success, an attempt after it, a later closure); four leaves one to interfere |
| `langgraph_lifecycle` | does the adapter leave a valid stream, and what can go wrong when more fails? | two tasks, three attempts per retry policy and per occurrence, checkpoints and crashes between graph invocations: four node invocations where no more than that may happen, three where a recorder raises, a task fails after its node returned, or evidence is saved in the middle of a run. Four invocations allow retry, restart and retry again of one task beside another |
| `langgraph_late_failure` | does a recorded success close the occurrence? | **violated**, see below |
| `kernel` | do the decision core and the validator agree over time, and does the kernel fail closed? | nine contracts of two agents, a delegation, a handoff, an internal and an external crossing, two approvals; in each another authority lapses (identity, membership or delegation revoked or expired while the kernel runs, a gate without approvals). Four ticks allow a decision and its observation on both sides of the lapse, and one call after it; depth two is the smallest nesting. The theorems below remove the bounds. |
| `kernel_revoked` | is a capability assignment or handoff refused once its revocation is effective? | **violated**, see below |
| `harness` | do the checks and reports of the planning commands mean what they say, and do files vouch for each other? | every graph of at most four nodes (four make two cycles that share a node); families of flows, connector manifests, adapters, gates, repairs, evals, datasets and broken documents; three commands in one directory, dying anywhere: two runs mix their files, a third reads them |
| `harness_undeclared` | is the use of what nobody declared blocked? | **violated**, see below |
| `governance` | is a command that passes a command under one lock; is composition strictest; are rules what they mean? | 9 thousand pairs of a rule and a document (paths of two collections, lists of at most two elements, every operator; any value down to the last level replaced); families of approvals of two packs; five histories with two processes, three commands and at most three edits: a lock that changes between its two readings needs two, a lock that comes back three. Processes are symmetric |
| `contract` | is what the structural checks accept separately approved and no wider than its origin, and do files agree when a command passes? | 634 documents with a change, 1759 with exceptions and renewals, 793 networks with delegations, handoffs and relations (chains of two, and of three: a link, its parent, and what only the whole chain shows); six histories with two processes, three commands, two edits, crashes |
| `contract_parent` | is the parent of a delegation in force active? | **violated**, see below |
| `contract_lock` | is a forged hash inside a lock detected? | **violated**, see below |

`recorder` checks deadlock: only `Finished` (all calls made
and returned) may stutter for ever. The scan, the adapter and the kernel runs end when their
bound is reached -- adapter and kernel are libraries that wait for their next call -- and the runs of
the tools when all commands have ended, so they say `CHECK_DEADLOCK FALSE`.

What `langgraph_lifecycle` says. `StreamValid`, `RunsUnderOwnAllowance` and the refinement of
`OccurrenceLifecycle` are about hosts that save evidence between runs and tasks that fail
inside their node; under `FaultsStayContained` any host may do anything modelled, and an attempt
after a success and an attempt gap are the only diagnostics that can arise.

What `kernel` says, property by property. `DecisionsValidate`: what the core records for a
decision is evidence the validator accepts at that instant, with three exceptions (a party
refused because it is not effective becomes the actor of the violation; an approval that is
not declared is requested all the same; a grant names a role of its own requirement which the
network approval lacks). All of them occur in the run. `ObservationsValidate`: an observation
is stamped later than its decision, and is rejected only if the authority lapsed in between, or
at a crossing without a gate or under another approval, or a share of nothing, where core and
validator differ. `TransitionsValidate`: the order of the evidence is wrong only after a
`complete_handoff` nobody initiated, or when the standing of a capability changed during a
mission (a legacy stream has one verdict per actor and capability). `AllowedAsOften`: no tool
is observed more often than it was allowed, nesting included. `NoSilentRun`: a run whose
observation was refused never hides behind a stream that validates. `FailsClosed`: nothing is
added to a stream that does not validate.

What `harness` says. `CyclesExact`: the iterative search reports exactly the circular
dependencies, each whole. `CheckedDocumentsRun`: what the policy and eval runtimes raise after the first
write of `run_harness` the check has ruled out; what else a command on a checked document dies of
is named, value by value, in `Unchecked` and occurs in the run: a repair bound of `.inf` (`int()` raises an
OverflowError that `normalize_repairs` does not catch), a value without a JSON form, such as a YAML date, in what the
reports copy from the document (the actions of steps, the taints of contexts, the fields of a repair entry), and an
action whose keys are of several types, which the trace cannot sort. `ManifestVouches`: manifest and digest, if whole and of one digest, speak for all files
from the digest on; those before may be newer. `ReadyIsGuarded`: a readiness report other than
"blocked" has every step declared, guarded, targeted nowhere live, and approved by somebody;
it joins four reports that judge a step each by its own rule. `PassedIsEarned`: every metric was
observed and its threshold, a number, a truth value or a text under any of the six operators, holds of what
was observed; every dataset is there, and no holdout, whether its split, its name or the integrity block
makes it one, shares a line with a training set. What an observed value says of a yes or no is defined
apart from the code's coercion (`Says`), with the exception the code makes: any text but "true", "false" and the empty one is
a yes, so that `clean == true` passes on an observed "failed" (`bool()` in `_coerce_observed`; no document says otherwise).

What `governance` says. `CheckedUnderLock`: a command that passes has evaluated exactly the packs
of one lock that existed while it ran, or there was a moment without a lock and no pack was an
organisation's. `ComposedIsStrictest`: of all that a selected pack declares everything is
demanded. `RulesPerElement`: findings are those of the declarative meaning.
`RulesNeverSilenced`: a value of another type, at any level down to `MaxDepth`, never makes a violated
rule silent. Left out are conditions that look for a member (`contains`, `references_role` and the
like: a list without that member is legal, and the rule simply does not apply), requirements that look
for the very value put in, and mappings with a `required` list and an identity of their own
(`Discerns`; see section 5).
`TrustedMeansCurrent`: a saved approval that is trusted is what the packs say now.
`LockReplacedWhole`: whatever dies wherever, the lock is that of one composition.

What `contract` says. `ChangeReleased`: a change of high risk is released only by a human approval
in date, for its revision and scope; each piece of evidence it requires is there in a record that
holds all the way down (one of several of a type is enough); and no approver is its author or,
where independence is demanded, made any such evidence it refers to. `ExceptionsAreSeparate`: no two
exceptions of one control meet in a scope, nobody approves their own, and a renewal rests on
approvals that serve it alone. `AuthorityNeverGrows`: along a whole chain of delegations actions,
scopes, depth and time only shrink, from somebody who has the capability; the checks look at
one link. `PassedMeansCurrent`: a command that passed undisturbed leaves, or has found,
artifacts and lock of the contract as it is; a lock that a command passed is one of the contract it
read, whatever happened meanwhile: `lock` writes the very lock that is built, `lock-check` passes one in which
every field is that lock's and the last entry of each artifact has its hash (`IsLockOf`). Of earlier entries for the
same artifact it says nothing, see the finding of `contract_lock`.

Each property of a passing run has a mutant in `PROJECT.json`: an operator next to the
mapped definition, commented `Mutant of ...`, that changes it as a plausible bug would
(no lock, the counter rolled back although it has not moved, a mode checked on entry alone,
an attempt offset not reduced by the framework's own counter, ...) and that the property
must refute.

**Fairness.** Only `FairSpec` of `EvidenceRecorder` has any: weak fairness of each thread
inside a call and of the factory -- the interpreter keeps scheduling a thread that can run.
Weak fairness of `Acquire` is all that is used of the lock: a behaviour has at most
`MaxCalls` calls, so the lock is eventually free for good and no assumption about the
fairness of `threading.Lock` is made. Starting a call is the caller's choice and is not fair.

**Finding** (`kernel_revoked`). ADR-0039 says that `context.decision_at` "governs **all**
temporal action semantics at evaluation: identity validity, membership validity, delegation
validity, revocations, [...]". The core looks up revocations of identities, memberships and
delegations only. A revocation of a capability assignment or of a handoff that takes effect
after the contract was loaded is never consulted again: the capability or handoff is still
allowed at and after its effective time. The validator agrees with the core, so the evidence
does not show it either.

**Finding** (`langgraph_late_failure`). ADR-0042 says "A successful terminal observation
closes the occurrence; further work requires a new occurrence." The node adapter takes the
next attempt number without looking whether the occurrence already succeeded. If a task
fails after its node returned (its router or its state write raises) LangGraph retries it
under the same task id, the action runs again, and the evidence has an attempt after a
success: the stream is invalid (`AN_EVT_ATTEMPT_AFTER_SUCCESS`) and cannot be resumed.
`FaultsStayContained` shows that this and an attempt gap are the only diagnostics that the
faults considered can produce.

**Finding** (`harness_undeclared`). `docs/05_SECURITY_MODEL.md` says that tool, connector and
model steps "default to denied unless a matching `capabilities` declaration exists". A step is
judged by the first kind that it names, in the order agent, tool, connector, model: one that names
an agent and a connector is an agent step, no capability is asked for the connector, and the run
is planned, although the connector report plans the connector of that very step.
`ReadyIsGuarded` shows what still guards it: the manifest of the connector.

**Finding** (`contract_parent`). ADR-0034 says that a parent of a delegation must "be active". Of
the parent the check reads everything else (who, what, depth, actions, scopes, interval) but
neither its status nor a revocation of it: a delegation in force under a parent that is revoked,
or never was active, passes.

**Finding** (`contract_lock`). `docs/agentic-network/07_NETWORK_LOCK.md` lists "hash substitution inside
the lock itself" under what `lock-check` detects. A lock lists its artifacts, and before they are compared
the list becomes a mapping in which the last entry of a path counts; neither the schema nor the loader asks that
paths differ. A lock that lists an artifact twice, at first with another hash, passes, and whoever reads the first entry
reads a hash that was compared with nothing. (The profile lock does refuse repeated entries.)
`PassedMeansCurrent` shows what holds all the same: the last entry of each path is right.

## 4. What is proved

`EvidenceRecorder_proofs` proves, for any sets of threads, missions and occurrences, any
prior streams, batch size and number of calls:

* `TypeCorrect`, `AlwaysContiguous`, `CountersRight`, `AlwaysAtomic`, `NeverMixed`,
  `TimeOrdered`, `PublishedRight`, `PromiseKept`: `Spec => []P` for each safety invariant of
  `recorder`;
* `AppendOnly`: the action property `OnlyAppends`;
* `RecorderImplementsLog`: the refinement of `EvidenceLog`.

Assumptions: `StreamAssumption` (an absent occurrence is not an occurrence, the schema has a
maximum) and `RecorderAssumption` (thread names are distinct, prior streams are sequences
of events). TLC evaluates both.

The argument. None of the properties is inductive alone. The invariant `IInv` adds
`LockInv` (the program counters say who holds the lock), `CallInv` (what a call at each
place may be), `BuiltInv` (a batch under construction continues the mission's numbers, and
agrees with the mode), `CountersInv` (the counter is the highest recorded sequence -- *minus*
the batch of a thread between the two assignments of its commit: `CommittedSequence`),
`StampsInv` (nothing recorded is later than the clock), `FactoryInv` (while a factory may
still change the mode nothing is recorded, or it refuses) and `SnapshotInv` (a snapshot that
waits for its mode already fits it; an empty one fits any). With it, `CommitEvents` appends
a batch that starts where the mission's numbers end, which the lemmas about
streams show keeps a stream contiguous, ordered, homogeneous and whole; mode switches happen only on an
empty log, where every property holds for any mode. `IInv` was checked by TLC before it
was proved.

The promise of a factory needs its own induction on top (`PromiseStep`): once it is ready, the mode
can only be switched by another factory, and there is none; its prior is a prefix of every later
log. For the refinement `StreamsInv` adds that log and published streams are sequences of events;
`LogStepMaps` then finds `CommitEvents` and `InstallPrefix` to be appends of whole batches, the
switch of mode and the publication the abstract ones, and every other step a stutter.

`EventValidation_proofs` proves, for streams of any length over any operations, occurrences,
attempts and subjects:

* `TheScanIsExact`: `Spec => []ScanIsExact`;
* `PrefixesOfValidAreValid`: `Spec => PrefixesStayValid`.

Assumptions: `OccurrenceAssumption` (the highest attempt is a positive number) and
`ValidationAssumption` (the inputs are events); TLC evaluates both. The rules
relate any two events of a stream; the scan sees one at a time. `OccurrenceRules_proofs` says for
each rule what one more event adds (`AppendOrder`, `AppendOutcome`, ...), and the invariant of
`TablesMeanTheStream`, one conjunct for each table, says that the tables hold just what is needed to
decide it: `attempts` is the set of attempts that the stream has, `outcomes` is what the terminal events
of the attempt come to, and so on. The gap check after the loop is no rule of one more event: that filling
a gap does not heal a stream is proved from the order of attempts.

`LangGraphAdapter_proofs` proves, for any set of tasks, any number of attempts and invocations, and any
set of environments:

* `StreamsAreValid`, `AttemptsAreNext`, `FaultsAreContained`, `RunsUnderItsAllowance`:
  `Spec => []P` for each safety invariant of `langgraph_lifecycle`;
* `AdapterImplementsLifecycle`: the refinement of `OccurrenceLifecycle`.

Assumptions: `OccurrenceAssumption` and `AdapterAssumption` (the surface and the subject of the node are
the rules' own, the bounds are numbers); TLC evaluates both. The
invariant `IInv` has two layers. Under any host the stream never goes back and no two of its events
clash (`StreamInv`), and each task has an attempt at or above everything recorded for it, with
exactly its own allowance while it acts (`TaskInv`). Under a host and a recorder as agreed there is also
no gap and no attempt after a success (`AgreedInv`), because each attempt is the highest
recorded one plus one whether it was counted from the cache or from the stream (`CountInv`), and a
recorded success ends its task, in the checkpoint too (`SuccessInv`). Most of the proof is the
interplay of four counters: LangGraph's, the cached base, the attempt in hand, and the stream's. For the
refinement `RInv` adds that what was saved is, for each task, a part of what was recorded since
(`SavedInv`), which makes a restart the abstract one.

`GovernanceKernel_proofs` proves, for any set of loadable contracts, any requests, crossings
and approval records, and any bounds:

* `EvidenceOfDecisionsValidates`: for every well-formed contract, request and instant, each
  event of the decision's evidence passes the validator at that instant, but for the three
  exceptions of `Excused`;
* `DecisionsAlwaysValidate`: `Spec => []DecisionsValidate`;
* `AlwaysFailsClosed`: `Spec => FailsClosed`, for a clock that moves (`Step # 0`; with a clock
  that stands still `_advance_recorder` keeps the recorder and never validates);
* `RunsAreAllowed`, `NoRunIsSilent`, `ObservationsAlwaysValidate`, `TransitionsAlwaysValidate`:
  `Spec => []P` for the other invariants of `kernel`, whether the clock moves or not.

Assumptions: `KernelAssumption` (bounds are numbers, contracts are loadable) and
`ReferenceAssumption` (an absent reference is not the name of an identity, capability,
delegation, handoff, zone or approval, nor an approver type); TLC evaluates both. The argument: `SameStanding`
shows the two readings of identities, memberships and delegations equal; one lemma per request
family follows the branches of the decision and shows each intent clean (`Clean`) or excused.
From the contract it takes what `Loadable` gives: zones and gates refer to declared zones and
approvals. The invariant `KInv` then says that every event of the stream that is no
observation is such an intent at its own instant, that calls in progress await observations
only, and that a recorder with events is behind the clock, so that `Continues` is a
validation and not the shortcut of an equal instant; one lemma per action preserves it.

The second invariant of the kernel, `OInv` (`RunsInvariant`), is about work and its observation. `Budget`
says that for each actor, capability and mission the runs recorded and the calls in progress, counted
as runs to come, are together no more than the allowances recorded: a call goes on the stack in the same
step that records its allowance, and leaves it in the step that records its run or is refused.
`PrefixBudget` states it of every prefix of the stream, which is what `AllowedAsOften` looks at. The
runs that happened are those recorded as long as the stream validates: a run is lost only when its
observation is refused because the stream does not validate, and then nothing is added that could make
it validate; hence `NoRunIsSilent` (with a clock that stands still no observation is refused and every run is
recorded). `EventsInv` says which events the kernel can write: each observation has the actor,
capability, delegation and target that its decision checked (`Seen`), an allowed or denied
capability was held or not held at that very instant (`Right`), and delegations and approvals
answer a request of the same mission. `ObservationsAlwaysValidate` compares, for each kind of observation,
what `Seen` gives with what the validator asks for at the later instant; what is left over is a lapse or one
of the named differences. `TransitionsAlwaysValidate` takes the openers from `EventsInv` and, for
tools, from `PrefixBudget` (one run observed means one allowance before it); `Right`
makes two decisions of one subject that contradict each other decisions at different instants.

`GovernanceWorkspace_proofs` proves, for any number of processes, any packs, documents, locks and
histories of edits:

* `PassesUnderOneLock`: `Spec => []CheckedUnderLock`;
* `CompositionIsStrictest`: `Spec => []ComposedIsStrictest`;
* `RulesArePerElement`: `Spec => []RulesPerElement`, from `EvaluateMeans`: `EvaluateRule` finds what `Meaning` asks for;
* `RulesAreNeverSilenced`: `Spec => []RulesNeverSilenced`, from `RefusedStaysRefused`: the same of one document and one rule;
* `TrustIsCurrent`: `Spec => []TrustedMeansCurrent`;
* `LocksAreWhole`: `Spec => LockReplacedWhole`.

Assumptions: `CatalogAssumption` (the packaged catalog is admitted by the pack schema and registers
under distinct names and reserved identities), `ScenarioAssumption` (what a history begins with is a lock
file, or none, and documents are among `DocumentNodes`) and `NodesAssumption` (`DocumentNodes` has, with a
value, the values in it, and no list is longer than `MaxWidth`; these are arbitrary, and so is `MaxDepth`, so that every
finite document is one of some such set); TLC evaluates all three. The argument has four parts. The first is about one composition: leaves that compose
agree on every single value and their union keeps what each declares (`Composable`,
`CompositionKeeps`); whoever is required is accepted by each of them and denied by none
(`CompositionAccepts`); the same for policies and rules (`PoliciesTighten`, `RulesKept`); a lock
that agrees is the lock of the packs selected, entry by entry (`VerifiedIsLocked`). The second is
the invariant `Inv`, one conjunct per process (`ProcessInv`): the lock as it is now is among those
the process has seen, so that a lock it reads is one it has seen when it comes to pass; its registry
satisfies `RegistryInv`, which `RegisterKeeps` shows of every file a tier may hold; and what
it vouches for follows. That nothing poses as a pack of the catalog needs `PackNames`: the pack
schema gives identities a dot and names none, so that the name of one pack is never the identity of
another. Only `ReplaceLock` and `EditLock` touch the lock, and every running process sees it
(`SeeingKeeps`).

The third is about one rule. The engine follows a path with cursors, a segment at a time, and the meaning
quantifies over choices, one index for every segment; both are functions of the number of segments, and
what holds after each is shown by `UpTheLine`, the form of induction that speaks of a set of numbers. After
every segment the cursors are what the choices come to, with the elements taken as bindings, and the walks,
which the step limit counts, are the values looked into. A binding that is projected to the collections that a
requirement shares with a condition is what the meaning calls an element that satisfies that condition; the
conditions of `all` and `any` are added one at a time, again along the line. From one rule to all
findings of a command: each bears the name of its rule, a composition has no two rules of one name since
a registry has one pack for each identity and a pack no two rules of one identifier, and the
findings of structural checks bear the name of none (`Explained`, a conjunct of what a process `Vouches` for).

The fourth is about values of the wrong type. `Near` relates a value to what it may have become: itself, a value of
another type in its place, or a mapping or list that differs in one near part. What documents become is as closed as
documents are (`WideIsClosed`), so that `EvaluateMeans` holds of it and only meanings need comparing. A path that
breaks in neither of two near documents leads to near values (`TrailNear`); where it breaks in the damaged one, the
rule fails closed. An operator that looks for no member answers of a near value what it answered, or cannot read it
(`AnswerKept`): so the conditions are met by the same choices (`ConditionsKept`), or fail closed. Of those that
do look for a member only one half holds, and it is the half that requirements need: a refusal stays one
(`RefusalKept`), since lists, roles and references gain nothing but the odd value (`ScalarsNear`, `RolesKept`,
`ReferencesNear`). Nearness to any depth is the number of levels, again along the line (`LevelsMean`).

`HarnessRuntime_proofs` proves, for any documents, sources of policies, repository and requests, and any
number of commands:

* `ManifestsVouch`: `Spec => []ManifestVouches`;
* `CheckedRunsComplete`: `Spec => []CheckedDocumentsRun`;
* `PassedEvalsAreEarned`: `Spec => []PassedIsEarned`;
* `ReadinessIsGuarded`: `Spec => []ReadyIsGuarded`;
* `CyclesAreExact`: `Spec => []CyclesExact`, for graphs of any size and shape.

Assumptions: `DocumentsAssumption` (in a document that `load_nyx` returns the blocks that are looked into
by name are lists, and the manifests collected from it are numbered from one: they are, as a
sequence put together recursively, which the provers cannot see) and `SplitsAssumption` (no split of a
dataset is both one for training and a holdout); TLC evaluates both. The directory needs `DirectoryInv`: of
two files the one written later in the order is of no later run, and of an earlier one if the first
was left torn, since a run that dies in a write never comes back to it; `DirectoryStep` follows it through writes,
crashes and new runs, and with the digest of a run in three of the files `ManifestsVouch` is
a comparison of three files. What was reported is `ResultInv`: the result is what the report says of
the request it was given for, and `CommandInv` that a command under way has a document that parsed, and, if
it is marked as checked, one without errors. The rest is about what the reports compute: `CheckedRunsOn`
goes from each error that a run could raise to the diagnostic of `check_document` that
rules it out, or to a value that it does not look at; `WorstCounts`, `TruthEarned`, `NumberEarned`, `TextEarned`,
`MetricEarned` and `DatasetsEarned` from a status to each metric, by the type of its threshold, and each dataset; `ReadyMeans` and the lemmas after it from "not blocked" through the decisions of three reports to each
step, adapter and connector, `ManifestsAreSingle` because of two manifests with one name the
second blocks, `CountingIsNamed` and `FoundIsDeclared` because of two entries with one name the last counts.

The search for circular dependencies is Tarjan's algorithm without its recursion, and `SearchInv` is the
inductive invariant of one search (`SearchBegins`, `SearchKeeps`): numbers grow along the stack and along the
frames of the work list; an edge out of a node whose component is closed leads to another such node, and one that leads to a
node without number is still on a frame (`EdgesInv`); the node of a frame leads to every open node
numbered after it, and every open node leads back to a frame numbered before it (`ReachInv`); the low number of a frame's node
is that of an open node it leads to, and no edge from its branch, other than those still to be followed, leads to
an open node with a lower one (`LowInv`). A node whose low number is its own is then left by no edge into an
older open node (`RootIsLowest`), so that the open nodes from it on are closed under edges and are a whole circular dependency, or one
node that is in none (`RootIsComponent`); at the end no node is open (`SearchEnds`). What a node depends on
is defined without recursion, by the sets that are closed under edges, which is what lets the invariant be
proved: `DependsStays` takes a closed set of nodes to all they lead to, `DependsFirst` takes a dependency apart at its
first edge. The order in which `sorted()` visits nodes plays no part, and no bound on the graph either.

`ContractSemantics_proofs` proves, for any number of processes, any contracts, packs, evidence, artifacts
and locks and any history of edits:

* `PassedIsCurrent`: `Spec => []PassedMeansCurrent`;
* `AuthorityIsBounded`: `Spec => []AuthorityNeverGrows`, for chains of any length;
* `ReleasesAreApproved`: `Spec => []ChangeReleased`, for evidence connected in any way;
* `ExceptionsStaySeparate`: `Spec => []ExceptionsAreSeparate`, for chains of renewals of any length.

Assumptions: `ScenariosAssumption` (a history begins with what may lie in the directory of artifacts and
in the place of the lock, a lock that is read at all has the fields of its schema and lists artifacts, a path
more than once if it likes, and edits put nothing else there) and `ContractsAssumption` (a network is as the loader leaves it: its collections are
lists, a delegation has an id, times and depths are integers where they are neither absent nor
malformed, and no revocation target is absent; `IsGoverned` says the same of the lists and the times of evidence,
approvals and exceptions); TLC evaluates both. For the first, `FileInv` says of each process what is so whatever others
do (the lock it holds reads as the one built from the contract it has read as soon as nothing is found
amiss, `LockIsOwn`), and what is so as long as nobody else has changed a file (`Undisturbed`: what it has read is
what is there; the artifacts it has written, or compared without a finding, are on disk; one it has opened is
torn). A step that changes a file ends that for every other process (`Disturbs`), one that does not keeps it
for all (`Moves`), so that each action is looked at for the one process that takes it.
`ComparisonIsExact` and `FileIsExact` show that a comparison that finds nothing leaves no other lock, as it is read, or
file than the expected one: every field of a lock is compared, the list of artifacts as a mapping. `LastEntryCounts` and
`BuiltArtifacts` say which entries that mapping is made of, and `OwnIsOfContract` what is then known of the list.

For the second, `ReadInv` (theorem `ReadingInvariant`) says that whatever others edit, a process that has
accepted holds a contract in which the checks selected by its composition found nothing, at its
time and in the evidence it has read; what is left is about one document.
`NothingFoundInNetwork` and `EachIsClean` go from an empty report to a report that is empty for each
delegation and handoff; `DelegatorsHave`, `CapabilityAllows` and `ParentsGiveAsMuch` read off what
that means for one link: the delegator has what is given, the capability allows it, and the
parent is one delegation that gives as much and is one less deep. Depths go down along a link, so
`SomeIsShallowest` gives them a least element, depths are natural and no chain runs
in a circle (`Rooted`). The meaning collects a whole chain, generation by generation, by a recursive function; `NextGeneration`
follows it by one link and `ChainsAreComplete`, by least counterexample on the depth, to its end: as many
are above a delegation as it is deep, and it is `Within` each of them. `HandoffsGrantNothing` needs no chain.

The other two are about worklists, which both the code's checks and the meaning of a contract collect by
`Rounds`. `RoundsSettle` says that a step that only adds records settles, within as many rounds as there are records,
at the least set closed under it (the round grows in size or has settled: `Round` is the invariant, kept by
`NextRound`); `RoundsKeep`, that what every step leaves stays. Everything the checks compute by a worklist is
compared with what the meaning says through these two. `UsableAreProven` is the core: records that the
check counts by starting from those that rest on nothing are those that hold with all that they rest on. One
half is that the usable records are closed; for the other, proven records that were not
usable would each rest on another such record, would therefore survive every round of the search for a circle, and
`EVIDENCE_DEPENDENCY_CYCLE` would be found. `BeneathIsConnected` puts what a change's evidence rests on into the component
whose producers the check looks at; `KeysArePersons` goes from keys of actors to persons and back; `ChangeIsGranted`
and `ApproversAreApart` read off gates and duties. Of exceptions, `PredecessorsCameBefore` carries control, scope and
time from one renewal to all it renews, which also rules out a circle of renewals; `LineageIncludes`
and `ApprovalsAreNew` put all that earlier exceptions rest on into the lineage that the check excludes.

Only model-checked: the liveness properties of `recorder`, `LockReleased` and `EveryCallReturns`
(liveness and ENABLED are out of the proof system's reach here). Every other property of a passing run is a
theorem.

## 5. What is left out, and why

* Canonical JSON, digests, identifiers and field shapes: the properties do not tell them
  apart. A malformed intent is a refusal (`Prepare`) or a raising build (`BuildRaises`).
* Asynchronous exceptions (`KeyboardInterrupt`) inside the recorder's commit: the code makes
  no promise about them; noted as an uncovered hazard.
* The schema's maximum sequence (1,000,000) is not compared by the recorder; a stream of that
  length is beyond any bound here.
* Past `MAX_EVALUATION_STEPS` a path fails with `RULE_STEP_LIMIT_EXCEEDED`, alone in the model (`StepLimit`); the code
  also keeps the errors met before, which close the rule just the same.
* `NetworkContract` and `Authorizer` leave out scopes, protocol targets, relations, governance
  references and `depends_on`: the decision core does not read them and the modelled diagnostics
  do not depend on them. `NetworkFoundation` and `NetworkDelegation` have them.
* `load_authorizer`'s digests and lock: a contract is given as loaded. It composes without the
  profile lock.
* Choices of callers (subclassing `_build_event_unlocked`, mutating a returned
  stream) are limited to a build that raises: `stream()` returns deep copies.
* Harness: the text of the static evidence files (`approval_log.json` is always empty), hashes
  of context entries (the manifest has none), wording of reasons. `check --strict` and the
  language-feature tables of `schema_model.py`. Values that JSON, YAML and Python read in ways of their own (a
threshold that reads as null, a number too long to convert, text with lone surrogates) are left out, as are errors of the
file system; a governed package is given by what its own validation finds.
* Rules: `ApprovalRoles` reads the roles an approval declares. An item that claims by its schema to be a
  normalised approval (`rules.py:171-213`) is left out: the code regenerates it and takes its required and
  eligible roles (none if the resolution is incomplete), and reports `RULE_REFERENCE_TYPE_ERROR` for one that does
  not regenerate or that claims to be an effective approval.
* Governance: YAML syntax, size and depth limits of YAML and JSON, links and containment of pack
  paths (a file can be read or cannot); the static checker inside `check` is a flag of the
  document (`sound`) in `governance`, since `DocumentCheck` models it.
* Structural checks: `architecture_conformance.v1` and the revisions of architecture evidence; a
  revision of an unknown algorithm counts as malformed, a list with one malformed record as
  malformed as a whole, Unicode normalisation of names is `CaseFold`, and the diagnostics of one
  invalid approval are represented by `APPROVAL_DECLARATION_INVALID`. Delegations without depths
  are left to the schema: `AuthorityNeverGrows` assumes they are declared.
* Network lock: the temporary file of its writer (the profile lock shows that scheme), the lock
  fields that repeat the contract (`records`, `protocol_declarations`), and, in `contract`, the
  profile lock and the rule engine, which `governance` has.
* Not modelled at all: `load_authorizer`'s error codes, the CrewAI adapter and `enforce()` (the
  call sequence of the kernel under another facade), adapter metadata, AuthZEN, governed packages
  and the package scanner (hashing and pattern matching over file trees), generators and
  renderers, the portal. `PROJECT.json` gives the reason for each.

What the translation brought to light and no document speaks against, so that it is modelled as it
is and no finding: the deny rule for connectors can never match its vocabulary; `run_harness`
evaluates evals without a repository, and `cmd_harness_run` does not catch the errors of the eval
and policy runtimes; an eval without metrics passes; datasets listed under `holdouts` whose split or
name does not say so are no holdouts; the check of the repair bound follows a clamp that makes it
vacuous; a circular dependency is a warning. `trusted_effective_approval` does not ask whether
the saved sources are all that are selected now; `profiles resolve --lock` locks the modules of
the profile alone, so that a document that adds modules never matches that lock; `any` over a scalar
and a collection narrows the selection. `_reference_ids` reads the `required` list of a mapping, but
the mapping's own `id` or `name` where `required` is no list: a mapping that has both meets a rule that
looks for that name once its list is replaced by a scalar. Self-approval is looked at for changes of high and critical
risk; separation of duties and change control may look at different approvals of the same
change; the lock command verifies artifacts and only then writes the lock, so another process
may change them in between (`calm` in `PassedMeansCurrent`); a handoff is said to be completed
without asking whether it was initiated.

## 6. Plan

1. (done) `EvidenceStream`, `EvidenceLog`, `EvidenceRecorder`, their proofs.
2. (done) `OccurrenceRules`, `EventValidation`; `LangGraphAdapter`, `OccurrenceLifecycle`.
3. (done) `NetworkContract`, `Authorizer`, `EventReferences`, `GovernanceKernel`, and the
   proof that core and validator agree on the evidence of decisions.
4. (done) The harness runtime, the language checks it relies on: `HarnessRuntime` and its parts.
5. (done) Packs, locks, composition, approvals, rules: `GovernanceWorkspace` and its parts.
6. (done) Structural checks, network checks, artifacts and network lock: `ContractWorkspace`.
7. The CrewAI adapter and `enforce()` on a legacy recorder: at most one execution per
   allowance; a fixed `decision_at` makes two identical calls identical evidence (a replay).
8. `architecture_conformance.v1`; governed packages (export, verification, the scanner's gates).
9. (done) Proofs: composition only tightens, one lock, whole locks, trust that is current.
10. (done) Proofs: the runs of the kernel and its observations; the scan is exact for streams of any
   length; the LangGraph adapter and its refinement; what factories promise; the refinement of `EvidenceLog`.
11. (done) Proofs: the planning commands: what a manifest, a passed eval report and a readiness report mean.
12. (done) Proofs: what the contract commands leave on disk (`PassedMeansCurrent`), for any number of edits;
   `AuthorityNeverGrows` for chains of any length.
13. (done) Proofs: who may release a change (`ChangeReleased`) and what exceptions may do (`ExceptionsAreSeparate`).
14. (done) Proofs: the search for circular dependencies (`CyclesExact`), for any graph; values of another type
   (`RulesNeverSilenced`), at any depth.
