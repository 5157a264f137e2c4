-------------------------- MODULE LangGraphAdapter --------------------------
(***************************************************************************)
(* make_governed_node of the LangGraph adapter: the tasks of one governed  *)
(* node run in parallel, are retried, interrupted and resumed by LangGraph *)
(* with its own attempt counter, and share one recorder and one cache of   *)
(* attempt offsets.  A call of the recorder is one atomic step: that is    *)
(* what EvidenceRecorder guarantees.  LangGraph and the host that saves    *)
(* the stream are external, modelled from how the adapter, its tests and   *)
(* the guide use them.                                                     *)
(***************************************************************************)
EXTENDS OccurrenceRules, FiniteSetsExt, SequencesExt

CONSTANTS
  Surface,         \* binding.surface, the operation of every task here
  Subject,         \* the binding's (identity_ref, capability_ref)
  MaxNodeAttempt,  \* max_attempts of LangGraph's retry policy
  Environments     \* [faults, invocations]: what may go wrong besides the node's own
                   \* exceptions, and as bound the node invocations of a behaviour

\* A task is one scheduled execution of the node; task_id is the occurrence.
Tasks == Occurrences
NoBase == -1
Verdicts == {"allow", "deny", "ineffective", "malformed"}

ASSUME AdapterAssumption ==
  /\ Surface \in Operations /\ Subject \in Subjects
  /\ MaxNodeAttempt \in Nat \ {0}
  /\ \A e \in Environments :
       e.invocations \in Nat /\ e.faults \subseteq {"crash", "mid_run_save", "late_failure", "recorder_raises"}

VARIABLES
  status,        \* LangGraph: ready, running, raised, returned or done
  nodeAttempt,   \* LangGraph: ExecutionInfo.node_attempt
  invocations,   \* node invocations so far
  verdict,       \* what evaluate decides for the binding in this process
  bases,         \* attempt_bases
  pc,            \* where each task's invocation is
  attempt,       \* its occurrence.attempt
  log,           \* the recorder's events of this operation
  saved,         \* what the host persisted: [log, done]
  environment

framework == <<status, nodeAttempt, invocations, environment>>
vars == <<framework, verdict, bases, pc, attempt, log, saved>>

Init ==
  /\ environment \in Environments
  /\ status = [t \in Tasks |-> "ready"]
  /\ nodeAttempt = [t \in Tasks |-> 0]
  /\ invocations = 0
  /\ verdict \in Verdicts
  /\ bases = [t \in Tasks |-> NoBase]
  /\ pc = [t \in Tasks |-> "idle"]
  /\ attempt = [t \in Tasks |-> 0]
  /\ log = <<>>
  /\ saved = [log |-> <<>>, done |-> {}]

Recorded(t, type) ==
  [type |-> type, operation |-> Surface, occurrence |-> t,
   attempt |-> attempt[t], subject |-> Subject]

\* max_recorded_attempt
Highest(t) == Max({0} \cup {log[i].attempt : i \in {j \in DOMAIN log : log[j].occurrence = t}})

-----------------------------------------------------------------------------
(* LangGraph: it invokes a task, retries one that raised, and gives up; an *)
(* interrupted or given-up task runs again when the graph is invoked again.*)

Invoke(t, n) ==
  /\ invocations < environment.invocations
  /\ invocations' = invocations + 1
  /\ nodeAttempt' = [nodeAttempt EXCEPT ![t] = n]
  /\ status' = [status EXCEPT ![t] = "running"]
  /\ pc' = [pc EXCEPT ![t] = "entered"]
  /\ UNCHANGED <<verdict, bases, attempt, log, saved, environment>>

Schedule(t) == status[t] = "ready" /\ Invoke(t, 1)
Retry(t) ==
  status[t] = "raised" /\ nodeAttempt[t] < MaxNodeAttempt /\ Invoke(t, nodeAttempt[t] + 1)

Becomes(t, old, new) ==
  /\ status[t] = old
  /\ status' = [status EXCEPT ![t] = new]
  /\ UNCHANGED <<nodeAttempt, invocations, environment, verdict, bases, pc, attempt, log, saved>>

GiveUp(t) == Becomes(t, "raised", "ready")
Commit(t) == Becomes(t, "returned", "done")

\* The node returned, but the task fails after it: its router or its write raises.
LateFailure(t) == "late_failure" \in environment.faults /\ Becomes(t, "returned", "raised")

-----------------------------------------------------------------------------
(* governed_node.                                                          *)

\* The invocation of t ends and LangGraph sees it as s.
Leave(t, s) ==
  /\ pc' = [pc EXCEPT ![t] = "idle"]
  /\ status' = [status EXCEPT ![t] = s]
  /\ UNCHANGED <<nodeAttempt, invocations, environment>>

\* Mutant of CacheKey: the cache is keyed by mission and surface alone.
CacheKeyOfNode(t) == CHOOSE u \in Tasks : TRUE

\* (mission_id, binding.surface, task_id): only the task differs here.
CacheKey(t) == t
PopBase(t) == bases' = [bases EXCEPT ![CacheKey(t)] = NoBase]

\* Mutants of Base: no offset; the fallback is not reduced.
BaseIgnoresPrefix(t) == 0
BaseNotReduced(t) ==
  IF nodeAttempt[t] > 1 /\ bases[CacheKey(t)] # NoBase THEN bases[CacheKey(t)] ELSE Highest(t)

\* The attempts recorded before this execution segment.
Base(t) ==
  IF nodeAttempt[t] = 1 THEN Highest(t)
  ELSE IF bases[CacheKey(t)] # NoBase THEN bases[CacheKey(t)]
  ELSE Max({0, Highest(t) - (nodeAttempt[t] - 1)})

\* Under attempt_lock; then RuntimeOccurrence refuses an attempt beyond the schema.
Identify(t) ==
  /\ pc[t] = "entered"
  /\ bases' = [bases EXCEPT ![CacheKey(t)] = Base(t)]
  /\ IF Base(t) + nodeAttempt[t] <= MaxAttempt
     THEN /\ attempt' = [attempt EXCEPT ![t] = Base(t) + nodeAttempt[t]]
          /\ pc' = [pc EXCEPT ![t] = "identified"]
          /\ UNCHANGED framework
     ELSE Leave(t, "raised") /\ UNCHANGED attempt
  /\ UNCHANGED <<verdict, log, saved>>

\* The intents of the decision; a malformed request has none.
Intents ==
  CASE verdict = "allow"       -> <<"capability_requested", "capability_allowed">>
    [] verdict = "deny"        -> <<"capability_requested", "capability_denied">>
    [] verdict = "ineffective" -> <<"policy_violation">>
    [] verdict = "malformed"   -> <<>>

\* Mutant of RecordDecision: only an explicit denial stops the action.
RecordDecisionActsUnlessDenied(t) ==
  /\ pc[t] = "identified"
  /\ log' = log \o [i \in DOMAIN Intents |-> Recorded(t, Intents[i])]
  /\ pc' = [pc EXCEPT ![t] = IF verdict = "deny" THEN "denied" ELSE "acting"]
  /\ UNCHANGED <<framework, verdict, bases, attempt, saved>>

RecordDecision(t) ==
  /\ pc[t] = "identified"
  /\ log' = log \o [i \in DOMAIN Intents |-> Recorded(t, Intents[i])]
  /\ pc' = [pc EXCEPT ![t] = IF verdict = "allow" THEN "acting" ELSE "denied"]
  /\ UNCHANGED <<framework, verdict, bases, attempt, saved>>

\* The recorder raises: nothing is recorded, and the cached base stays.
RecorderRaises(t) ==
  /\ "recorder_raises" \in environment.faults
  /\ pc[t] \in {"identified", "failing", "succeeding"}
  /\ Leave(t, "raised")
  /\ UNCHANGED <<verdict, bases, attempt, log, saved>>

Deny(t) ==
  /\ pc[t] = "denied"
  /\ PopBase(t) /\ Leave(t, "raised")
  /\ UNCHANGED <<verdict, attempt, log, saved>>

\* The action ends: it returns, raises an Exception ...
ActionEnds(t) ==
  /\ pc[t] = "acting"
  /\ \E next \in {"succeeding", "failing"} : pc' = [pc EXCEPT ![t] = next]
  /\ UNCHANGED <<framework, verdict, bases, attempt, log, saved>>

\* ... suspends with a GraphBubbleUp ...
Interrupt(t) ==
  /\ pc[t] = "acting"
  /\ PopBase(t) /\ Leave(t, "ready")
  /\ UNCHANGED <<verdict, attempt, log, saved>>

\* ... or is stopped by a BaseException that the adapter does not catch.
Abort(t) ==
  /\ pc[t] = "acting"
  /\ Leave(t, "ready")
  /\ UNCHANGED <<verdict, bases, attempt, log, saved>>

\* Mutant of ObserveFailure: the exception is not raised again.
ObserveFailureFallsThrough(t) ==
  /\ pc[t] = "failing"
  /\ log' = Append(log, Recorded(t, "runtime_failed"))
  /\ pc' = [pc EXCEPT ![t] = "succeeding"]
  /\ UNCHANGED <<framework, verdict, bases, attempt, saved>>

ObserveFailure(t) ==
  /\ pc[t] = "failing"
  /\ log' = Append(log, Recorded(t, "runtime_failed"))
  /\ Leave(t, "raised")
  /\ UNCHANGED <<verdict, bases, attempt, saved>>

ObserveSuccess(t) ==
  /\ pc[t] = "succeeding"
  /\ log' = Append(log, Recorded(t, "agent_invoked"))
  /\ pc' = [pc EXCEPT ![t] = "succeeded"]
  /\ UNCHANGED <<framework, verdict, bases, attempt, saved>>

ReturnResult(t) ==
  /\ pc[t] = "succeeded"
  /\ PopBase(t) /\ Leave(t, "returned")
  /\ UNCHANGED <<verdict, attempt, log, saved>>

-----------------------------------------------------------------------------
(* The host.                                                               *)

\* "persist the cumulative stream with the framework checkpoint": between two
\* invocations of the graph, unless the host does not wait for that.
Save ==
  /\ "crash" \in environment.faults
  /\ "mid_run_save" \in environment.faults \/ \A t \in Tasks : status[t] \in {"ready", "done"}
  /\ saved' = [log |-> log, done |-> {t \in Tasks : status[t] = "done"}]
  /\ UNCHANGED <<framework, verdict, bases, pc, attempt, log>>

\* The process dies and another resumes the saved stream: new recorder, new nodes,
\* and a later decision_at under which evaluate may decide otherwise.
Crash ==
  /\ "crash" \in environment.faults
  /\ Diagnostics(saved.log, TRUE) = {}   \* else EvidenceRecorder.resume refuses
  /\ log' = saved.log
  /\ status' = [t \in Tasks |-> IF t \in saved.done THEN "done" ELSE "ready"]
  /\ nodeAttempt' = [t \in Tasks |-> 0]
  /\ verdict' \in Verdicts
  /\ bases' = [t \in Tasks |-> NoBase]
  /\ pc' = [t \in Tasks |-> "idle"]
  /\ attempt' = [t \in Tasks |-> 0]
  /\ UNCHANGED <<invocations, environment, saved>>

Node(t) ==
  \/ Identify(t) \/ RecordDecision(t) \/ RecorderRaises(t) \/ Deny(t)
  \/ ActionEnds(t) \/ Interrupt(t) \/ Abort(t)
  \/ ObserveFailure(t) \/ ObserveSuccess(t) \/ ReturnResult(t)

LangGraph(t) == Schedule(t) \/ Retry(t) \/ GiveUp(t) \/ Commit(t) \/ LateFailure(t)

Next == (\E t \in Tasks : LangGraph(t) \/ Node(t)) \/ Save \/ Crash

Spec == Init /\ [][Next]_vars

-----------------------------------------------------------------------------
(* Properties.                                                             *)

\* Nothing happens that the adapter's contract excludes.
AsAgreed == environment.faults \subseteq {"crash"}

\* At any moment, in any mix of retry, denial, interrupt, resume, parallel tasks and
\* crash, the recorded stream passes the validator's transition rules and replay check.
StreamValid == AsAgreed => Diagnostics(log, TRUE) = {} /\ ~Replays(log)

\* The offset: the attempt an invocation is about to use is the successor of the last
\* recorded one, although node_attempt restarts at 1 and the cache may be empty.
AttemptIsNext ==
  \A t \in Tasks : AsAgreed /\ pc[t] = "identified" /\ verdict # "malformed"
    => attempt[t] = Highest(t) + 1

\* An action runs only under an allowance recorded for its own attempt, once, and
\* while nothing else was decided or concluded in that attempt -- also when the
\* recorder raises, a task fails late, or evidence is saved in the middle of a run.
RunsUnderOwnAllowance ==
  \A t \in Tasks : pc[t] \in {"acting", "failing", "succeeding"} =>
    LET own == {i \in DOMAIN log : log[i].occurrence = t /\ log[i].attempt = attempt[t]}
    IN  /\ Cardinality({i \in own : log[i].type = "capability_allowed"}) = 1
        /\ \A i \in own : log[i].type \notin Terminals

\* Whatever fails around the adapter, attempts are never reused or reordered and never
\* have two outcomes: only a gap or an attempt after a success can invalidate a stream.
FaultsStayContained ==
  Diagnostics(log, TRUE) \subseteq {"ATTEMPT_GAP", "ATTEMPT_AFTER_SUCCESS"} /\ ~Replays(log)

\* "A successful terminal observation closes the occurrence; further work requires a
\* new occurrence" (ADR-0042:42-43): no attempt follows a recorded success.
SuccessClosesOccurrence == ~AttemptAfterSuccess(log)

\* The evidence of each task follows the life of an occurrence that ADR-0042 describes.
Outcome(t, n) ==
  LET types == {log[i].type : i \in {j \in DOMAIN log : log[j].occurrence = t /\ log[j].attempt = n}}
  IN  CASE "agent_invoked" \in types -> "succeeded"
        [] "runtime_failed" \in types -> "failed"
        [] types \cap {"capability_denied", "policy_violation"} # {} -> "denied"
        [] OTHER -> "open"
Lifecycle == INSTANCE OccurrenceLifecycle WITH
  history <- [t \in Tasks |-> IF AsAgreed THEN [n \in 1..Highest(t) |-> Outcome(t, n)] ELSE << >>]
ImplementsLifecycle == Lifecycle!Spec
=============================================================================
