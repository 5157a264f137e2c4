---------------------------- MODULE HarnessRuntime ----------------------------
(***************************************************************************)
(* The local planning commands over one output directory: harness-run,     *)
(* policy-check, eval-run, connector-plan and the readiness report.  A     *)
(* command loads its file, checks the document (the search for circular    *)
(* dependencies step by step) and then reports, harness-run by writing one *)
(* file after the other; the process may die between and within writes.    *)
(* run_harness may also be called on a document nobody checked.            *)
(***************************************************************************)
EXTENDS DocumentCheck, HarnessPlan, EvalRuntime, DependencyCycles

CONSTANTS
  Sources,       \* the files policies may refer to: file -> document
  FirstRequests, \* bound: the requests [command, file, harness, evals, results] given first,
                 \* file being the document in the file named, None if it does not parse
  LaterRequests, \* bound: those given after the first
  Repository,    \* path -> set of lines
  MaxRuns        \* bound: how many commands are given

\* If load_nyx returns a document, the blocks that are looked into by name are lists, and so
\* are the manifests collected from it.
ASSUME DocumentsAssumption ==
  \A r \in FirstRequests \cup LaterRequests :
    LET doc == LoadNyx(r.file, Sources)
    IN doc # ParseError =>
         /\ \A block \in {"harnesses", "evals", "agents", "policies", "capabilities"} :
              Entries(doc, block) \in Seq(Range(Entries(doc, block)))
         /\ DOMAIN ConnectorSources(doc) \subseteq Nat \ {0}

VARIABLES
  pc,            \* "idle", "parse_error", "checking", "reporting", "writing"
  request,       \* the command under way
  checked,       \* whether the document under way has been checked
  next,          \* index of the next file to write
  runs,          \* how many commands have been given
  out,           \* file -> [run, whole, digest]: which run wrote it, Absent before
  result         \* how the last command ended: [outcome, command, file, harness, status]

runVars == <<pc, request, checked, next, runs, out, result>>
vars == <<runVars, searchVars>>

RunFiles == <<"context_pack", "policy_report", "eval_report", "connector_report", "approval_log",
              "trace_bundle", "trace_digest", "evidence/test_report", "evidence/eval_report",
              "evidence/security_report", "evidence/risk_update", "evidence/approval_log",
              "evidence/trace_digest", "evidence/evidence_manifest", "run_manifest">>

Absent == [run |-> 0, whole |-> FALSE, digest |-> 0]
NoRequest == [command |-> "none"]

Document == LoadNyx(request.file, Sources)
Harness == SelectHarness(Document, request.harness)

Init ==
  /\ pc = "idle" /\ request = NoRequest /\ checked = FALSE /\ next = 1 /\ runs = 0
  /\ out = [f \in Range(RunFiles) |-> Absent]
  /\ result = [outcome |-> "none"]
  /\ Idle

End(outcome, status) ==
  /\ pc' = "idle" /\ request' = NoRequest /\ checked' = FALSE /\ next' = 1
  /\ result' = [outcome |-> outcome, status |-> status, command |-> request.command, file |-> request.file,
                harness |-> request.harness, evals |-> request.evals, results |-> request.results,
                checked |-> checked]

\* A command line: load_nyx and the start of check_document.
Command(r) ==
  LET doc == LoadNyx(r.file, Sources)
  IN /\ pc = "idle" /\ runs < MaxRuns
     /\ runs' = runs + 1
     /\ request' = r
     /\ \/ /\ doc = ParseError
           /\ pc' = "parse_error"
           /\ UNCHANGED searchVars
        \/ /\ doc # ParseError
           /\ pc' = "checking"
           /\ Begin(SearchedEdges(doc))
     /\ UNCHANGED <<checked, next, out, result>>

\* A call of run_harness or of build_bounded_execution_readiness_report.
Call(r) ==
  /\ pc = "idle" /\ runs < MaxRuns
  /\ LoadNyx(r.file, Sources) # ParseError
  /\ runs' = runs + 1
  /\ request' = r
  /\ pc' = "reporting"
  /\ UNCHANGED <<checked, next, out, result, searchVars>>

ParseFails ==
  /\ pc = "parse_error"
  /\ End("error", None)
  /\ UNCHANGED <<runs, out, searchVars>>

SearchStep ==
  /\ pc = "checking" /\ Search
  /\ UNCHANGED runVars

\* A circular dependency is a warning: only errors refuse the document.
Checked ==
  /\ pc = "checking" /\ Searched
  /\ \/ /\ HasErrors(CheckDocument(Document))
        /\ End("refused", None)
     \/ /\ ~ HasErrors(CheckDocument(Document))
        /\ pc' = "reporting" /\ checked' = TRUE
        /\ UNCHANGED <<request, next, result>>
  /\ Forget
  /\ UNCHANGED <<runs, out>>

\* The commands that only report.  A harness or an eval that is not there is an error they handle,
\* a report that cannot be written, if they are asked to write it (--out), is not.
PolicyCheck ==
  /\ pc = "reporting" /\ request.command = "policy-check"
  /\ \/ Harness = None /\ End("error", None)
     \/ Harness # None /\ Unwritable("policy_report", Document, Harness) /\ End("raised", None)
     \/ Harness # None /\ End("done", RunStatus(Document, Harness))
  /\ UNCHANGED <<runs, out, searchVars>>

EvalRun ==
  LET report == EvaluateDocumentEvals(Document, request.evals, request.results, Repository)
  IN /\ pc = "reporting" /\ request.command = "eval-run"
     /\ IF UnknownEval(Document, request.evals) THEN End("error", None) ELSE End("done", report.status)
     /\ UNCHANGED <<runs, out, searchVars>>

ConnectorPlan ==
  /\ pc = "reporting" /\ request.command = "connector-plan"
  /\ \/ Unwritable("connector_report", Document, None) /\ End("raised", None)
     \/ End("done", BuildConnectorReport(Document).status)
  /\ UNCHANGED <<runs, out, searchVars>>

\* context-build neither checks the document nor keeps to a harness.
ContextBuild ==
  /\ pc = "reporting" /\ request.command = "context-build"
  /\ IF Unwritable("context_pack", Document, None) THEN End("raised", None)
     ELSE End("done", ContextEntries(Document, DOMAIN Repository))
  /\ UNCHANGED <<runs, out, searchVars>>

\* A harness without a name is not found a second time, by its name (one called UnnamedHarness aside).
PolicyRaises == Get(Harness, "name") = None

Readiness ==
  /\ pc = "reporting" /\ request.command = "readiness"
  /\ IF Harness = None \/ PolicyRaises \/ RepairsRaise(Harness) THEN End("raised", None)
     ELSE End("done", ReadinessStatus(Document, Harness))
  /\ UNCHANGED <<runs, out, searchVars>>

\* run_harness begins: the harness is looked up and the directory made.
StartRun ==
  /\ pc = "reporting" /\ request.command = "harness-run"
  /\ \/ Harness = None /\ End("error", None)
     \/ /\ Harness # None
        /\ pc' = "writing"
        /\ UNCHANGED <<request, checked, next, result>>
  /\ UNCHANGED <<runs, out, searchVars>>

\* What is computed before the file is opened raises: a repair bound is no number, the harness
\* has no name to be found by again, a step names an eval the document does not have, or the
\* file would hold a value that JSON has no form for.
Raises(file) ==
  \/ file = "policy_report" /\ (PolicyRaises \/ RepairsRaise(Harness))
  \/ file = "eval_report" /\ UnknownEval(Document, EvalRefs(Harness))
  \/ Unwritable(file, Document, Harness)

\* Mutant of Written: the trace events carry no time, so that runs share a digest.
WrittenTimeless(file) == [run |-> runs, whole |-> TRUE, digest |-> 1]

\* The trace digest of a run, unique since its events carry times, is in three of the files.
Written(file) == [run |-> runs, whole |-> TRUE, digest |-> runs]

WriteFile ==
  /\ pc = "writing" /\ next < Len(RunFiles)
  /\ \/ /\ Raises(RunFiles[next])
        /\ End("raised", None)
        /\ UNCHANGED out
     \/ /\ ~ Raises(RunFiles[next])
        /\ out' = [out EXCEPT ![RunFiles[next]] = Written(RunFiles[next])]
        /\ next' = next + 1
        /\ UNCHANGED <<pc, request, checked, result>>
  /\ UNCHANGED <<runs, searchVars>>

\* The manifest comes last.
WriteManifest ==
  /\ pc = "writing" /\ next = Len(RunFiles)
  /\ \/ /\ Raises("run_manifest")
        /\ End("raised", None)
        /\ UNCHANGED out
     \/ /\ ~ Raises("run_manifest")
        /\ out' = [out EXCEPT !["run_manifest"] = Written("run_manifest")]
        /\ End("done", RunStatus(Document, Harness))
  /\ UNCHANGED <<runs, searchVars>>

\* The process dies, in the middle of a write: the file is left torn, or as it was.
Crash ==
  /\ pc = "writing"
  /\ \/ UNCHANGED out
     \/ out' = [out EXCEPT ![RunFiles[next]] = [run |-> runs, whole |-> FALSE, digest |-> 0]]
  /\ End("died", None)
  /\ UNCHANGED <<runs, searchVars>>

UncheckedCommands == {"readiness", "harness-run", "context-build"}

Give(r) ==
  \/ r.command \notin {"readiness", "context-build"} /\ Command(r)
  \/ r.command \in UncheckedCommands /\ Call(r)

\* Bound: only a harness run is followed by another; the rest leave the directory alone.
Next ==
  \/ pc = "idle" /\ runs = 0 /\ \E r \in FirstRequests : Give(r)
  \/ pc = "idle" /\ (runs > 0 => result.command = "harness-run") /\ \E r \in LaterRequests : Give(r)
  \/ ParseFails \/ SearchStep \/ Checked
  \/ PolicyCheck \/ EvalRun \/ ConnectorPlan \/ ContextBuild \/ Readiness
  \/ StartRun \/ WriteFile \/ WriteManifest \/ Crash

Spec == Init /\ [][Next]_vars

(***************************************************************************)
(* Properties.                                                             *)
(***************************************************************************)
\* The search reports exactly the circular dependencies of the graph: the maximal sets of
\* nodes that all depend on one another, whatever the order the graph is walked in and
\* however components nest or share edges (checker.py:_dependency_cycles).
CyclesExact ==
  pc = "checking" /\ Searched => components = CircularDependencies(SearchedEdges(Document))

\* What check_document does not look at, and a command on the document dies of: a repair bound of
\* .inf in the harness run (harness_runtime.py:145), or a value without a JSON form among those
\* the command's reports copy (an action, a taint, a field of a repair entry).
Unchecked(command, doc, harness) ==
  LET actions == UNION {Actions(h) : h \in MappingSet(doc, "harnesses")}
  IN \/ command = "harness-run" /\ \E r \in Repairs(harness) : r.max_attempts = Infinite
     \/ command = "harness-run" /\ NotJson \in Taints(doc) \cup actions \cup RepairCopies(harness)
     \/ command = "harness-run" /\ MixedKeys \in Actions(harness)
     \/ command \in {"policy-check", "connector-plan"} /\ NotJson \in actions

\* A command on a document that check_document let through dies of the document, harness-run in
\* the middle of its files, only by an Unchecked value.  Of everything else that run_harness
\* raises after its first write and cmd_harness_run does not catch, a harness that is not found
\* again and an eval that is not there, the check has ruled out every cause, for every harness.
CheckedDocumentsRun ==
  result.outcome = "raised" /\ result.checked =>
    LET doc == LoadNyx(result.file, Sources)
    IN Unchecked(result.command, doc, SelectHarness(doc, result.harness))

\* The directory of a run, read while commands run, die and run again: if the manifest and
\* trace_digest.json are whole and show one digest, all files from the digest on are whole and
\* of one run, and no file is older.  (Those before may be newer: a later run may have died.)
ManifestVouches ==
  LET digestAt == SelectInSeq(RunFiles, LAMBDA f : f = "trace_digest")
      manifest == out["run_manifest"]
  IN manifest.whole /\ out["trace_digest"].whole /\ manifest.digest = out["trace_digest"].digest
       => \A i \in DOMAIN RunFiles :
            IF i < digestAt THEN out[RunFiles[i]].run >= manifest.run
            ELSE out[RunFiles[i]].whole /\ out[RunFiles[i]].run = manifest.run

\* Every capability a step names, by the kind it counts as, is declared with that kind and
\* name, and the declaration that counts, the last one, permits the action.
Declared(doc, kind, name, action) ==
  LET declarations == Entries(doc, "capabilities")
      same(c) == c # IllTyped /\ Get(c, "name") = name /\
                 (Get(c, "kind") = kind \/ (kind = "tool" /\ Get(c, "kind") \notin CapabilityKinds))
  IN \E i \in DOMAIN declarations :
       /\ same(declarations[i]) /\ \A j \in DOMAIN declarations : j > i => ~ same(declarations[j])
       /\ GetSet(declarations[i], "allow") \cap {"*", IF action = None THEN "use" ELSE action} # {}
            \/ GetSet(declarations[i], "allow") = {}

\* The entry of that name that counts, the last one, if there is any.
Counting(doc, block, name) ==
  LET entries == Entries(doc, block)
      named == {i \in DOMAIN entries : name # None /\ HasName(entries[i], name)}
  IN {entries[i] : i \in {k \in named : \A j \in named : j <= k}}

\* A readiness report that does not say "blocked" keeps what the security model asks for
\* (docs/05): every step is of a known kind; a tool, connector or model step has a declared
\* capability that permits its action, a connector or model step a guardrail too; a connector
\* that a step names has one manifest of its name, with a known protocol, no live target and
\* nothing sensitive shared; no adapter executes anything or does without approval; no agent
\* step does what its policy denies; and somebody has to approve.
ReadyIsGuarded ==
  result.outcome = "done" /\ result.command = "readiness" /\ result.status # "blocked" =>
    LET doc == LoadNyx(result.file, Sources)
        harness == SelectHarness(doc, result.harness)
        connectors == NormalizeConnectors(doc)
        manifests(name) == {i \in DOMAIN connectors : Folded(connectors[i].name) = Folded(name)}
        guardrails == UNION {GetSet(g, "validate") : g \in MappingSet(doc, "guardrails")}
    IN /\ "approval" \in GetSet(harness, "gate") \cup GetSet(harness, "gates")
       /\ \A a \in Range(NormalizeAdapters(doc)) : a.mode = "contract_only" /\ ~ a.live /\ a.approval
       /\ \A s \in Range(Flow(harness)) :
            /\ s # IllTyped /\ DOMAIN s.names # {}
            /\ \A kind \in CapabilityKinds : StepKind(s) = kind =>
                 /\ Declared(doc, kind, s.names[kind], s.action)
                 /\ kind # "tool" => guardrails \cap ExternalGuardrails # {}
            /\ "connector" \in DOMAIN s.names /\ s.names["connector"] # None =>
                 /\ Cardinality(manifests(s.names["connector"])) = 1
                 /\ \A i \in manifests(s.names["connector"]) :
                      LET c == connectors[i]
                      IN /\ c.name = s.names["connector"] /\ c.protocol \in {"mcp", "a2a"} /\ ~ c.live
                         /\ c.mode \notin UnsafeDefaultModes
                         /\ c.protocol = "a2a" => \A t \in c.share : Folded(t) \notin SensitiveShareTokens
            /\ StepKind(s) = "agent" =>
                 \A a \in Counting(doc, "agents", s.names["agent"]) :
                   \A p \in Counting(doc, "policies", Get(a, "policy")) :
                     \A rule \in GetSet(p, "deny") : rule \cap s.words \cap TextTokens = {}

OneIf(b) == IF b THEN 1 ELSE 0

\* The numbers that an observed value stands for: a text for the one it reads as.
Numbers(x) ==
  CASE x.type = "number" -> {x.value}
    [] x.type = "truth" -> {OneIf(x.value)}
    [] x.type = "text" -> IF x.reads # None /\ x.reads.type = "number" THEN {x.reads.value} ELSE {}
    [] OTHER -> {}

\* What an observed value says of a yes or no: a text "true" or "false" what it reads as, a number
\* whether it is not 0.  The exception: any other text, a list and a mapping are a yes unless
\* they are empty, so that "failed" is one (bool() in _coerce_observed).
Says(x) ==
  CASE x.type = "truth" -> x.value
    [] x.type = "number" -> x.value # 0
    [] x.type = "text" -> IF x.reads # None /\ x.reads.type = "truth" THEN x.reads.value ELSE x.value # ""
    [] OTHER -> x.filled

\* A threshold holds of an observed value.  A null, a list and a mapping merely differ from a
\* number, and all but texts from a text.
HoldsOf(x, op, t) ==
  CASE t.type = "number" ->
         \/ \E n \in Numbers(x) : NumberSatisfies(n, op, t.value)
         \/ x.type \notin {"number", "truth", "text"} /\ op = "!="
    [] t.type = "truth" -> NumberSatisfies(OneIf(Says(x)), op, OneIf(t.value))
    [] OTHER -> IF x.type = "text" /\ t.type = "text" THEN TextSatisfies(x.value, op, t.value) ELSE op = "!="

\* Every metric of the eval was observed, and its threshold holds of what was observed.
MetricsHold(e, observed) ==
  \A m \in GetSet(e, "metrics") :
    m # IllTyped /\ m.name \in DOMAIN observed /\ HoldsOf(observed[m.name], m.op, m.threshold)

\* Every dataset and every holdout, those of the integrity block too, is a local file that is
\* there, and no holdout, by its split, its name or its place, shares a line with a training set.
DatasetsApart(e, files) ==
  LET declared == GetSet(e, "datasets") \cup GetSet(e, "holdouts")
      kept == IF Get(e, "integrity") \in {None, IllTyped} THEN {} ELSE GetSet(e.integrity, "holdout")
      holdouts == {d \in declared \cup kept : Get(d, "split") \in HoldoutSplits}
        \cup {d \in declared : Get(d, "split") = None /\ d.saysHoldout}
        \cup {d \in kept : Get(d, "split") = None}
  IN /\ \A d \in declared \cup kept : ~ d.external /\ d.path \in DOMAIN files /\ files[d.path] # IllTyped
     /\ \A h \in holdouts : \A t \in declared \cup kept :
          Get(t, "split") \in TrainSplits => files[h.path] \cap files[t.path] = {}

\* An eval report that says "passed", with warnings or without, was earned by every eval asked
\* for: every metric, whatever its operator, holds of what was observed (in the sense of HoldsOf,
\* which names what counts as a yes), and the datasets are files and apart.
PassedIsEarned ==
  result.outcome = "done" /\ result.command = "eval-run"
    /\ result.status \in {"passed", "passed_with_integrity_warnings"} =>
    LET evals == Range(NamedMapping(LoadNyx(result.file, Sources), "evals"))
    IN \A e \in evals : result.evals = {} \/ e.name \in result.evals =>
         MetricsHold(e, ResultsForEval(result.results, e.name)) /\ DatasetsApart(e, Repository)

\* A run planned without policy blocks names no tool, connector or model that no capability
\* declares: docs/05_SECURITY_MODEL.md:34, "tool, connector, and model steps default to denied
\* unless a matching capabilities declaration exists".
UndeclaredUseIsBlocked ==
  result.outcome = "done" /\ result.command = "harness-run" /\ result.status = "planned" =>
    LET doc == LoadNyx(result.file, Sources)
    IN \A s \in Range(Flow(SelectHarness(doc, result.harness))) :
         \A kind \in DOMAIN s.names \cap {"tool", "connector", "model"} :
           Declared(doc, kind, s.names[kind], s.action)
===============================================================================
