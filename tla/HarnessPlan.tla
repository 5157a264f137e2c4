------------------------------ MODULE HarnessPlan ------------------------------
(***************************************************************************)
(* The parts of a harness run and of a bounded execution readiness report  *)
(* that are computed from the document and the names of the files of the   *)
(* repository alone: harness_runtime.py, bounded_execution.py and          *)
(* context_builder.py.  A gate is what it requires ("approval" if the      *)
(* text mentions it, "" if there is none); a repair entry is               *)
(* [max_attempts, copied]: the number asked for (0 if it reads as none)    *)
(* and the values that are copied from it, or IllTyped if it is no mapping.*)
(***************************************************************************)
EXTENDS ConnectorRuntime, Integers

CONSTANT Infinite   \* a max_attempts of .inf, of which int() makes no number

MaxRepairAttempts == 3

EvalRefs(harness) ==
  {StepRef(s) : s \in {x \in Range(Flow(harness)) : x # IllTyped /\ StepKind(x) = "eval"}}

GateStatus(requirement) ==
  IF requirement = "" THEN "blocked"
  ELSE IF requirement = "approval" THEN "requires_human_approval" ELSE "pending_evidence"

NormalizeGates(harness) == {GateStatus(g) : g \in GetSet(harness, "gate") \cup GetSet(harness, "gates")}

Clamp(n) == IF n < 0 THEN 0 ELSE IF n > MaxRepairAttempts THEN MaxRepairAttempts ELSE n

Repairs(harness) == GetSet(harness, "repair") \ {IllTyped}

\* normalize_repairs catches TypeError and ValueError of int(), but not the OverflowError of .inf.
RepairsRaise(harness) == \E r \in Repairs(harness) : r.max_attempts = Infinite

NormalizeRepairs(harness) ==
  {Clamp(r.max_attempts) : r \in Repairs(harness)} \cup {0 : r \in GetSet(harness, "repair") \cap {IllTyped}}

\* The approvals a run records as pending.
ApprovalLog(harness) == NormalizeGates(harness) \cap {"requires_human_approval"}

RunStatus(doc, harness) ==
  IF PolicyBlocked(doc, harness) THEN "planned_with_policy_blocks" ELSE "planned"

(***************************************************************************)
(* bounded_execution.py                                                    *)
(***************************************************************************)
SafeSandboxValues ==
  [filesystem |-> {"read_only", "workspace_only", "disabled"}, network |-> {"disabled"},
   credentials |-> {"disabled"}, production |-> {"disabled"}, shell |-> {"disabled", "allowlisted"}]
SandboxDefaults ==
  [filesystem |-> "workspace_only", network |-> "disabled", credentials |-> "disabled",
   production |-> "disabled", shell |-> "disabled",
   approval_required |-> TRUE, trace_required |-> TRUE, evidence_required |-> TRUE]

\* The config is a top-level block or, if there is none, an experimental one.
BoundedExecutionConfig(doc) ==
  IF Get(doc, "bounded_execution") \notin {None, IllTyped} THEN doc["bounded_execution"]
  ELSE IF Get(Experimental(doc), "bounded_execution") \notin {None, IllTyped}
       THEN Experimental(doc)["bounded_execution"] ELSE << >>

SandboxContract(doc) ==
  LET config == BoundedExecutionConfig(doc)
      sandbox == IF Get(config, "sandbox") \in {None, IllTyped} THEN << >> ELSE config.sandbox
  IN [f \in DOMAIN SandboxDefaults |-> Either(sandbox, f, None, SandboxDefaults[f])]

SandboxDecisions(contract) ==
  (UNION {ReadyIf(contract[f] \in SafeSandboxValues[f], "SANDBOX_SAFE", "SANDBOX_UNSAFE") : f \in DOMAIN SafeSandboxValues})
  \cup UNION {ReadyIf(contract[f], "SANDBOX_REQUIRED", "SANDBOX_MISSING")
                : f \in {"approval_required", "trace_required", "evidence_required"}}

CapabilityDecisions(doc) ==
  IF Capabilities(doc) = {} THEN Ready("CAPABILITY_DEFAULT_DENY")
  ELSE UNION {IF c.approval THEN NeedsHuman("CAPABILITY_APPROVAL_REQUIRED")
              ELSE Warning("CAPABILITY_APPROVAL_NOT_REQUIRED") : c \in Capabilities(doc)}

ReadinessDecisions(doc, harness) ==
  LET active == {s \in Range(Flow(harness)) \ {IllTyped} : StepKind(s) \in CapabilityKinds}
      conformance == BuildAdapterConformanceReport(doc).decisions
  IN UNION {
       SandboxDecisions(SandboxContract(doc)), CapabilityDecisions(doc),
       IF "requires_human_approval" \in NormalizeGates(harness) THEN NeedsHuman("APPROVAL_BEFORE_ACTION_REQUIRED")
       ELSE Block("APPROVAL_BEFORE_ACTION_GATE_MISSING"),
       IF active # {} THEN NeedsHuman("ACTIVE_CAPABILITY_STEPS_REQUIRE_APPROVAL") ELSE Ready("NO_ACTIVE_CAPABILITY_STEPS"),
       ReadyIf(\A n \in NormalizeRepairs(harness) : n <= MaxRepairAttempts,
               "REPAIR_ATTEMPTS_BOUNDED", "REPAIR_ATTEMPTS_UNBOUNDED"),
       ReadyIf(~ PolicyBlocked(doc, harness), "POLICY_BLOCKS_ABSENT", "POLICY_BLOCKS_PRESENT"),
       ReadyIf("blocked" \notin Statuses(conformance),
               "ADAPTER_CONFORMANCE_BLOCKS_ABSENT", "ADAPTER_CONFORMANCE_BLOCKS_PRESENT") }

ReadinessStatus(doc, harness) ==
  Verdict(ReadinessDecisions(doc, harness), "ready", "ready_with_warnings")

(***************************************************************************)
(* The context pack: what it says of the files of the repository.  A       *)
(* pattern is the set of paths it matches, and an authority list is a      *)
(* sequence of patterns, the highest authority first.                      *)
(***************************************************************************)
MatchesAny(path, patterns) == \E p \in patterns : path \in p

\* _first_matching_pattern: 0 if no pattern matches.
AuthorityRank(path, authority) == SelectInSeq(authority, LAMBDA p : path \in p)

Authority(context) == IF Get(context, "authority") \in {None, IllTyped} THEN << >> ELSE context.authority

\* A context without include patterns takes every file; an exclusion always wins.
Includes(context, path) ==
  /\ GetSet(context, "include") = {} \/ MatchesAny(path, GetSet(context, "include"))
  /\ ~ MatchesAny(path, GetSet(context, "exclude"))

\* A declared taint renames the taint of its channel and nothing else.
DeclaredTaint(context) ==
  IF Get(context, "taint") \in {None, IllTyped} THEN << >> ELSE context.taint

ContextEntry(context, path) ==
  LET rank == AuthorityRank(path, Authority(context))
      channel == IF rank > 0 THEN "authoritative_repo" ELSE "repo"
      taint == DeclaredTaint(context)
  IN [context |-> Get(context, "name"), path |-> path, channel |-> channel, rank |-> rank,
      taint |-> IF Get(taint, channel) \notin {None, IllTyped, NotJson, MixedKeys} THEN taint[channel]
                ELSE IF rank > 0 THEN "authoritative_repo_file" ELSE "trusted_repo_file",
      mayDefinePolicy |-> rank > 0]

ContextEntries(doc, paths) ==
  UNION {{ContextEntry(c, path) : path \in {p \in paths : Includes(c, p)}}
           : c \in MappingSet(doc, "contexts")}

(***************************************************************************)
(* What the reports copy from the document as it stands.  Everything else  *)
(* in them is text, a number or a truth value by then.                     *)
(***************************************************************************)
Taints(doc) == UNION {Range(DeclaredTaint(c)) : c \in MappingSet(doc, "contexts")}

\* _connector_refs: the actions of the steps, of whatever harness, that name a connector.
ConnectorActions(doc) ==
  {s.action : s \in {x \in UNION {Range(Flow(h)) \ {IllTyped} : h \in MappingSet(doc, "harnesses")} :
                        "connector" \in DOMAIN x.names /\ x.names["connector"] # None}}

RepairCopies(harness) == UNION {r.copied : r \in Repairs(harness)}

\* A file that json.dumps cannot make of the document; the trace is hashed with its keys sorted.
Unwritable(file, doc, harness) ==
  \/ file = "context_pack" /\ NotJson \in Taints(doc)
  \/ file = "policy_report" /\ NotJson \in Actions(harness)
  \/ file = "connector_report" /\ NotJson \in ConnectorActions(doc)
  \/ file = "trace_bundle" /\ MixedKeys \in Actions(harness)
  \/ file = "run_manifest" /\ NotJson \in RepairCopies(harness)
===============================================================================
