---------------------------- MODULE PolicyRuntime ----------------------------
(***************************************************************************)
(* policy_runtime.py: the policy report of a harness.  A flow step is      *)
(* [names, action, words]: the kinds it mentions with the name given for   *)
(* each, its action, and the trigger words its text contains, by the deny  *)
(* rules they trigger.  A deny rule is the set of vocabulary tokens in its *)
(* name, {} if it has none.  Actions and guardrail checks are folded.      *)
(***************************************************************************)
EXTENDS NyxDocument

StepKinds == <<"agent", "tool", "connector", "model", "eval", "evidence">>
CapabilityKinds == {"tool", "connector", "model"}
ExternalCapabilityKinds == {"connector", "model"}
ExternalGuardrails == {"no_secrets", "no_pii", "schema_valid", "output_schema"}
TextTokens == {"production", "secret", "destructive", "self_modification"}

\* The first kind, in the order of StepKinds, that the step mentions.
StepKind(step) ==
  LET at == SelectInSeq(StepKinds, LAMBDA k : k \in DOMAIN step.names)
  IN IF at = 0 THEN "unknown" ELSE StepKinds[at]

StepRef(step) == IF StepKind(step) = "unknown" THEN None ELSE step.names[StepKind(step)]

Flow(harness) == LET f == Get(harness, "flow") IN IF f = None THEN << >> ELSE f

\* The actions of its steps, which every decision on a step and every report of a flow copies.
Actions(harness) == {s.action : s \in Range(Flow(harness)) \ {IllTyped}}

\* normalize_policy_rules: shorthand rules join the explicit lists; what names no list is required.
DenyRules(policy) ==
  GetSet(policy, "deny") \cup {r.rule : r \in {x \in GetSet(policy, "rules") : x.form = "deny"}}
RequireRules(policy) ==
  GetSet(policy, "require") \cup {r.rule : r \in {x \in GetSet(policy, "rules") : x.form # "deny"}}

MatchesDenyRule(rule, step) ==
  \/ rule \cap step.words \cap TextTokens # {}
  \/ "connector" \in rule /\ StepKind(step) = "connector"

\* normalize_capabilities
Capability(item) ==
  [kind |-> IF Get(item, "kind") \in CapabilityKinds THEN Get(item, "kind") ELSE "tool",
   name |-> Get(item, "name"),
   allow |-> IF GetSet(item, "allow") = {} THEN {"*"} ELSE item.allow,
   approval |-> Get(item, "approval_required") # FALSE]

Capabilities(doc) == {Capability(item) : item \in MappingSet(doc, "capabilities")}

GuardrailChecks(doc) == UNION {GetSet(g, "validate") : g \in MappingSet(doc, "guardrails")}

\* The lookup by kind and name; of two declarations the later one counts.
CapabilityFor(doc, kind, ref) ==
  LET items == Entries(doc, "capabilities")
      at == SelectLastInSeq(items, LAMBDA c : c # IllTyped /\ Capability(c).kind = kind /\ Capability(c).name = ref)
  IN IF at = 0 THEN None ELSE Capability(items[at])

ActionAllowed(action, capability) ==
  \/ "*" \in capability.allow
  \/ (IF action = None THEN "use" ELSE action) \in capability.allow

Decision(status, code) == [status |-> status, code |-> code]

AgentDecision(doc, step) ==
  LET agents == NamedMapping(doc, "agents")
      policies == NamedMapping(doc, "policies")
      agent == StepRef(step)
      policy == IF agent \in DOMAIN agents THEN Get(agents[agent], "policy") ELSE None
  IN IF /\ policy \in DOMAIN policies
        /\ \E rule \in DenyRules(policies[policy]) : MatchesDenyRule(rule, step)
     THEN Decision("blocked", "POLICY_DENY_MATCHED")
     ELSE Decision("planned", "POLICY_RECORDED")

CapabilityDecision(doc, step) ==
  LET kind == StepKind(step)
      capability == CapabilityFor(doc, kind, StepRef(step))
  IN CASE capability = None -> Decision("blocked", "CAPABILITY_NOT_DECLARED")
       [] capability # None /\ ~ ActionAllowed(step.action, capability) ->
            Decision("blocked", "CAPABILITY_ACTION_DENIED")
       [] /\ capability # None /\ ActionAllowed(step.action, capability)
          /\ kind \in ExternalCapabilityKinds /\ GuardrailChecks(doc) \cap ExternalGuardrails = {} ->
            Decision("blocked", "GUARDRAIL_REQUIRED_FOR_EXTERNAL_USE")
       [] OTHER -> IF capability.approval
                   THEN Decision("requires_human_approval", "CAPABILITY_APPROVAL_REQUIRED")
                   ELSE Decision("allowed", "CAPABILITY_ALLOWED")

StepDecision(doc, step) ==
  CASE step = IllTyped -> Decision("blocked", "INVALID_FLOW_STEP")
    [] step # IllTyped /\ StepKind(step) = "agent" -> AgentDecision(doc, step)
    [] step # IllTyped /\ StepKind(step) \in CapabilityKinds -> CapabilityDecision(doc, step)
    [] step # IllTyped /\ StepKind(step) \in {"eval", "evidence"} -> Decision("planned", "LOCAL_STEP_RECORDED")
    [] OTHER -> Decision("blocked", "UNKNOWN_FLOW_STEP")

\* select_harness of both runtimes: the first harness of that name, or the first of all;
\* None if it raises.
SelectHarness(doc, name) ==
  LET harnesses == Entries(doc, "harnesses")
      at == SelectInSeq(harnesses, LAMBDA h : h # IllTyped /\ name \in {None, Get(h, "name")})
  IN IF at = 0 THEN None ELSE harnesses[at]

\* evaluate_harness_policy, for a harness that is found: one decision per step.
PolicyDecisions(doc, harness) ==
  [i \in DOMAIN Flow(harness) |-> StepDecision(doc, Flow(harness)[i])]

PolicyBlocked(doc, harness) ==
  \E d \in Range(PolicyDecisions(doc, harness)) : d.status = "blocked"
===============================================================================
