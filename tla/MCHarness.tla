------------------------------- MODULE MCHarness -------------------------------
(***************************************************************************)
(* HarnessRuntime on families of documents: every graph of up to four      *)
(* nodes; flows against capabilities, guardrails, manifests and gates;     *)
(* evals against datasets and results; and broken documents.               *)
(***************************************************************************)
EXTENDS HarnessRuntime

MCFolded(s) ==
  CASE s = "GH" -> "gh" [] s = "Secrets" -> "secrets" [] OTHER -> s

MCCoreKinds == {"module", "agent", "goal", "approval", "evidence", "budget", "contract", "policy"}
MCCoreRelations ==
  [depends_on |-> [from |-> {"*"}, to |-> {"*"}],
   governed_by |-> [from |-> {"agent", "module"}, to |-> {"policy"}]]
MCKnownBlocks ==
  {"nornyx", "project", "contexts", "skills", "policies", "agents", "harnesses", "evals", "evidence",
   "approvals", "budgets", "goals", "experimental", "graph", "contracts", "adapters", "connectors",
   "guardrails", "capabilities", "governed_package"}
MCProfiles ==
  [net |-> [kinds |-> {"zone"}, pairs |-> {[from |-> "zone", relation |-> "trusts", to |-> "zone"]}], torn |-> IllTyped]
MCTextBefore(a, b) == <<a, b>> \in {<<"failed", "fine">>, <<"", "fine">>, <<"6", "fine">>, <<"many", "tiny">>}
MCNonGoals == {"live connector execution", "network calls"}

MCRepository ==
  [train |-> {1, 2}, hold |-> {3}, leak |-> {2, 3}, dir |-> IllTyped]

Base == [nornyx |-> "0.2", project |-> [name |-> "p"]]

(***************************************************************************)
(* Graphs.                                                                 *)
(***************************************************************************)
PairList == SelectSeq([k \in 1..16 |-> <<1 + ((k - 1) \div 4), 1 + ((k - 1) % 4)>>], LAMBDA p : p[1] # p[2])
Pairs == Range(PairList)
GraphDoc(E) ==
  Base @@ [graph |->
    [nodes |-> [i \in 1..4 |-> [id |-> i, kind |-> "module", ref |-> "m"]],
     edges |-> LET chosen == SelectSeq(PairList, LAMBDA p : p \in E)
               IN [i \in DOMAIN chosen |-> [from |-> chosen[i][1], to |-> chosen[i][2], relation |-> "depends_on"]]]]

(***************************************************************************)
(* Flows.                                                                  *)
(***************************************************************************)
Step(names, action, words) == [names |-> names, action |-> action, words |-> words]
Steps ==
  [agent |-> Step([agent |-> "builder"], "edit", {}),
   deploy |-> Step([agent |-> "builder"], "deploy", {"production"}),
   tool |-> Step([tool |-> "tests"], "run", {}),
   connector |-> Step([connector |-> "gh"], None, {}),
   model |-> Step([model |-> "llm"], "call", {}),
   both |-> Step([agent |-> "helper", connector |-> "gh"], None, {}),
   eval |-> Step([eval |-> "e1"], "run", {}),
   gone |-> Step([eval |-> "e9"], "run", {}),
   unsaid |-> Step([agent |-> "helper", eval |-> "e9"], "run", {}),
   nobody |-> Step([agent |-> "ghost"], "edit", {}),
   empty |-> Step(<< >>, None, {}),
   dated |-> Step([tool |-> "tests"], NotJson, {}),
   sorted |-> Step([tool |-> "tests"], MixedKeys, {}),
   linked |-> Step([agent |-> "builder", connector |-> "gh"], NotJson, {}),
   text |-> IllTyped]

Flows ==
  {<<k>> : k \in DOMAIN Steps \ {"gone", "unsaid", "nobody", "sorted", "linked"}}
    \cup {<<"tool", "connector">>, <<"agent", "model">>, <<"connector", "eval">>}

Cap(name, kind, allow, approval) == [name |-> name, kind |-> kind, allow |-> allow, approval_required |-> approval]
CapabilityLists ==
  [none |-> << >>,
   tests |-> <<Cap("tests", "tool", {"run"}, FALSE)>>,
   wrongKind |-> <<Cap("gh", "tool", {}, TRUE), Cap("tests", "widget", {"run"}, TRUE)>>,
   wrongAction |-> <<Cap("gh", "connector", {"read"}, TRUE), Cap("llm", "model", {"read"}, TRUE)>>,
   narrowed |-> <<Cap("gh", "connector", {"use"}, TRUE), Cap("gh", "connector", {"read"}, TRUE)>>,
   all |-> <<Cap("gh", "connector", {}, TRUE), Cap("llm", "model", {"call"}, FALSE), Cap("tests", "tool", {"*"}, TRUE)>>]

Guards == [none |-> << >>, safe |-> <<[validate |-> {"no_secrets"}]>>, tone |-> <<[validate |-> {"tone"}]>>]

Manifest(name, protocol) == [name |-> name, protocol |-> protocol, capabilities |-> {"read"}]
Live == [endpoint |-> "x"]
Adapter ==
  [name |-> "ad", execution_mode |-> "contract_only", connectors |-> {"gh"}, policies |-> {"strict"}, evals |-> {"e1"},
   evidence |-> {"ev"}, non_goals |-> MCNonGoals,
   connector_conformance |-> [protocols |-> {"mcp"}, default_mode |-> "disabled", approval_required |-> TRUE]]

Adapted(adapters) == [connectors |-> <<Manifest("gh", "mcp")>>, adapters |-> adapters, evidence |-> [required |-> {"ev"}]]
Manifests ==
  [none |-> << >>,
   good |-> [connectors |-> <<Manifest("gh", "mcp")>>],
   live |-> [connectors |-> <<Manifest("gh", "mcp") @@ Live>>],
   mode |-> [connectors |-> <<Manifest("gh", "mcp") @@ [security |-> [default_mode |-> "write"]]>>],
   odd |-> [connectors |-> <<Manifest("gh", "soap")>>],
   plugin |-> [experimental |-> [plugins |-> <<[name |-> "p", provides |-> {"c"}, connectors |-> <<Manifest("gh", "mcp")>>]>>]],
   twice |-> [connectors |-> <<Manifest("gh", "mcp"), Manifest("GH", "mcp")>>],
   upper |-> [connectors |-> <<Manifest("GH", "mcp")>>],
   share |-> [connectors |-> <<Manifest("gh", "a2a") @@ [share |-> {"Secrets"}]>>],
   text |-> [connectors |-> IllTyped],
   adapted |-> Adapted(<<Adapter>>),
   acting |-> Adapted(<<[Adapter EXCEPT !.execution_mode = "live"]>>),
   unapproved |-> Adapted(<<[Adapter EXCEPT !.connector_conformance = IllTyped], [name |-> "ad"]>>),
   stable |-> [connectors |-> <<Manifest("gh", "a2a")>>, plugins |-> <<[name |-> "q", status |-> "stable"]>>]]

Sandboxes ==
  [none |-> << >>, open |-> [bounded_execution |-> [sandbox |-> [network |-> "enabled"]]],
   lax |-> [bounded_execution |-> [sandbox |-> [trace_required |-> FALSE, shell |-> "allowlisted"]]]]

Gates == [none |-> {}, tests |-> {"tests"}, approval |-> {"approval", "tests"}]

Team ==
  Base @@
  [agents |-> <<[name |-> "builder", policy |-> "strict"], [name |-> "helper"]>>,
   policies |-> <<[name |-> "strict", deny |-> {{"production"}, {"connector"}}, rules |-> {[form |-> "require", rule |-> {}]}]>>,
   evals |-> <<[name |-> "e1"]>>]

Repair(attempts, copied) == [max_attempts |-> attempts, copied |-> copied]
Repaired(flow, gates, repairs) ==
  Team @@ [harnesses |-> <<[name |-> "h", flow |-> [i \in DOMAIN flow |-> Steps[flow[i]]], gate |-> gates,
                            repair |-> repairs]>>]
FlowDoc(flow, gates) == Repaired(flow, gates, {Repair(9, {}), IllTyped})

ReadyDoc(flow, caps, guard, manifest, sandbox, gates) ==
  FlowDoc(flow, Gates[gates]) @@ [capabilities |-> CapabilityLists[caps], guardrails |-> Guards[guard]]
    @@ Manifests[manifest] @@ Sandboxes[sandbox]

ReadyDocs ==
  {ReadyDoc(f, c, g, m, "none", "approval") : f \in Flows, c \in DOMAIN CapabilityLists,
                                              g \in DOMAIN Guards, m \in DOMAIN Manifests}
  \cup {ReadyDoc(<<"tool">>, "tests", "none", "none", s, a) : s \in DOMAIN Sandboxes, a \in DOMAIN Gates}

(***************************************************************************)
(* Evals.                                                                  *)
(***************************************************************************)
Metric(name, op, threshold) == [name |-> name, op |-> op, threshold |-> threshold]
MetricSets ==
  [none |-> {}, above |-> {Metric("acc", ">", Number(5))}, clean |-> {Metric("clean", "==", Truth(TRUE))},
   both |-> {Metric("acc", ">=", Number(5)), Metric("clean", "==", Truth(TRUE))}, bad |-> {IllTyped},
   below |-> {Metric("acc", "<", Number(6)), Metric("clean", "!=", Truth(FALSE))},
   most |-> {Metric("acc", "<=", Number(5)), Metric("clean", ">=", Truth(TRUE))},
   other |-> {Metric("acc", "!=", Number(6))}, same |-> {Metric("acc", "==", Number(6))},
   text |-> {Metric("clean", "<=", Text("fine", None)), Metric("acc", "!=", Text("many", None))}]
Data(path, split) == [path |-> path, external |-> FALSE, split |-> split, saysHoldout |-> FALSE]
DataSets ==
  [none |-> {}, fine |-> {Data("train", "train"), Data("hold", "holdout")},
   leak |-> {Data("train", "training"), Data("leak", "holdout")},
   named |-> {Data("train", "train"), [path |-> "leak", external |-> FALSE, saysHoldout |-> TRUE]},
   lost |-> {Data("gone", "holdout")}, dir |-> {Data("dir", "dataset")},
   far |-> {[path |-> "far", external |-> TRUE, saysHoldout |-> TRUE]}]
Declared3 == [contamination_checks |-> "x", adversarial_rotation |-> "x", baseline |-> "x"]
Kept == {[path |-> p, external |-> FALSE] : p \in {"hold", "leak"}}
Integrities == [none |-> << >>, fields |-> Declared3, kept |-> [integrity |-> Declared3 @@ [holdout |-> Kept]]]
EvalDoc(m, d, i) ==
  Base @@ [evals |-> <<[name |-> "e1", metrics |-> MetricSets[m], datasets |-> DataSets[d]] @@ Integrities[i],
                       [name |-> "e2", metrics |-> MetricSets.clean]>>]
MetricDocs == {EvalDoc(m, "fine", i) : m \in DOMAIN MetricSets, i \in {"none", "fields"}}
DataDocs == {EvalDoc(m, d, i) : m \in {"none", "both"}, d \in DOMAIN DataSets, i \in DOMAIN Integrities}

Texts == {Text("6", Number(6)), Text("true", Truth(TRUE)), Text("many", None)}
Observations ==
  {<< >>} \cup {[acc |-> x, clean |-> y] :
                  x \in Texts \cup {Number(5), Number(6), Truth(TRUE), Other(TRUE)},
                  y \in {Truth(TRUE), Truth(FALSE), Number(0), Text("false", Truth(FALSE)), Text("failed", None),
                         Text("", None), Other(TRUE), Other(FALSE)}}
Passing == {[acc |-> x, clean |-> Truth(TRUE)] : x \in {Number(6), Text("6", Number(6))}}
Results(observations) ==
  {NoResults} \cup {[named |-> << >>, evals |-> << >>, metrics |-> o] : o \in observations}
    \cup {[named |-> [e1 |-> o], evals |-> [e2 |-> o], metrics |-> << >>] : o \in observations}

(***************************************************************************)
(* Documents that run, or that are broken in one place.                    *)
(***************************************************************************)
RunDocs ==
  [good |-> FlowDoc(<<"tool", "eval">>, {"approval"}),
   blocked |-> FlowDoc(<<"deploy">>, {}),
   missing |-> FlowDoc(<<"gone">>, {"approval"}),
   cyclic |-> FlowDoc(<<"agent">>, {}) @@ GraphDoc({<<1, 2>>, <<2, 1>>})]

BrokenDocs ==
  [unsaid |-> FlowDoc(<<"unsaid">>, {}),
   nobody |-> FlowDoc(<<"nobody">>, {}),
   text |-> FlowDoc(<<"text">>, {}),
   noHarness |-> Team,
   nameless |-> Team @@ [harnesses |-> <<[flow |-> <<Steps.agent>>]>>],
   second |-> Team @@ [harnesses |-> <<[name |-> "a", flow |-> <<Steps.agent>>], [name |-> "h", flow |-> <<Steps.gone>>]>>],
   namesake |-> Team @@ [harnesses |-> <<[name |-> "h", flow |-> <<Steps.eval>>], [name |-> "h", flow |-> <<Steps.gone>>]>>],
   harnessText |-> Team @@ [harnesses |-> <<IllTyped, [name |-> "h", flow |-> <<Steps.agent>>]>>],
   noEvals |-> [b \in DOMAIN FlowDoc(<<"eval">>, {}) \ {"evals"} |-> FlowDoc(<<"eval">>, {})[b]],
   evalText |-> [FlowDoc(<<"eval">>, {}) EXCEPT !.evals = <<IllTyped, [name |-> "e1"]>>],
   evalsText |-> [FlowDoc(<<"eval">>, {}) EXCEPT !.evals = IllTyped],
   noProject |-> [nornyx |-> "0.3", harnesses |-> << >>],
   projectText |-> [Team EXCEPT !.project = IllTyped],
   noSkill |-> [Team EXCEPT !.agents = <<[name |-> "builder", skills |-> {"fly"}, policy |-> "soft"]>>],
   noContext |-> Team @@ [harnesses |-> <<[name |-> "h", context |-> "c"]>>],
   wide |-> Team @@ [contexts |-> <<[name |-> "c", authority |-> <<{"train"}, {"hold", "leak"}>>,
                                     exclude |-> {{"leak"}}, taint |-> [repo |-> "seen"]]>>],
   infinite |-> Repaired(<<"tool">>, {}, {Repair(Infinite, {})}),
   dated |-> FlowDoc(<<"dated">>, {}),
   sorted |-> FlowDoc(<<"sorted">>, {}),
   linked |-> FlowDoc(<<"linked">>, {}),
   datedRepair |-> Repaired(<<"tool">>, {}, {Repair(0, {NotJson})}),
   datedTaint |-> Team @@ [contexts |-> <<[name |-> "c", taint |-> [repo |-> NotJson]]>>,
                           harnesses |-> <<[name |-> "h", flow |-> <<Steps.agent>>]>>],
   elsewhere |-> Team @@ [harnesses |-> <<[name |-> "h", flow |-> <<Steps.agent>>], [name |-> "i", flow |-> <<Steps.linked>>]>>],
   package |-> Team @@ [governed_package |-> {Err("MISSING_PACKAGE_NAME")}],
   packageText |-> Team @@ [governed_package |-> IllTyped],
   torn |-> [Base EXCEPT !.project = [name |-> "p", profile |-> "torn"]] @@ [graph |-> [nodes |-> << >>, edges |-> << >>]],
   policyRef |-> [Team EXCEPT !.policies = <<[name |-> "strict", ref |-> [file |-> "rules", policy |-> "strict"]]>>],
   policyBad |-> [Team EXCEPT !.policies = <<[name |-> "strict", ref |-> [file |-> "rules", policy |-> "soft"]]>>],
   goal |-> Team @@ [goals |-> <<[id |-> "g", phase |-> "1", goal |-> "x", evidence |-> "e", approval |-> "a",
                                  scope |-> {"s"}, non_goals |-> {"n"}, validation |-> {"v"}, stop_rules |-> {}]>>],
   goalText |-> Team @@ [goals |-> <<IllTyped, [id |-> "g"]>>],
   evidence |-> Team @@ [evidence |-> [required |-> IllTyped], surprise |-> << >>],
   contract |-> Team @@ GraphDoc({<<1, 2>>}) @@
       [contracts |-> <<[name |-> "c", nodes |-> {1, 9}, approval |-> "boss"], IllTyped>>,
        approvals |-> <<[name |-> "boss"]>>],
   graph |-> [Base EXCEPT !.project = [name |-> "p", profile |-> "net"]] @@
       [graph |-> [nodes |-> <<[id |-> 1, kind |-> "zone"], [id |-> 1, kind |-> "agent", ref |-> "who"], [kind |-> "x"], IllTyped>>,
                   edges |-> <<[from |-> 1, to |-> 1, relation |-> "trusts"], [from |-> 1, to |-> 2, relation |-> "governed_by"],
                               [from |-> 1, to |-> 1, relation |-> "trusts"], [to |-> 1], IllTyped>>]],
   graphText |-> Base @@ [graph |-> IllTyped, contracts |-> IllTyped]]

MCSources ==
  [f \in {"rules"} |-> [policies |-> <<[name |-> "strict", rules |-> {[form |-> "deny", rule |-> {"secret"}]}]>>]]

Request(command, file, harness, evals, results) ==
  [command |-> command, file |-> file, harness |-> harness, evals |-> evals, results |-> results]
Plain(command, file) == Request(command, file, None, {}, NoResults)

MCLaterRequests == {Plain("harness-run", RunDocs[k]) : k \in DOMAIN RunDocs} \cup {Plain("harness-run", None)}
MCFirstRequests ==
  {Plain("connector-plan", GraphDoc(E)) : E \in SUBSET Pairs}
  \cup {Plain("readiness", doc) : doc \in ReadyDocs}
  \cup {Request("eval-run", doc, None, n, r) : doc \in MetricDocs, n \in {{}, {"e1"}}, r \in Results(Observations)}
  \cup {Request("eval-run", doc, None, n, r) : doc \in DataDocs, n \in {{}, {"e1"}}, r \in Results(Passing)}
  \cup {Request(c, BrokenDocs[k], h, {}, NoResults) :
          c \in {"harness-run", "policy-check", "readiness", "context-build", "connector-plan"},
          k \in DOMAIN BrokenDocs, h \in {None, "h"}}
  \cup {Request("eval-run", BrokenDocs[k], None, {"e9"}, NoResults) : k \in DOMAIN BrokenDocs}

\* The documents that show a step naming an agent and a connector.
MCBothRequests ==
  {Plain("harness-run", ReadyDoc(<<"both">>, c, "safe", "good", "none", "approval")) : c \in {"none", "all"}}
===============================================================================
