---------------------------- MODULE DocumentCheck ----------------------------
(***************************************************************************)
(* checker.py: the diagnostics of a document, as [level, code] without     *)
(* their places and texts.  GRAPH_CYCLE is left to DependencyCycles.       *)
(***************************************************************************)
EXTENDS PolicyRuntime

CONSTANTS
  CoreKinds,        \* CORE_GRAPH_NODE_KINDS
  CoreRelations,    \* GRAPH_RELATION_RULES: relation -> [from, to], sets of kinds, "*" for any
  KnownBlocks,      \* CORE_TOP_LEVEL_BLOCKS and EXTENSION_TOP_LEVEL_BLOCKS
  Profiles          \* the built-in profiles: name -> [kinds, pairs], pairs of [from, relation, to],
                    \* IllTyped if the registry cannot give it

NamedListBlocks == {"intents", "contexts", "skills", "policies", "agents", "harnesses",
                    "traces", "evals", "approvals", "budgets"}
RefBlocks == [intent |-> "intents", context |-> "contexts", skill |-> "skills",
              policy |-> "policies", agent |-> "agents", harness |-> "harnesses",
              trace |-> "traces", eval |-> "evals", approval |-> "approvals",
              budget |-> "budgets", adapter |-> "adapters", connector |-> "connectors",
              contract |-> "contracts"]
AdvisoryKinds == {"profile", "project", "contract"}

Err(code) == [level |-> "error", code |-> code]
Warn(code) == [level |-> "warning", code |-> code]
When(condition, diagnostic) == IF condition THEN {diagnostic} ELSE {}
HasErrors(diagnostics) == \E d \in diagnostics : d.level = "error"

Project(doc) == IF "project" \in DOMAIN doc /\ doc["project"] # IllTyped THEN doc["project"] ELSE << >>

\* Required blocks, the version, the project, the types of blocks, unknown blocks.
TopLevel(doc) ==
  UNION {
    When(~ {"nornyx", "project"} \subseteq DOMAIN doc, Err("MISSING_TOP_LEVEL_BLOCK")),
    When(Get(doc, "nornyx") \notin {"0.1", "0.2"}, Warn("UNKNOWN_VERSION")),
    When(Get(doc, "project") = IllTyped, Err("INVALID_PROJECT")),
    When(Get(doc, "project") \notin {None, IllTyped} /\ Get(Project(doc), "name") = None,
         Err("MISSING_PROJECT_NAME")),
    When(\E b \in NamedListBlocks \cup {"goals"} : Get(doc, b) = IllTyped, Err("INVALID_BLOCK_TYPE")),
    When(\E b \in {"constitution", "evidence"} : Get(doc, b) = IllTyped, Err("INVALID_MAPPING_BLOCK")),
    When(~ DOMAIN doc \subseteq KnownBlocks, Warn("UNKNOWN_TOP_LEVEL_BLOCK")) }

NamedEntries(doc) ==
  UNION {
    When(\E b \in NamedListBlocks : IllTyped \in Range(Entries(doc, b)), Err("INVALID_BLOCK_ENTRY")),
    When(\E b \in NamedListBlocks : \E e \in MappingSet(doc, b) : Get(e, "name") = None,
         Err("MISSING_NAME")) }

\* A deny rule whose name the matcher does not know is evaluated by nothing.
PolicyRuleVocabulary(doc) ==
  When(\E p \in MappingSet(doc, "policies") : {} \in DenyRules(p), Warn("UNKNOWN_POLICY_RULE"))

AgentReferences(doc) ==
  LET agents == {a \in MappingSet(doc, "agents") : Get(a, "name") # None}
  IN UNION {
       When(\E a \in agents : ~ GetSet(a, "skills") \subseteq Names(doc, "skills"),
            Err("UNKNOWN_SKILL_REFERENCE")),
       When(\E a \in agents : Get(a, "policy") \notin Names(doc, "policies") \cup {None},
            Err("UNKNOWN_POLICY_REFERENCE")) }

\* Mutant of HarnessReferences: only agents of flow steps are looked up.
HarnessReferencesAgentsOnly(doc) ==
  LET harnesses == MappingSet(doc, "harnesses")
      steps == UNION {Range(Flow(h)) : h \in harnesses}
      mapped == steps \ {IllTyped}
  IN UNION {
       When(\E h \in harnesses : Flow(h) = << >>, Warn("HARNESS_WITHOUT_FLOW")),
       When(IllTyped \in steps, Err("INVALID_FLOW_STEP")),
       When(\E s \in mapped : "agent" \in DOMAIN s.names /\ s.names["agent"] \notin Names(doc, "agents"),
            Err("UNKNOWN_AGENT_REFERENCE")) }

\* Every agent and eval a flow step mentions is declared, whatever kind the step counts as.
HarnessReferences(doc) ==
  LET harnesses == MappingSet(doc, "harnesses")
      steps == UNION {Range(Flow(h)) : h \in harnesses}
      mapped == steps \ {IllTyped}
  IN UNION {
       When(\E h \in harnesses : Get(h, "context") \notin Names(doc, "contexts") \cup {None},
            Err("UNKNOWN_CONTEXT_REFERENCE")),
       When(\E h \in harnesses : Flow(h) = << >>, Warn("HARNESS_WITHOUT_FLOW")),
       When(IllTyped \in steps, Err("INVALID_FLOW_STEP")),
       When(\E s \in mapped : "agent" \in DOMAIN s.names /\ s.names["agent"] \notin Names(doc, "agents"),
            Err("UNKNOWN_AGENT_REFERENCE")),
       When(\E s \in mapped : "eval" \in DOMAIN s.names /\ s.names["eval"] \notin Names(doc, "evals"),
            Err("UNKNOWN_EVAL_REFERENCE")) }

ContextsAndEvidence(doc) ==
  UNION {
    When(\E c \in MappingSet(doc, "contexts") : GetSet(c, "include") = {}, Warn("CONTEXT_WITHOUT_INCLUDE")),
    When("evidence" \in DOMAIN doc /\ doc["evidence"] # IllTyped
           /\ Get(doc["evidence"], "required") = IllTyped, Err("INVALID_EVIDENCE_REQUIRED")) }

\* A goal states phase, outcome, evidence and approval, and four lists that are not empty.
GoalProblems(doc) ==
  LET goals == MappingSet(doc, "goals")
      lists == {"scope", "non_goals", "validation", "stop_rules"}
  IN UNION {
       When(IllTyped \in Range(Entries(doc, "goals")), Err("INVALID_GOAL")),
       When(\E g \in goals : \E f \in {"id", "phase", "goal", "evidence", "approval"} : Get(g, f) = None,
            Err("MISSING_GOAL_FIELD")),
       When(\E g \in goals : \E f \in lists : Get(g, f) = None, Err("MISSING_GOAL_LIST")),
       When(\E g \in goals : \E f \in lists : Get(g, f) \in {IllTyped, {}}, Err("INVALID_GOAL_LIST")),
       When(\E g \in goals : Get(g, "validation") \in {None, IllTyped, {}}, Warn("GOAL_WITHOUT_VALIDATION")) }

(***************************************************************************)
(* The contract graph.                                                     *)
(***************************************************************************)
EvidenceTargets(doc) ==
  (IF "evidence" \in DOMAIN doc /\ doc["evidence"] # IllTyped /\ Get(doc["evidence"], "required") # IllTyped
   THEN GetSet(doc["evidence"], "required") ELSE {})
  \cup {s.names["evidence"] :
          s \in {x \in UNION {Range(Flow(h)) : h \in MappingSet(doc, "harnesses")} :
                   x # IllTyped /\ "evidence" \in DOMAIN x.names}}

RefKinds == DOMAIN RefBlocks \cup {"goal", "evidence", "profile", "project"}

RefTargets(doc, kind) ==
  CASE kind \in DOMAIN RefBlocks -> Names(doc, RefBlocks[kind])
    [] kind = "goal" -> {Get(g, "id") : g \in MappingSet(doc, "goals")} \ {None}
    [] kind = "evidence" -> EvidenceTargets(doc)
    [] kind = "project" -> {Get(Project(doc), "name")} \ {None}
    [] kind = "profile" -> {Get(Project(doc), "profile"), Get(Project(doc), "profile_pack")} \ {None}

\* graph_vocabulary_for_document: a built-in profile widens the core vocabulary by the
\* kinds and the exact pairs it declares; an unknown one leaves it as it is.
Vocabulary(doc) ==
  LET name == Get(Project(doc), "profile")
      known == name \in DOMAIN Profiles /\ Profiles[name] # IllTyped
      pairs == IF known THEN Profiles[name].pairs ELSE {}
  IN [resolution |-> IF name = None THEN "core" ELSE IF known THEN "profile"
                     ELSE IF name \in DOMAIN Profiles THEN "unavailable" ELSE "unresolved",
      kinds |-> CoreKinds \cup (IF known THEN Profiles[name].kinds ELSE {})
                  \cup UNION {{p.from, p.to} : p \in pairs},
      relations |-> DOMAIN CoreRelations \cup {p.relation : p \in pairs},
      pairs |-> pairs]

\* GraphRelationRule.allows: the core rule admits the kinds, or the profile the very pair.
Allows(vocabulary, relation, source, target) ==
  \/ /\ relation \in DOMAIN CoreRelations
     /\ {"*", source} \cap CoreRelations[relation].from # {}
     /\ {"*", target} \cap CoreRelations[relation].to # {}
  \/ [from |-> source, relation |-> relation, to |-> target] \in vocabulary.pairs

GraphPart(doc, part) ==
  IF "graph" \in DOMAIN doc /\ doc["graph"] # IllTyped THEN Entries(doc["graph"], part) ELSE << >>

GraphNodes(doc) == SelectSeq(GraphPart(doc, "nodes"), LAMBDA n : n # IllTyped)
GraphEdges(doc) == SelectSeq(GraphPart(doc, "edges"), LAMBDA e : e # IllTyped)
NodeIds(doc) == {Get(n, "id") : n \in Range(GraphNodes(doc))} \ {None}

\* The last declaration of a node with that field gives its kind and its ref.
NodeField(doc, id, field) ==
  LET at == SelectLastInSeq(GraphNodes(doc), LAMBDA n : Get(n, "id") = id /\ Get(n, field) # None)
  IN IF at = 0 THEN None ELSE GraphNodes(doc)[at][field]

NodeProblems(doc, vocabulary) ==
  LET nodes == Range(GraphNodes(doc))
      ids == [i \in DOMAIN GraphNodes(doc) |-> Get(GraphNodes(doc)[i], "id")]
      kinded == {n \in nodes : Get(n, "kind") # None}
  IN UNION {
       When(IllTyped \in Range(GraphPart(doc, "nodes")), Err("INVALID_GRAPH_NODE")),
       When(None \in Range(ids), Err("MISSING_GRAPH_NODE_ID")),
       When(\E i, j \in DOMAIN ids : i < j /\ ids[i] = ids[j] /\ ids[i] # None, Err("DUPLICATE_GRAPH_NODE_ID")),
       When(nodes # kinded, Err("MISSING_GRAPH_NODE_KIND")),
       When(\E n \in kinded : n.kind \notin vocabulary.kinds, Warn("UNKNOWN_GRAPH_NODE_KIND")),
       When(\E n \in kinded : n.kind \in vocabulary.kinds \ RefKinds /\ Get(n, "ref") = None,
            Warn("GRAPH_NODE_WITHOUT_REF")),
       When(\E n \in kinded : n.kind = "evidence" /\ Get(n, "ref") = None, Warn("GRAPH_EVIDENCE_NODE_WITHOUT_REF")),
       When(\E n \in kinded : n.kind \in RefKinds \cap AdvisoryKinds
              /\ Get(n, "ref") \notin RefTargets(doc, n.kind) \cup {None}, Warn("UNRESOLVED_GRAPH_NODE_REF")),
       When(\E n \in kinded : n.kind \in RefKinds \ AdvisoryKinds
              /\ Get(n, "ref") \notin RefTargets(doc, n.kind) \cup {None}, Err("UNKNOWN_GRAPH_REF_REFERENCE")) }

EdgeProblems(doc, vocabulary) ==
  LET edges == GraphEdges(doc)
      full == {i \in DOMAIN edges : \A f \in {"from", "to", "relation"} : Get(edges[i], f) # None}
      kindOf(id) == NodeField(doc, id, "kind")
      judged == {edges[i] : i \in {k \in full : {kindOf(edges[k].from), kindOf(edges[k].to)} \subseteq vocabulary.kinds}}
      odd == {e \in judged : e.relation \in vocabulary.relations
                               /\ ~ Allows(vocabulary, e.relation, kindOf(e.from), kindOf(e.to))}
  IN UNION {
       When(IllTyped \in Range(GraphPart(doc, "edges")), Err("INVALID_GRAPH_EDGE")),
       When(\E i, j \in full : i < j /\ edges[i] = edges[j], Warn("DUPLICATE_GRAPH_EDGE")),
       When(\E e \in Range(edges) : Get(e, "from") = Get(e, "to") /\ Get(e, "from") # None, Warn("GRAPH_SELF_EDGE")),
       When(\E e \in Range(edges) : None \in {Get(e, "from"), Get(e, "to")}, Err("MISSING_GRAPH_EDGE_END")),
       When(\E e \in Range(edges) : ~ {Get(e, "from"), Get(e, "to")} \subseteq NodeIds(doc) \cup {None},
            Err("UNKNOWN_GRAPH_NODE_REFERENCE")),
       When(\E e \in Range(edges) : Get(e, "relation") = None, Warn("GRAPH_EDGE_WITHOUT_RELATION")),
       When(\E i \in full : {edges[i].from, edges[i].to} \subseteq {n \in NodeIds(doc) : kindOf(n) # None}
              /\ edges[i].relation \notin vocabulary.relations, Warn("UNKNOWN_GRAPH_RELATION")),
       When(\E e \in odd : e.relation \in DOMAIN CoreRelations, Err("INVALID_GRAPH_RELATION_PAIR")),
       When(\E e \in odd : e.relation \notin DOMAIN CoreRelations, Warn("UNDECLARED_GRAPH_RELATION_PAIR")) }

\* A contract names declared nodes, and shows its approval, budget and evidence as nodes.
ContractProblems(doc) ==
  LET contracts == MappingSet(doc, "contracts")
      ids == NodeIds(doc)
      listed(c, f) == IF Get(c, f) = IllTyped THEN {} ELSE GetSet(c, f)
      shown(c, kind) ==
        \E n \in ids \cap listed(c, "nodes") : NodeField(doc, n, "kind") = kind /\ NodeField(doc, n, "ref") = c[kind]
      declared(c, kind) == Get(c, kind) \in Names(doc, RefBlocks[kind])
  IN UNION {
       When(Get(doc, "contracts") = IllTyped, Err("INVALID_CONTRACTS_BLOCK")),
       When(IllTyped \in Range(Entries(doc, "contracts")), Err("INVALID_CONTRACT_ENTRY")),
       When(\E c \in contracts : Get(c, "name") = None, Err("MISSING_CONTRACT_NAME")),
       When(\E c \in contracts : IllTyped \in {Get(c, "nodes"), Get(c, "edges")}, Err("INVALID_CONTRACT_LIST")),
       When(ids # {} /\ \E c \in contracts : ~ listed(c, "nodes") \cup listed(c, "edges") \subseteq ids,
            Err("UNKNOWN_CONTRACT_GRAPH_REFERENCE")),
       When(\E c \in contracts : \E k \in {"approval", "budget"} : Get(c, k) # None /\ ~ declared(c, k),
            Err("UNKNOWN_CONTRACT_REFERENCE")),
       When(ids # {} /\ \E c \in contracts : \E k \in {"approval", "budget"} :
              Get(c, k) # None /\ declared(c, k) /\ ~ shown(c, k), Warn("CONTRACT_REFERENCE_NOT_IN_GRAPH")),
       When(ids # {} /\ \E c \in contracts :
              \A n \in listed(c, "nodes") : NodeField(doc, n, "kind") # "evidence", Warn("CONTRACT_WITHOUT_EVIDENCE_NODE")) }

GraphContractModel(doc) ==
  LET vocabulary == Vocabulary(doc)
  IN UNION {
       When(Get(doc, "graph") = IllTyped, Err("INVALID_GRAPH_BLOCK")),
       When("graph" \in DOMAIN doc /\ doc["graph"] # IllTyped /\ vocabulary.resolution = "unresolved",
            Warn("GRAPH_VOCABULARY_PROFILE_UNRESOLVED")),
       When("graph" \in DOMAIN doc /\ doc["graph"] # IllTyped /\ vocabulary.resolution = "unavailable",
            Err("GRAPH_VOCABULARY_UNAVAILABLE")),
       When("graph" \in DOMAIN doc /\ doc["graph"] # IllTyped
              /\ IllTyped \in {Get(doc["graph"], "nodes"), Get(doc["graph"], "edges")}, Err("INVALID_GRAPH_LIST")),
       NodeProblems(doc, vocabulary), EdgeProblems(doc, vocabulary), ContractProblems(doc) }

\* The edges the search for circular dependencies is given.
SearchedEdges(doc) ==
  {e \in Range(GraphEdges(doc)) : {Get(e, "from"), Get(e, "to")} \subseteq NodeIds(doc)}

\* A governed package is given by what validate_governed_package finds in it.
GovernedPackage(doc) ==
  IF "governed_package" \notin DOMAIN doc THEN {}
  ELSE IF doc["governed_package"] = IllTyped THEN {Err("INVALID_GOVERNED_PACKAGE")} ELSE doc["governed_package"]

CheckDocument(doc) ==
  UNION {TopLevel(doc), NamedEntries(doc), PolicyRuleVocabulary(doc), AgentReferences(doc),
         HarnessReferences(doc), ContextsAndEvidence(doc), GraphContractModel(doc), GovernedPackage(doc),
         GoalProblems(doc)}
===============================================================================
