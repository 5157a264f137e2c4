--------------------------- MODULE ConnectorRuntime ---------------------------
(***************************************************************************)
(* connector_runtime.py: the connector report and the adapter conformance  *)
(* report of a document.  A report is a set of decisions [status, code],   *)
(* kept by the entry they are about; counts are left out, since every      *)
(* reader only asks whether a count is zero.                               *)
(***************************************************************************)
EXTENDS PolicyRuntime, TLC

SupportedProtocols == {"mcp", "a2a"}
SafeDefaultModes == {"disabled", "read_only", "metadata_only", "contract_only"}
UnsafeDefaultModes == {"enabled", "live", "write"}
SensitiveShareTokens == {"secrets", "credentials", "tokens", "private_memory"}
PluginStatuses == {"experimental", "candidate", "stable", "deprecated"}
CONSTANT RequiredAdapterNonGoals

Ready(code) == {Decision("ready", code)}
Warning(code) == {Decision("warning", code)}
NeedsHuman(code) == {Decision("requires_human_approval", code)}
Block(code) == {Decision("blocked", code)}
ReadyIf(condition, ready, blocked) == IF condition THEN Ready(ready) ELSE Block(blocked)
BlockIf(condition, code) == IF condition THEN Block(code) ELSE {}

Statuses(decisions) == {d.status : d \in decisions}

\* Mutant of Verdict: a need for approval hides a block.
VerdictApprovalFirst(decisions, ready, warned) ==
  IF "requires_human_approval" \in Statuses(decisions) THEN "requires_human_approval"
  ELSE IF "blocked" \in Statuses(decisions) THEN "blocked"
  ELSE IF "warning" \in Statuses(decisions) THEN warned ELSE ready

\* blocked before requires_human_approval before warnings.
Verdict(decisions, ready, warned) ==
  IF "blocked" \in Statuses(decisions) THEN "blocked"
  ELSE IF "requires_human_approval" \in Statuses(decisions) THEN "requires_human_approval"
  ELSE IF "warning" \in Statuses(decisions) THEN warned ELSE ready

(***************************************************************************)
(* Normalization.                                                          *)
(***************************************************************************)
\* A block that is neither list nor mapping makes one entry named after the block.
MappingItems(doc, block) ==
  IF Get(doc, block) = IllTyped THEN <<[name |-> block]>> ELSE Mappings(doc, block)

Experimental(doc) ==
  IF Get(doc, "experimental") \in {None, IllTyped} THEN << >> ELSE doc["experimental"]

TopLevelOrExperimental(doc, block) == MappingItems(doc, block) \o MappingItems(Experimental(doc), block)

NameOr(item, prefix, i) == IF Get(item, "name") = None THEN prefix \o ToString(i) ELSE item.name

NormalizePlugins(doc) ==
  LET items == TopLevelOrExperimental(doc, "plugins") \o TopLevelOrExperimental(doc, "extensions")
  IN [i \in DOMAIN items |->
        [name |-> NameOr(items[i], "plugin_", i),
         status |-> IF Get(items[i], "status") \in PluginStatuses THEN items[i].status ELSE "experimental",
         provides |-> GetSet(items[i], "provides"),
         conformance |-> GetSet(items[i], "conformance")]]

\* The connectors plugins bring along come after those of the document.
ConnectorSources(doc) ==
  LET plugins == TopLevelOrExperimental(doc, "plugins")
  IN TopLevelOrExperimental(doc, "connectors")
       \o FlattenSeq([i \in DOMAIN plugins |-> MappingItems(plugins[i], "connectors")])

Either(item, field, other, default) ==
  IF Get(item, field) # None THEN item[field] ELSE IF other # None THEN other ELSE default

NormalizeConnector(item, i) ==
  LET security == IF Get(item, "security") \in {None, IllTyped} THEN << >> ELSE item.security
  IN [name |-> NameOr(item, "connector_", i),
      protocol |-> Get(item, "protocol"),
      mode |-> Either(item, "default_mode", Get(security, "default_mode"), "disabled"),
      approval |-> Either(item, "approval_required", Get(security, "requires_approval"), TRUE),
      share |-> GetSet(item, "share"),
      neverShare |-> IF GetSet(item, "never_share") # {} THEN item.never_share ELSE GetSet(security, "never_share"),
      capabilities |-> GetSet(item, "capabilities"),
      live |-> {Get(item, "endpoint"), Get(item, "command")} # {None}]

NormalizeConnectors(doc) ==
  LET items == ConnectorSources(doc) IN [i \in DOMAIN items |-> NormalizeConnector(items[i], i)]

\* Every step that mentions a connector, whatever kind the step counts as.
ConnectorRefs(doc) ==
  {s.names["connector"] :
     s \in {x \in UNION {Range(Flow(h)) : h \in MappingSet(doc, "harnesses")} :
              x # IllTyped /\ "connector" \in DOMAIN x.names}} \ {None}

EvidenceRequired(doc) ==
  IF Get(doc, "evidence") \in {None, IllTyped} \/ Get(doc["evidence"], "required") = IllTyped THEN {}
  ELSE GetSet(doc["evidence"], "required")

NormalizeAdapters(doc) ==
  LET items == TopLevelOrExperimental(doc, "adapters")
      conformance(item) ==
        IF Get(item, "connector_conformance") \in {None, IllTyped} THEN << >> ELSE item.connector_conformance
  IN [i \in DOMAIN items |->
        [name |-> NameOr(items[i], "adapter_", i),
         mode |-> Get(items[i], "execution_mode"),
         live |-> Get(items[i], "live_connector_execution") = TRUE,
         refs |-> [f \in {"connectors", "policies", "evals", "evidence"} |-> GetSet(items[i], f)],
         protocols |-> GetSet(conformance(items[i]), "protocols"),
         defaultMode |-> Get(conformance(items[i]), "default_mode"),
         approval |-> Get(conformance(items[i]), "approval_required") = TRUE,
         nonGoals |-> GetSet(items[i], "non_goals")]]

\* An earlier entry has the same name, letters of either case taken as one.
Repeated(items, i) == \E j \in 1..(i - 1) : Folded(items[j].name) = Folded(items[i].name)

(***************************************************************************)
(* Decisions.                                                              *)
(***************************************************************************)
ConnectorDecisions(c) ==
  UNION {
    ReadyIf(c.protocol \in SupportedProtocols, "CONNECTOR_PROTOCOL_SUPPORTED", "CONNECTOR_PROTOCOL_UNSUPPORTED"),
    ReadyIf(c.capabilities # {}, "CONNECTOR_CAPABILITIES_DECLARED", "CONNECTOR_CAPABILITIES_MISSING"),
    IF c.mode \in UnsafeDefaultModes THEN Block("CONNECTOR_DEFAULT_MODE_UNSAFE")
    ELSE IF c.mode \in SafeDefaultModes THEN Ready("CONNECTOR_DEFAULT_MODE_SAFE")
    ELSE Warning("CONNECTOR_DEFAULT_MODE_UNKNOWN"),
    IF c.approval THEN NeedsHuman("CONNECTOR_APPROVAL_REQUIRED") ELSE Warning("CONNECTOR_APPROVAL_NOT_REQUIRED"),
    BlockIf(c.live, "CONNECTOR_LIVE_TARGET_DECLARED"),
    BlockIf(c.protocol = "a2a" /\ {Folded(s) : s \in c.share} \cap SensitiveShareTokens # {},
            "A2A_SENSITIVE_SHARE_BLOCKED"),
    IF c.protocol = "a2a" /\ ~ SensitiveShareTokens \subseteq {Folded(s) : s \in c.neverShare}
    THEN Warning("A2A_NEVER_SHARE_INCOMPLETE") ELSE {},
    Ready("CONNECTOR_EXECUTION_DISABLED") }

AdapterReports(connectors) ==
  [i \in DOMAIN connectors |->
     ConnectorDecisions(connectors[i]) \cup BlockIf(Repeated(connectors, i), "CONNECTOR_DUPLICATE_NAME")]

PluginReports(plugins) ==
  [i \in DOMAIN plugins |->
     ReadyIf(~ Repeated(plugins, i), "PLUGIN_NAME_UNIQUE", "PLUGIN_DUPLICATE_NAME")
     \cup (IF plugins[i].provides # {} THEN Ready("PLUGIN_PROVIDES_DECLARED") ELSE Warning("PLUGIN_PROVIDES_MISSING"))
     \cup BlockIf(plugins[i].status \in {"candidate", "stable"} /\ plugins[i].conformance = {},
                  "PLUGIN_CONFORMANCE_REQUIRED")]

\* A reference is looked up by its exact name, among the connectors of plugins too.
ReferenceReports(refs, connectors) ==
  UNION {ReadyIf(ref \in {c.name : c \in Range(connectors)},
                 "CONNECTOR_MANIFEST_DECLARED", "CONNECTOR_MANIFEST_NOT_DECLARED") : ref \in refs}

\* An adapter's references are looked up among the top-level blocks only.
AdapterContractDecisions(doc, a) ==
  LET declared == [connectors |-> {c.name : c \in {x \in Range(MappingItems(doc, "connectors")) : Get(x, "name") # None}},
                   policies |-> Names(doc, "policies"), evals |-> Names(doc, "evals"),
                   evidence |-> EvidenceRequired(doc)]
  IN UNION {
       ReadyIf(a.mode = "contract_only", "ADAPTER_EXECUTION_MODE_CONTRACT_ONLY", "ADAPTER_EXECUTION_MODE_UNSAFE"),
       ReadyIf(~ a.live, "ADAPTER_LIVE_EXECUTION_DISABLED", "ADAPTER_LIVE_EXECUTION_ENABLED"),
       UNION {ReadyIf(a.refs[f] # {} /\ a.refs[f] \subseteq declared[f], "ADAPTER_REFS_DECLARED", "ADAPTER_REFS_BLOCKED")
                : f \in DOMAIN declared},
       ReadyIf(a.protocols # {} /\ a.protocols \subseteq SupportedProtocols,
               "ADAPTER_CONNECTOR_PROTOCOLS_SUPPORTED", "ADAPTER_CONNECTOR_PROTOCOLS_UNSUPPORTED"),
       ReadyIf(a.defaultMode \in SafeDefaultModes,
               "ADAPTER_CONNECTOR_DEFAULT_MODE_SAFE", "ADAPTER_CONNECTOR_DEFAULT_MODE_UNSAFE"),
       IF a.approval THEN NeedsHuman("ADAPTER_CONNECTOR_APPROVAL_REQUIRED")
       ELSE Block("ADAPTER_CONNECTOR_APPROVAL_NOT_REQUIRED"),
       ReadyIf(RequiredAdapterNonGoals \subseteq a.nonGoals, "ADAPTER_NON_GOALS_COMPLETE", "ADAPTER_NON_GOALS_INCOMPLETE") }

AdapterContractReports(doc) ==
  LET adapters == NormalizeAdapters(doc)
  IN [i \in DOMAIN adapters |->
        AdapterContractDecisions(doc, adapters[i]) \cup BlockIf(Repeated(adapters, i), "ADAPTER_DUPLICATE_NAME")]

(***************************************************************************)
(* The reports: every decision counts.                                     *)
(***************************************************************************)
ConnectorReportDecisions(doc) ==
  LET connectors == NormalizeConnectors(doc)
  IN (UNION Range(PluginReports(NormalizePlugins(doc)))) \cup (UNION Range(AdapterReports(connectors)))
       \cup ReferenceReports(ConnectorRefs(doc), connectors)

BuildConnectorReport(doc) ==
  LET decisions == ConnectorReportDecisions(doc)
  IN [status |-> Verdict(decisions, "manifest_ready", "manifest_ready_with_warnings"), decisions |-> decisions]

BuildAdapterConformanceReport(doc) ==
  LET decisions == ConnectorReportDecisions(doc) \cup UNION Range(AdapterContractReports(doc))
  IN [status |-> Verdict(decisions, "conformant", "conformant_with_warnings"), decisions |-> decisions]
===============================================================================
