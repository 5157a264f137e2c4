----------------------------- MODULE NyxDocument -----------------------------
(***************************************************************************)
(* A parsed .nyx document and how load_nyx makes one.  A document is a     *)
(* function from the names of its top-level blocks to their contents, an   *)
(* entry of a block one from the names of its fields.  Lists whose order   *)
(* no reader looks at are sets.                                            *)
(***************************************************************************)
EXTENDS Naturals, Sequences, FiniteSets, SequencesExt, Functions

CONSTANTS
  None,        \* an absent or empty value
  IllTyped,    \* a value of the wrong YAML type: a text for a list, a number for a mapping
  NotJson,     \* a value json.dumps cannot write: a YAML date, bytes, a set, an alias of itself
  MixedKeys,   \* a mapping it can write but not sort: its keys are of several types
  Folded(_)    \* str.lower() on names

ParseError == [parsed |-> FALSE]

Get(entry, field) == IF field \in DOMAIN entry THEN entry[field] ELSE None

GetSet(entry, field) == IF field \in DOMAIN entry THEN entry[field] ELSE {}

\* doc.get(block, []) or [], for a block that is a list
Entries(doc, block) ==
  IF block \in DOMAIN doc /\ doc[block] # IllTyped THEN doc[block] ELSE << >>

\* The entries of a block that are mappings, in their order and as a set.
Mappings(doc, block) == SelectSeq(Entries(doc, block), LAMBDA e : e # IllTyped)
MappingSet(doc, block) == Range(Entries(doc, block)) \ {IllTyped}

HasName(entry, name) == entry # IllTyped /\ Get(entry, "name") = name

Names(doc, block) == {Get(e, "name") : e \in MappingSet(doc, block)} \ {None}

\* _named_mapping: of two entries with one name the later one is kept.
NamedMapping(doc, block) ==
  [n \in Names(doc, block) |->
     Entries(doc, block)[SelectLastInSeq(Entries(doc, block), LAMBDA e : HasName(e, n))]]

(***************************************************************************)
(* load_nyx resolves a policy given by reference from the file that holds  *)
(* it: "sources" are the files of rules on disk, file -> document.         *)
(***************************************************************************)
\* _extract_policy_rules: the first policy of that name counts, and only its "rules" field.
ReferencedRules(source, policy) ==
  LET at == SelectInSeq(Entries(source, "policies"), LAMBDA p : HasName(p, policy))
  IN IF at = 0 THEN None ELSE Get(Entries(source, "policies")[at], "rules")

RefProblem(policy, sources) ==
  \/ "rules" \in DOMAIN policy
  \/ policy.ref = IllTyped
  \/ policy.ref.file \notin DOMAIN sources
  \/ ReferencedRules(sources[policy.ref.file], policy.ref.policy) = None

Resolved(policy, sources) ==
  IF policy = IllTyped \/ "ref" \notin DOMAIN policy THEN policy
  ELSE [f \in (DOMAIN policy \ {"ref"}) \cup {"rules"} |->
          IF f = "rules" THEN ReferencedRules(sources[policy.ref.file], policy.ref.policy)
          ELSE policy[f]]

ResolvePolicyRefs(doc, sources) ==
  LET policies == Entries(doc, "policies")
  IN IF \A p \in MappingSet(doc, "policies") : "ref" \notin DOMAIN p THEN doc
     ELSE IF \E p \in MappingSet(doc, "policies") : "ref" \in DOMAIN p /\ RefProblem(p, sources)
          THEN ParseError
          ELSE [doc EXCEPT !["policies"] =
                  [i \in DOMAIN policies |-> Resolved(policies[i], sources)]]

\* A file that is missing, unreadable, no YAML, no mapping or has a duplicate key is None.
LoadNyx(content, sources) ==
  IF content = None THEN ParseError ELSE ResolvePolicyRefs(content, sources)
===============================================================================
