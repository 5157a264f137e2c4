------------------------------- MODULE RuleEngine -------------------------------
(***************************************************************************)
(* The closed rule language of governance packs: how a path is resolved in *)
(* a document, what a predicate says of the values found, and how the      *)
(* elements that satisfy a condition select those a requirement binds.     *)
(*                                                                         *)
(* A document is a tree: [t |-> "map", f |-> name -> tree], [t |-> "list", *)
(* s |-> trees], [t |-> "scalar", v |-> value] or, where the document      *)
(* declares an approval, [t |-> "approval", source, shape]; no path leads  *)
(* into an approval.  The value of a scalar is None where it is null, and  *)
(* IllTyped where it is a number other than zero.                          *)
(***************************************************************************)
EXTENDS GovernanceApproval, SequencesExt, Functions

CONSTANTS
  MaxSteps,       \* MAX_EVALUATION_STEPS
  DocumentNodes,  \* bound: the values that documents are made of
  MaxWidth,       \* bound: no list of a document is longer
  MaxDepth        \* bound: a value whose type is wrong is no more than this many levels below the document

MissingNode == [t |-> "missing"]
Scalar(v) == [t |-> "scalar", v |-> v]
List(s) == [t |-> "list", s |-> s]
Map(f) == [t |-> "map", f |-> f]

\* A value made of values of a set.
MadeOf(node, nodes) ==
  \/ node.t = "map" /\ node = Map(node.f) /\ node.f \in [DOMAIN node.f -> nodes]
  \/ node.t = "list" /\ node = List(node.s) /\ node.s \in Seq(nodes) /\ Len(node.s) <= MaxWidth
  \/ node.t \in {"scalar", "approval"}
ASSUME NodesAssumption ==
  MaxWidth \in Nat \ {0} /\ MaxDepth \in Nat /\ \A node \in DocumentNodes : MadeOf(node, DocumentNodes)

(***************************************************************************)
(* A path is a sequence of [name, collection].  A binding has, for every   *)
(* collection on the way, the element taken: <<prefix, index>>, where      *)
(* prefix is the path up to that collection.                               *)
(***************************************************************************)
Names(path, k) == [i \in 1..k |-> path[i].name]

\* One segment from one cursor [node, binding]: the values it leads to, and errors.
Descend(cursor, path, k) ==
  LET segment == path[k]
      node == cursor.node
      child == IF node.t = "missing" \/ segment.name \notin DOMAIN node.f THEN MissingNode ELSE node.f[segment.name]
      fail(code) == [values |-> {}, errors |-> {[code |-> code, binding |-> cursor.binding]}]
      found(values) == [values |-> values, errors |-> {}]
  IN IF node.t \notin {"missing", "map"} THEN fail("RULE_PATH_TYPE_ERROR")
     ELSE IF ~ segment.collection THEN found({[node |-> child, binding |-> cursor.binding]})
     ELSE CASE child.t = "missing" -> found({})
            [] child.t = "list" -> found({[node |-> child.s[i], binding |-> cursor.binding \cup {<<Names(path, k), i>>}] :
                                            i \in DOMAIN child.s})
            [] OTHER -> fail("RULE_COLLECTION_TYPE_ERROR")

\* A segment from every value reached so far; each is one call of walk.
Advance(before, path, k) ==
  LET steps == {Descend(c, path, k) : c \in before.values}
  IN [values |-> UNION {s.values : s \in steps},
      errors |-> before.errors \cup UNION {s.errors : s \in steps},
      walks |-> before.walks \cup {<<k, c.binding>> : c \in before.values}]

\* What the first k segments lead to, for each k.
Reached(document, path) ==
  LET reached[k \in 0..Len(path)] ==
        IF k = 0 THEN [values |-> {[node |-> document, binding |-> {}]}, errors |-> {}, walks |-> {}]
        ELSE Advance(reached[k - 1], path, k)
  IN reached

\* Past the limit a walk is refused with this error, which closes the rule; the errors met before are left out.
StepLimit == {[code |-> "RULE_STEP_LIMIT_EXCEEDED", binding |-> {}]}

Resolve(document, path) ==
  LET end == Reached(document, path)[Len(path)]
  IN [values |-> end.values, errors |-> IF Cardinality(end.walks) > MaxSteps THEN StepLimit ELSE end.errors]

HadCollection(path) == \E i \in DOMAIN path : path[i].collection

(***************************************************************************)
(* One value against one operator: "yes", "no", "missing" or, structurally,*)
(* "error".                                                                *)
(***************************************************************************)
ScalarOperators == {"equals", "not_equals", "in", "not_in", "matches_id"}
CollectionOperators == {"contains", "contains_all", "min_count", "max_count"}
ReferenceOperators == {"references_role", "references_evidence", "references_approval"}
Operators == {"exists", "not_exists"} \cup ScalarOperators \cup CollectionOperators \cup ReferenceOperators

Answer(b) == IF b THEN "yes" ELSE "no"
Scalars(list) == {list.s[i].v : i \in {j \in DOMAIN list.s : list.s[j].t = "scalar"}}
Items(node) == IF node.t = "list" THEN {node.s[i] : i \in DOMAIN node.s} ELSE {node}

\* _approval_roles: None where an item cannot be read; a mapping that declares no approval has no roles.
RolesOf(approvals) ==
  IF \E a \in approvals : a.resolution = "invalid" THEN None ELSE UNION {a.required \cup a.eligible : a \in approvals}
ApprovalRoles(node) ==
  IF \E item \in Items(node) : item.t \notin {"approval", "map"} THEN None
  ELSE RolesOf({NormalizeApproval(a.source, a.shape, "document") : a \in {item \in Items(node) : item.t = "approval"}})

\* _reference_ids: {"required": [...]}, a list or one mapping; ids or names of mappings, or strings.
Field(map, name) == IF name \in DOMAIN map.f THEN map.f[name] ELSE MissingNode
Falsy(node) ==
  \/ node.t = "missing"
  \/ node.t = "scalar" /\ node.v = None
  \/ node.t = "list" /\ node.s = << >>
  \/ node.t = "map" /\ DOMAIN node.f = {}
ReferenceId(item) ==
  LET named == CASE item.t = "approval" -> Scalar(item.source.id)
                 [] item.t = "map" -> Field(item, IF Falsy(Field(item, "id")) THEN "name" ELSE "id")
                 [] OTHER -> item
  IN IF named.t = "scalar" /\ named.v # None THEN named.v ELSE IllTyped
ReferenceIds(node) ==
  LET items == IF node.t = "map" /\ Field(node, "required").t = "list" THEN Items(Field(node, "required")) ELSE Items(node)
      ids == {ReferenceId(i) : i \in items}
  IN IF node.t = "scalar" \/ IllTyped \in ids THEN None ELSE ids

Referred(names, operand) == IF names = None THEN "error" ELSE Answer(operand \in names)

\* matches_id is given the set of names its pattern covers.
ScalarAnswer(v, operator, operand) ==
  CASE operator = "equals" -> Answer(v = operand)
    [] operator = "not_equals" -> Answer(v # operand)
    [] operator = "in" -> Answer(v \in operand)
    [] operator = "not_in" -> Answer(v \notin operand)
    [] operator = "matches_id" -> IF v \in {None, IllTyped} THEN "error" ELSE Answer(v \in operand)
CollectionAnswer(list, operator, operand) ==
  CASE operator = "contains" -> Answer(operand \in Scalars(list))
    [] operator = "contains_all" -> Answer(operand \subseteq Scalars(list))
    [] operator = "min_count" -> Answer(Len(list.s) >= operand)
    [] operator = "max_count" -> Answer(Len(list.s) <= operand)
Matches(node, operator, operand) ==
  IF node.t = "missing" THEN IF operator = "not_exists" THEN "yes" ELSE "missing"
  ELSE CASE operator = "exists" -> "yes"
         [] operator = "not_exists" -> "no"
         [] operator \in ScalarOperators -> IF node.t = "scalar" THEN ScalarAnswer(node.v, operator, operand) ELSE "error"
         [] operator \in CollectionOperators -> IF node.t = "list" THEN CollectionAnswer(node, operator, operand) ELSE "error"
         [] operator = "references_role" -> Referred(ApprovalRoles(node), operand)
         [] operator \in {"references_evidence", "references_approval"} -> Referred(ReferenceIds(node), operand)

(***************************************************************************)
(* Conditions.  A rule is [id, severity, mode, when, requirements]: mode   *)
(* "always", "one", "all" or "any"; a predicate is [path, operator,        *)
(* operand].                                                               *)
(***************************************************************************)
Judge(value, predicate) == Matches(value.node, predicate.operator, predicate.operand)

\* What an operator answers for each value.
Judged(values, predicate) == {[binding |-> v.binding, answer |-> Judge(v, predicate)] : v \in values}
Bindings(judged, answer) == {j.binding : j \in {k \in judged : k.answer = answer}}

OutcomeOf(predicate, errors, judged) ==
  [matched |-> Bindings(judged, "yes") # {},
   successes |-> IF HadCollection(predicate.path) THEN Bindings(judged, "yes") ELSE {},
   errors |-> errors \cup {[code |-> "RULE_VALUE_TYPE_ERROR", binding |-> b] : b \in Bindings(judged, "error")}]
Outcome(document, predicate) ==
  LET resolution == Resolve(document, predicate.path)
  IN OutcomeOf(predicate, resolution.errors, Judged(resolution.values, predicate))

Traverses(binding, prefix) == \E e \in binding : e[1] = prefix

\* Mutant of UpTo: elements of a nested collection are told apart by their own index alone.
UpToLast(binding, prefix) == {e \in binding : e[1] = prefix}

\* _binding_prefix: a binding as far as the collection prefix.
UpTo(binding, prefix) == {e \in binding : Len(e[1]) <= Len(prefix)}

\* _project_selections: for every collection prefix, the elements that satisfy the condition.
ProjectSelections(outcomes, mode) ==
  LET prefixes == UNION {{e[1] : e \in b} : b \in UNION {outcomes[k].successes : k \in DOMAIN outcomes}}
      projected(k, prefix) == {UpTo(b, prefix) : b \in {c \in outcomes[k].successes : Traverses(c, prefix)}}
      groups(prefix) == {k \in DOMAIN outcomes : projected(k, prefix) # {}}
      either(prefix) == UNION {projected(k, prefix) : k \in groups(prefix)}
      selected(prefix) ==
        IF mode = "all" THEN {e \in either(prefix) : \A k \in groups(prefix) : e \in projected(k, prefix)}
        ELSE either(prefix)
  IN [joint |-> \A p \in prefixes : mode = "all" /\ Cardinality(groups(p)) >= 2 => selected(p) # {},
      selections |-> [p \in prefixes |-> selected(p)]]

Joined(mode, outcomes, projection) ==
  [matched |-> CASE mode = "always" -> TRUE
                 [] mode = "all" -> projection.joint /\ \A k \in DOMAIN outcomes : outcomes[k].matched
                 [] OTHER -> \E k \in DOMAIN outcomes : outcomes[k].matched,
   selections |-> projection.selections,
   errors |-> UNION {outcomes[k].errors : k \in DOMAIN outcomes}]
Outcomes(document, rule) == [k \in DOMAIN rule.when |-> Outcome(document, rule.when[k])]
ConditionsOf(mode, outcomes) == Joined(mode, outcomes, ProjectSelections(outcomes, mode))
ConditionOutcome(document, rule) == ConditionsOf(rule.mode, Outcomes(document, rule))

Finding(rule, code, binding) == [rule |-> rule.id, level |-> rule.severity, code |-> code, binding |-> binding]

\* A requirement binds the values under the selected elements.
Applicable(values, selections) ==
  {v \in values : \A p \in DOMAIN selections : Traverses(v.binding, p) => UpTo(v.binding, p) \in selections[p]}

Failure(answer) ==
  CASE answer = "missing" -> "RULE_PATH_MISSING"
    [] answer = "error" -> "RULE_VALUE_TYPE_ERROR"
    [] OTHER -> "RULE_REQUIREMENT_FAILED"

RequirementOn(rule, predicate, errors, judged) ==
  IF errors # {} THEN {Finding(rule, e.code, e.binding) : e \in errors}
  ELSE IF HadCollection(predicate.path) /\ judged = {} THEN {Finding(rule, "RULE_EMPTY_COLLECTION", {})}
  ELSE {Finding(rule, Failure(j.answer), j.binding) : j \in {k \in judged : k.answer # "yes"}}
Requirement(document, rule, predicate, selections) ==
  LET resolution == Resolve(document, predicate.path)
  IN RequirementOn(rule, predicate, resolution.errors, Judged(Applicable(resolution.values, selections), predicate))

\* Mutant of ReadErrors: only the path of a condition is checked, not the type of what it leads to.
ReadErrorsOfPath(condition) == {e \in condition.errors : e.code # "RULE_VALUE_TYPE_ERROR"}

\* The errors in a condition that fail the rule closed.
ReadErrors(condition) == condition.errors

EvaluateUnder(document, rule, condition) ==
  IF ReadErrors(condition) # {} THEN {Finding(rule, e.code, e.binding) : e \in ReadErrors(condition)}
  ELSE IF ~ condition.matched THEN {}
  ELSE UNION {Requirement(document, rule, rule.requirements[i], condition.selections) : i \in DOMAIN rule.requirements}
EvaluateRule(document, rule) == EvaluateUnder(document, rule, ConditionOutcome(document, rule))

EvaluateRules(document, rules) == UNION {EvaluateRule(document, r) : r \in rules}

(***************************************************************************)
(* What a rule means, element by element and without cursors, bindings     *)
(* being gathered or projected: the reference the rule engine is compared  *)
(* with.  A choice takes one index at every collection of a path.          *)
(***************************************************************************)
Readings(path) ==
  {c \in [DOMAIN path -> 1..MaxWidth] : \A k \in DOMAIN path : ~ path[k].collection => c[k] = 1}

Void == [t |-> "void"]                  \* no such element
Broken(code) == [t |-> "broken", code |-> code]

Entered(parent, segment, index) ==
  LET child == IF parent.t = "map" /\ segment.name \in DOMAIN parent.f THEN parent.f[segment.name] ELSE MissingNode
  IN IF parent.t \in {"void", "broken"} THEN parent
     ELSE IF parent.t \notin {"missing", "map"} THEN Broken("RULE_PATH_TYPE_ERROR")
     ELSE IF ~ segment.collection THEN child
     ELSE CASE child.t = "missing" -> Void
            [] child.t = "list" -> IF index \in DOMAIN child.s THEN child.s[index] ELSE Void
            [] OTHER -> Broken("RULE_COLLECTION_TYPE_ERROR")

\* What a choice comes to after each segment, and at the end.
Trail(document, path, choice) ==
  LET trail[k \in 0..Len(path)] == IF k = 0 THEN document ELSE Entered(trail[k - 1], path[k], choice[k])
  IN trail
At(document, path, choice) == Trail(document, path, choice)[Len(path)]

\* The elements chosen in the first n segments.
Taken(path, choice, n) == {<<Names(path, k), choice[k]>> : k \in {j \in 1..n : path[j].collection}}

\* Where a path breaks, the elements chosen so far; later ones are not looked at.
BreaksAt(document, path, choice) ==
  LET trail == Trail(document, path, choice)
  IN CHOOSE n \in 0..(Len(path) - 1) : trail[n + 1].t = "broken" /\ trail[n].t # "broken"

\* Every value looked into, once for each segment.
Lookups(document, path) ==
  UNION {{<<k + 1, Taken(path, c, k)>> : c \in {d \in Readings(path) : Trail(document, path, d)[k].t \notin {"void", "broken"}}} :
           k \in 0..(Len(path) - 1)}
BrokenReadings(document, path) ==
  IF Cardinality(Lookups(document, path)) > MaxSteps THEN StepLimit
  ELSE {[code |-> At(document, path, c).code, binding |-> Taken(path, c, BreaksAt(document, path, c))] :
          c \in {d \in Readings(path) : At(document, path, d).t = "broken"}}

ValuesAt(document, path) == {c \in Readings(path) : At(document, path, c).t \notin {"void", "broken"}}
Says(document, predicate, c) == Matches(At(document, predicate.path, c), predicate.operator, predicate.operand)
Hits(document, predicate) == {c \in ValuesAt(document, predicate.path) : Says(document, predicate, c) = "yes"}

\* The choices c of path and d of other take the same element of their common collection at depth k.
SameElement(path, c, other, d, k) ==
  /\ k \in DOMAIN other /\ Names(path, k) = Names(other, k)
  /\ \A j \in 1..k : (path[j].collection <=> other[j].collection) /\ c[j] = d[j]

\* The conditions that say something of the elements of the collection at depth k of path.
Selecting(document, rule, path, k) ==
  {i \in DOMAIN rule.when :
     /\ k \in DOMAIN rule.when[i].path /\ rule.when[i].path[k].collection
     /\ Names(rule.when[i].path, k) = Names(path, k) /\ Hits(document, rule.when[i]) # {}}
Satisfies(document, rule, i, path, c, k) ==
  \E d \in Hits(document, rule.when[i]) : SameElement(path, c, rule.when[i].path, d, k)

\* The element that c takes at depth k of path is one the rule is about.
Selected(document, rule, path, c, k) ==
  LET about == Selecting(document, rule, path, k)
  IN IF rule.mode = "all" THEN \A i \in about : Satisfies(document, rule, i, path, c, k)
     ELSE about = {} \/ \E i \in about : Satisfies(document, rule, i, path, c, k)

\* Under "all", conditions that share a collection are met by one element of it.
Joint(document, rule) ==
  \A i \in DOMAIN rule.when : \A k \in DOMAIN rule.when[i].path :
    LET path == rule.when[i].path
    IN path[k].collection /\ Cardinality(Selecting(document, rule, path, k)) >= 2 =>
         \E c \in Hits(document, rule.when[i]) : Selected(document, rule, path, c, k)

Applies(document, rule) ==
  CASE rule.mode = "always" -> TRUE
    [] rule.mode = "all" -> Joint(document, rule) /\ \A i \in DOMAIN rule.when : Hits(document, rule.when[i]) # {}
    [] OTHER -> \E i \in DOMAIN rule.when : Hits(document, rule.when[i]) # {}

ConditionErrors(document, rule) ==
  UNION {LET w == rule.when[i]
         IN BrokenReadings(document, w.path)
              \cup {[code |-> "RULE_VALUE_TYPE_ERROR", binding |-> Taken(w.path, c, Len(w.path))] :
                      c \in {d \in ValuesAt(document, w.path) : Says(document, w, d) = "error"}} :
           i \in DOMAIN rule.when}

About(document, rule, path) ==
  {c \in ValuesAt(document, path) : \A k \in DOMAIN path : path[k].collection => Selected(document, rule, path, c, k)}

Unmet(document, rule, r) ==
  LET broken == BrokenReadings(document, r.path)
      bound == About(document, rule, r.path)
  IN IF broken # {} THEN {Finding(rule, b.code, b.binding) : b \in broken}
     ELSE IF HadCollection(r.path) /\ bound = {} THEN {Finding(rule, "RULE_EMPTY_COLLECTION", {})}
     ELSE {Finding(rule, Failure(Says(document, r, c)), Taken(r.path, c, Len(r.path))) :
             c \in {d \in bound : Says(document, r, d) # "yes"}}

\* The findings of a rule.
Meaning(document, rule) ==
  LET wrong == ConditionErrors(document, rule)
  IN IF wrong # {} THEN {Finding(rule, w.code, w.binding) : w \in wrong}
     ELSE IF ~ Applies(document, rule) THEN {}
     ELSE UNION {Unmet(document, rule, rule.requirements[i]) : i \in DOMAIN rule.requirements}

(***************************************************************************)
(* Documents in which one value has the wrong type.                        *)
(***************************************************************************)
Odd(node) == IF node.t = "scalar" THEN Map([strange |-> Scalar("strange")]) ELSE Scalar("strange")
Children(node) ==
  CASE node.t = "map" -> {<<"f", n>> : n \in DOMAIN node.f}
    [] node.t = "list" -> {<<"s", i>> : i \in DOMAIN node.s}
    [] OTHER -> {}
Put(node, child, new) ==
  IF child[1] = "f" THEN [node EXCEPT !.f[child[2]] = new] ELSE [node EXCEPT !.s[child[2]] = new]
Child(node, child) == IF child[1] = "f" THEN node.f[child[2]] ELSE node.s[child[2]]

\* One value, at any level down to MaxDepth, replaced.
Damaged(document) ==
  LET damaged[k \in 0..MaxDepth] ==
        IF k = 0 THEN [node \in DocumentNodes |-> {}]
        ELSE [node \in DocumentNodes |->
                UNION {{Put(node, c, new) : new \in {Odd(Child(node, c))} \cup damaged[k - 1][Child(node, c)]} :
                         c \in Children(node)}]
  IN damaged[MaxDepth][document]

\* Operators that look for one member among several.
MemberOperators == ReferenceOperators \cup {"contains", "contains_all"}

\* A mapping that lists references and has an identity of its own, which is what _reference_ids
\* reads once the list is none.
Ambiguous(node) == node.t = "map" /\ "required" \in DOMAIN node.f /\ DOMAIN node.f \cap {"id", "name"} # {}

\* What a requirement looks for is not the odd value itself, and is not looked for in such a mapping.
Discerns(document, r) ==
  /\ r.operator \in MemberOperators => "strange" \notin (IF r.operator = "contains_all" THEN r.operand ELSE {r.operand})
  /\ r.operator \in {"references_evidence", "references_approval"} =>
       \A c \in ValuesAt(document, r.path) : ~ Ambiguous(At(document, r.path, c))
===============================================================================
