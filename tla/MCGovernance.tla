------------------------------ MODULE MCGovernance ------------------------------
(***************************************************************************)
(* GovernanceWorkspace on families of histories: every rule of a family on *)
(* every document of a family; pairs of approvals, policies and packs that *)
(* are composed; and commands of two processes among edits.                *)
(***************************************************************************)
EXTENDS GovernanceWorkspace

Symmetric == Permutations(Procs)

MCCoreDenied == {"ai_agent", "tool"}
MCNonHuman == {"ai_agent", "tool", "bot"}
MCPackNames == {"p", "m", "n", "x", "gates"}
MCReservedIds == {"nornyx.builtin.gates"}
MCBlockSchemas == {"gates_v1", "gates_v2"}
MCDirectories ==
  <<[tier |-> "project", paths |-> <<"profiles/p">>],
    [tier |-> "project", paths |-> <<"modules/m", "modules/n">>],
    [tier |-> "org", paths |-> <<"org/o">>]>>
NoFiles == [f \in {"profiles/p", "modules/m", "modules/n", "org/o"} |-> Absent]

MCStructuralFindings(check, d) ==
  IF check = "known.v1" THEN {} ELSE {[level |-> "error", code |-> "GOVERNANCE_STRUCTURAL_CHECK_UNKNOWN"]}

(***************************************************************************)
(* Packs.                                                                  *)
(***************************************************************************)
Pack(fields) ==
  fields @@
  [form |-> "ok", kind |-> "module", version |-> 1, core |-> TRUE, requires |-> {}, conflicts |-> {},
   blocks |-> {}, schemas |-> {}, checks |-> {}, policies |-> << >>, evidence |-> << >>, approvals |-> << >>,
   evaluations |-> << >>, rules |-> << >>, nonGoals |-> {}]

Approval(fields) ==
  Declared(fields @@ [id |-> "release", eligible |-> <<"lead", "sec">>, required |-> <<"lead">>, evidence |-> <<"tests">>])

Gates == Pack([id |-> "nornyx.builtin.gates", name |-> "gates", checks |-> {"known.v1"},
               approvals |-> <<Approval([required |-> << >>])>>])
MCBuiltins == <<Gates>>

Profile(fields) == Pack(fields @@ [kind |-> "profile", id |-> "team.p", name |-> "p"])
ModuleM(fields) == Pack(fields @@ [id |-> "team.m", name |-> "m"])
ModuleN(fields) == Pack(fields @@ [id |-> "team.n", name |-> "n"])

Contract(fields) == fields @@ [profile |-> None, modules |-> {}, sound |-> TRUE, tree |-> Map(<< >>)]

History(fields) ==
  fields @@
  [files |-> NoFiles, document |-> Contract(<< >>), lock |-> Absent, artifact |-> None,
   requests |-> {[command |-> "check"]}, payloads |-> << >>, documents |-> {}, commands |-> 1, edits |-> 0]

(***************************************************************************)
(* Rules on documents.                                                     *)
(***************************************************************************)
S(name) == [name |-> name, collection |-> FALSE]
C(name) == [name |-> name, collection |-> TRUE]
P(path, operator, operand) == [path |-> path, operator |-> operator, operand |-> operand]
Rule(mode, when, requirements) ==
  [id |-> "r", severity |-> "error", mode |-> mode, when |-> when, requirements |-> requirements]

Kind == <<C("items"), S("kind")>>
Owner == <<C("items"), S("owner")>>
Part == <<C("items"), C("parts"), S("ok")>>
Flag == <<S("flag")>>

Conditions ==
  {<<"always", << >>>>,
   <<"one", <<P(Kind, "equals", "a")>>>>, <<"one", <<P(Part, "equals", "a")>>>>, <<"one", <<P(Flag, "equals", "a")>>>>,
   <<"one", <<P(Kind, "not_exists", None)>>>>, <<"one", <<P(<<S("items")>>, "min_count", 2)>>>>,
   <<"all", <<P(Kind, "equals", "a"), P(Part, "not_equals", "a")>>>>,
   <<"all", <<P(Kind, "in", {"a", "b"}), P(Owner, "exists", None)>>>>,
   <<"all", <<P(Kind, "equals", "a"), P(Flag, "equals", "a")>>>>,
   <<"any", <<P(Kind, "equals", "a"), P(Part, "equals", "a")>>>>,
   <<"any", <<P(Kind, "equals", "b"), P(Flag, "exists", None)>>>>}
Requirements ==
  {<<P(Owner, "exists", None)>>, <<P(Part, "equals", "a")>>, <<P(Flag, "not_in", {"b"})>>,
   <<P(<<S("items")>>, "max_count", 1)>>, <<P(Owner, "matches_id", {"lead"}), P(Kind, "not_equals", "b")>>}

Parts == {<< >>, <<"a">>, <<"b">>, <<"a", "b">>}
PartList(parts) == List([i \in DOMAIN parts |-> Map([ok |-> Scalar(parts[i])])])
ItemValues ==
  {Map([kind |-> Scalar(k), parts |-> PartList(p)]) : k \in {"a", "b"}, p \in Parts}
    \cup {Map([kind |-> Scalar("a"), owner |-> Scalar("lead")]), Map([owner |-> Scalar("dev"), parts |-> PartList(<<"b">>)])}
OddItems == {Scalar("a"), Map([kind |-> List(<< >>)]), Map([kind |-> Scalar("a"), parts |-> Scalar("a")])}
ItemLists ==
  {<< >>} \cup {<<i>> : i \in ItemValues \cup OddItems} \cup {<<i, j>> : i, j \in ItemValues} \cup {<<i, j>> : i \in OddItems, j \in ItemValues}
Trees ==
  {Map([items |-> List(l)]) : l \in ItemLists}
    \cup {Map([items |-> List(l), flag |-> Scalar("a")]) : l \in {m \in ItemLists : Len(m) < 2}}
    \cup {Map(<< >>), Map([items |-> Scalar("a")]), Map([flag |-> List(<< >>)])}

\* Rules about approvals and evidence that a document declares.
References ==
  {P(<<S("approvals")>>, "references_role", "lead"), P(<<C("approvals")>>, "references_role", "dev"),
   P(<<S("evidence")>>, "references_evidence", "tests"), P(<<S("evidence"), S("tags")>>, "contains", "x"),
   P(<<S("evidence"), S("tags")>>, "contains_all", {"x", "y"}), P(<<C("evidence"), S("id")>>, "matches_id", {"tests"}),
   P(<<C("approvals")>>, "references_approval", "release")}
DeclaredApproval(fields) == [t |-> "approval", source |-> Approval(fields), shape |-> "ordinary_approval"]
ReferenceTrees ==
  {Map([approvals |-> List(<<DeclaredApproval(f)>>)]) :
     f \in {<< >>, [eligible |-> <<"lead", "dev">>], [required |-> <<"bot">>], [eligible |-> <<IllTyped>>]}}
  \cup {Map([approvals |-> Map([id |-> Scalar("release")])])}
  \cup {Map([evidence |-> e]) :
          e \in {List(<<Scalar("tests")>>), List(<<Map([id |-> Scalar(None), name |-> Scalar("tests")])>>),
                 List(<<Map([id |-> Scalar(IllTyped), name |-> Scalar("tests")])>>),
                 Map([required |-> List(<<Scalar("lint")>>), id |-> Scalar("tests")]), List(<<Map([id |-> Scalar("tests")])>>), Scalar("tests"),
                 Map([required |-> List(<<Scalar("tests"), Scalar("lint")>>)]),
                 Map([required |-> List(<<Map(<< >>)>>), tags |-> List(<<Scalar("x")>>)]),
                 Map([tags |-> List(<<Scalar("x"), Scalar("y")>>)])}}

RuleHistory(rule, tree) ==
  History([files |-> [NoFiles EXCEPT !["modules/m"] = ModuleM([rules |-> <<rule>>])],
           document |-> Contract([modules |-> {"m"}, tree |-> tree])])
RuleHistories ==
  {RuleHistory(Rule(c[1], c[2], r), tree) : c \in Conditions, r \in Requirements, tree \in Trees}
  \cup {RuleHistory(Rule("always", << >>, <<p>>), tree) : p \in References, tree \in ReferenceTrees}
  \cup {RuleHistory(Rule("one", <<p>>, <<P(Flag, "exists", None)>>), tree) : p \in References, tree \in ReferenceTrees}
(***************************************************************************)
(* What is composed: a profile that needs module m, beside the catalog.    *)
(***************************************************************************)
Approvals ==
  {Approval(f) : f \in
     {<< >>, [required |-> << >>], [eligible |-> <<"sec", "dev">>, required |-> <<"sec">>], [eligible |-> << >>, required |-> << >>],
      [eligible |-> <<"dev">>, required |-> << >>], [eligible |-> <<"lead", "bot">>], [required |-> <<"dev">>],
      [denied |-> <<"sec", Surface>>, eligible |-> <<"lead">>], [denied |-> <<"lead">>], [surfaces |-> <<"lead">>], [denied |-> <<"dev">>, eligible |-> <<"sec">>, required |-> << >>],
      [timing |-> "before_merge"], [timing |-> "before_release"], [timing |-> "someday"], [authority |-> "lead"],
      [authority |-> "sec", exact |-> TRUE], [authority |-> "bot"], [actions |-> <<"deploy">>, expiresAfter |-> "30d"],
      [expiresAfter |-> "60d", invalidation |-> <<"revision_change">>], [evidence |-> <<IllTyped>>], [strange |-> TRUE],
      [id |-> "merge", required |-> <<"sec">>], [id |-> None], [evidence |-> << >>, eligible |-> << >>, required |-> << >>],
      [revision |-> "r1", expiresAt |-> "day9"]}}

Composed(profile, module, d) ==
  History([files |-> [NoFiles EXCEPT !["profiles/p"] = profile, !["modules/m"] = module], document |-> d])
SelectsP == Contract([profile |-> "p"])

ApprovalHistories ==
  {Composed(Profile([approvals |-> <<a>>, requires |-> {"m", "gates"}]), ModuleM([approvals |-> <<b>>]), SelectsP) :
     a, b \in Approvals}
  \cup {Composed(Profile([approvals |-> <<a>>, requires |-> {"m"}]), ModuleM([approvals |-> <<b, c>>]), SelectsP) :
          a \in Approvals, b \in {Approval(<< >>), Approval([id |-> "merge"])},
          c \in {Approval([eligible |-> <<"sec", "lead", "dev">>]), Approval([id |-> "merge", required |-> <<"sec">>])}}

Policy(text, deny, require) == [id |-> "policy", text |-> text, deny |-> deny, require |-> require]
OtherPacks ==
  {ModuleM(f) : f \in
     {[policies |-> <<Policy(None, {"merge"}, {"review"})>>], [policies |-> <<Policy("b", {}, {})>>],
      [policies |-> <<Policy("a", {}, {}), Policy("a", {}, {})>>],
      [evidence |-> <<[id |-> "tests", type |-> "other"]>>], [evidence |-> <<[id |-> "lint", type |-> "run"]>>],
      [evaluations |-> <<[id |-> "eval", metrics |-> {"recall"}, evidence |-> {"tests"}]>>],
      [blocks |-> {"gates"}], [schemas |-> {<<"gates", "gates_v1">>}], [schemas |-> {<<"gates", "gates_v2">>}],
      [schemas |-> {<<"gates", "gates_v3">>}],
      [checks |-> {"known.v1", "unknown.v1"}], [checks |-> {"known.v1"}], [conflicts |-> {"team.p"}], [conflicts |-> {"team.x"}],
      [requires |-> {"gates"}], [requires |-> {"n"}], [requires |-> {"m"}], [requires |-> {"gone"}],
      [form |-> "yaml"], [form |-> "schema"], [form |-> "hash"], [core |-> FALSE], [kind |-> "policy"],
      [id |-> "nornyx.builtin.gates"], [id |-> "gates"], [name |-> "gates"], [kind |-> "profile", name |-> "gates"], [name |-> "p"],
      [rules |-> <<Rule("always", << >>, <<P(Flag, "exists", None)>>)>>],
      [rules |-> [i \in 1..2 |-> [Rule("always", << >>, <<P(Flag, "exists", None)>>) EXCEPT !.id = i]]],
      [rules |-> [i \in 1..3 |-> [Rule("always", << >>, <<P(Flag, "exists", None)>>) EXCEPT !.id = i]]],
      [rules |-> <<[Rule("always", << >>, <<P(Flag, "exists", None)>>) EXCEPT !.severity = "warning"]>>],
      [nonGoals |-> {"live execution"}]}}
OtherDocuments ==
  {SelectsP, Contract(<< >>), Contract([profile |-> "stranger"]), Contract([profile |-> "stranger", modules |-> {"m"}]),
   Contract([modules |-> IllTyped]), Contract([profile |-> "team.p", sound |-> FALSE]),
   Contract([profile |-> "p", tree |-> Map([gates |-> Map(<< >>)])]), Contract([profile |-> "p", tree |-> Map([gates |-> Scalar("a")])])}
OtherHistories ==
  {[Composed(Profile([requires |-> {"m", "n"}, policies |-> <<Policy("a", {"deploy"}, {})>>,
                      evidence |-> <<[id |-> "tests", type |-> "run"]>>,
                      evaluations |-> <<[id |-> "eval", metrics |-> {"precision"}, evidence |-> {}]>>]), m, d)
       EXCEPT !.files["modules/n"] = ModuleN([schemas |-> {<<"gates", "gates_v1">>},
                                              rules |-> <<Rule("any", <<P(Flag, "equals", "a")>>, <<P(Flag, "exists", None)>>)>>])] :
     m \in OtherPacks, d \in OtherDocuments}
  \cup {[Composed(Profile([requires |-> {"m"}]), ModuleM([requires |-> {"n"}]), SelectsP) EXCEPT !.files["modules/n"] = n] :
          n \in {ModuleN([requires |-> r]) : r \in {{}, {"m"}, {"team.m"}, {"gates"}, {"p"}}} \cup {ModuleM(<< >>)}}

(***************************************************************************)
(* Commands among edits.                                                   *)
(***************************************************************************)
Do(command) == [command |-> command, name |-> "p"]
P1 == Profile([requires |-> {"m"}, approvals |-> <<Approval(<< >>)>>])
P2 == Profile([requires |-> {"m"}, version |-> 2, approvals |-> <<Approval([eligible |-> <<"lead">>])>>])
M1 == ModuleM([approvals |-> <<Approval([required |-> << >>])>>])
M2 == ModuleM([approvals |-> <<Approval([eligible |-> <<"lead", "dev">>, required |-> << >>])>>])
OrgM == Pack([kind |-> "module", id |-> "org.x", name |-> "x", approvals |-> <<Approval([required |-> << >>])>>])
FilesPM == [NoFiles EXCEPT !["profiles/p"] = P1, !["modules/m"] = M1]
Lock(entries) == [link |-> FALSE, writable |-> TRUE, entries |-> entries]
LockedPM == LockForPacks({[payload |-> P1, tier |-> "project", path |-> "profiles/p"],
                          [payload |-> M1, tier |-> "project", path |-> "modules/m"]})

Dynamic(fields) == fields @@ History([files |-> FilesPM, document |-> SelectsP, commands |-> 2, edits |-> 2])
EditedPacks == [x \in {"profiles/p", "modules/m"} |-> IF x = "modules/m" THEN {M1, M2, Absent} ELSE {P1, P2}]
DynamicHistories ==
  {Dynamic([requests |-> {Do("check"), Do("lock")}, payloads |-> EditedPacks, lock |-> Lock(LockedPM)]),
   Dynamic([requests |-> {Do("resolve"), Do("lock")}, payloads |-> EditedPacks, lock |-> Lock(IllTyped)]),
   Dynamic([requests |-> {Do("report"), Do("lock")}, payloads |-> EditedPacks, documents |-> {SelectsP, Contract(<< >>)}]),
   Dynamic([requests |-> {Do("report"), Do("verify")}, payloads |-> EditedPacks, commands |-> 3, edits |-> 3]),
   Dynamic([requests |-> {Do("host"), Do("lock")}, payloads |-> ("org/o" :> {OrgM, Absent}),
            files |-> [FilesPM EXCEPT !["org/o"] = OrgM],
            documents |-> {SelectsP, Contract([profile |-> "p", modules |-> {"x"}])}])}

MCScenarios == RuleHistories \cup ApprovalHistories \cup OtherHistories \cup DynamicHistories

\* Every value of their documents, which are at most six levels deep.
ValuesIn(nodes) ==
  UNION {CASE node.t = "map" -> {node.f[n] : n \in DOMAIN node.f} [] node.t = "list" -> Items(node) [] OTHER -> {} : node \in nodes}
Documents == Trees \cup ReferenceTrees \cup {d.tree : d \in OtherDocuments}
Values2 == ValuesIn(Documents)
Values3 == ValuesIn(Values2)
Values4 == ValuesIn(Values3)
Values5 == ValuesIn(Values4)
MCDocumentNodes == Documents \cup Values2 \cup Values3 \cup Values4 \cup Values5 \cup ValuesIn(Values5)
===============================================================================
