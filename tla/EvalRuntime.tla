------------------------------ MODULE EvalRuntime ------------------------------
(***************************************************************************)
(* eval_runtime.py: metric thresholds, dataset integrity and the status of *)
(* an eval report.  A scalar is [type, value]; a text also has the scalar  *)
(* it reads as, or None; a null, a list or a mapping is only whether it    *)
(* has anything in it.  A threshold that reads as null is left out.        *)
(* "files" is the repository: path -> set of the lines of the file,        *)
(* IllTyped for a directory.                                               *)
(***************************************************************************)
EXTENDS NyxDocument, Integers

CONSTANT TextBefore(_, _)   \* the order of texts

HoldoutSplits == {"holdout", "holdout_v2"}   \* the splits whose name contains "holdout"
TrainSplits == {"train", "training"}

\* A split that is not given is none of these.
ASSUME SplitsAssumption == None \notin HoldoutSplits \cup TrainSplits

Truth(b) == [type |-> "truth", value |-> b]
Number(n) == [type |-> "number", value |-> n]
Text(s, reads) == [type |-> "text", value |-> s, reads |-> reads]

Other(filled) == [type |-> "other", filled |-> filled]

Unreadable == [type |-> "none"]

\* What bool() makes of a value.
Truthy(x) ==
  CASE x.type = "truth" -> x.value
    [] x.type = "number" -> x.value # 0
    [] x.type = "text" -> x.value # ""
    [] OTHER -> x.filled

\* Mutant of CoerceObserved: every text is as good as a yes if it is not empty.
CoerceObservedByBool(x, threshold) ==
  CASE threshold.type = "truth" -> Truth(Truthy(x))
    [] threshold.type = "number" /\ x.type = "text" ->
         IF x.reads # None /\ x.reads.type = "number" THEN x.reads ELSE Unreadable
    [] OTHER -> x

\* _coerce_observed; Unreadable if it raises ValueError.
CoerceObserved(x, threshold) ==
  CASE threshold.type = "truth" ->
         IF x.type = "text" /\ x.reads # None /\ x.reads.type = "truth" THEN x.reads ELSE Truth(Truthy(x))
    [] threshold.type = "number" /\ x.type = "text" ->
         IF x.reads # None /\ x.reads.type = "number" THEN x.reads ELSE Unreadable
    [] OTHER -> x

\* A truth value compares as 0 or 1.
AsNumber(x) == IF x.type = "truth" THEN (IF x.value THEN 1 ELSE 0) ELSE x.value

Comparable(x, threshold) ==
  \/ {x.type, threshold.type} \subseteq {"number", "truth"}
  \/ {x.type, threshold.type} = {"text"}

NumberSatisfies(m, op, n) ==
  \/ op = "==" /\ m = n
  \/ op = "!=" /\ m # n
  \/ op = ">=" /\ m >= n
  \/ op = ">" /\ m > n
  \/ op = "<=" /\ m <= n
  \/ op = "<" /\ m < n

TextSatisfies(a, op, b) ==
  \/ op \in {"==", ">=", "<="} /\ a = b
  \/ op = "!=" /\ a # b
  \/ op \in {"<", "<="} /\ TextBefore(a, b)
  \/ op \in {">", ">="} /\ TextBefore(b, a)

\* OPERATORS: values that do not compare are merely different.
Satisfies(x, op, t) ==
  \/ ~ Comparable(x, t) /\ op = "!="
  \/ Comparable(x, t) /\ x.type # "text" /\ NumberSatisfies(AsNumber(x), op, AsNumber(t))
  \/ Comparable(x, t) /\ x.type = "text" /\ TextSatisfies(x.value, op, t.value)

\* A metric is IllTyped if its text is neither a name nor a threshold expression;
\* "observed" is a function from metric names.
MetricStatus(metric, observed) ==
  IF metric = IllTyped THEN "invalid"
  ELSE IF metric.name \notin DOMAIN observed THEN "pending_evidence"
  ELSE LET x == CoerceObserved(observed[metric.name], metric.threshold)
       IN IF x = Unreadable THEN "invalid"
          ELSE IF metric.op \notin {"==", "!="} /\ ~ Comparable(x, metric.threshold) THEN "invalid"
          ELSE IF Satisfies(x, metric.op, metric.threshold) THEN "passed" ELSE "failed"

\* Results are kept by the eval's name, under "evals" by its name, or for all evals alike.
ResultsForEval(results, name) ==
  CASE name \in DOMAIN results.named -> results.named[name]
    [] name \notin DOMAIN results.named /\ name \in DOMAIN results.evals -> results.evals[name]
    [] OTHER -> results.metrics

NoResults == [named |-> << >>, evals |-> << >>, metrics |-> << >>]

(***************************************************************************)
(* Datasets.                                                               *)
(***************************************************************************)
\* An entry without a split is a holdout if its name says so, or the path that is all of it.
DatasetEntries(eval) ==
  LET declared == GetSet(eval, "datasets") \cup GetSet(eval, "holdouts")
      kept == IF Get(eval, "integrity") \in {None, IllTyped} THEN {} ELSE GetSet(eval.integrity, "holdout")
      entry(d, default) == [path |-> d.path, external |-> d.external,
                            split |-> IF Get(d, "split") # None THEN d.split ELSE default]
  IN {entry(d, IF d.saysHoldout THEN "holdout" ELSE "dataset") : d \in declared}
       \cup {entry(d, "holdout") : d \in kept}

DatasetStatus(d, files) ==
  IF d.external THEN "blocked" ELSE IF d.path \notin DOMAIN files THEN "missing"
  ELSE IF files[d.path] = IllTyped THEN "blocked" ELSE "hashed"

\* A holdout and a training set, both hashed, that share a line.
OverlapChecks(datasets, files) ==
  LET hashed == {d \in datasets : DatasetStatus(d, files) = "hashed"}
  IN {IF files[t.path] \cap files[h.path] # {} THEN "blocked" ELSE "passed"
        : t \in {d \in hashed : d.split \in TrainSplits}, h \in {d \in hashed : d.split \in HoldoutSplits}}

\* The statuses of an eval's integrity checks.
IntegrityChecks(eval, files) ==
  LET datasets == DatasetEntries(eval)
      declares(f) == Get(eval, f) # None \/
                     (Get(eval, "integrity") \notin {None, IllTyped} /\ Get(eval.integrity, f) # None)
      check(passed) == {IF passed THEN "passed" ELSE "warning"}
  IN UNION {
       check(\E d \in datasets : d.split \in HoldoutSplits),
       check(declares("contamination_checks")), check(declares("adversarial_rotation")), check(declares("baseline")),
       {"blocked" : d \in {x \in datasets : DatasetStatus(x, files) \in {"blocked", "missing"}}},
       OverlapChecks(datasets, files) }

WorstFirst == <<"blocked_integrity", "failed", "invalid", "pending_evidence", "passed_with_integrity_warnings">>

\* _eval_status and _overall_status: the worst there is.
WorstStatus(statuses) ==
  LET at == SelectInSeq(WorstFirst, LAMBDA s : s \in statuses)
  IN IF at = 0 THEN "passed" ELSE WorstFirst[at]

EvalStatus(metrics, integrity) ==
  WorstStatus(metrics \cup (IF "blocked" \in integrity THEN {"blocked_integrity"} ELSE {})
                      \cup (IF "warning" \in integrity THEN {"passed_with_integrity_warnings"} ELSE {}))

EvalReport(eval, observed, files) ==
  LET metrics == {MetricStatus(m, observed) : m \in GetSet(eval, "metrics")}
  IN EvalStatus(metrics, IntegrityChecks(eval, files))

\* evaluate_document_evals raises for a name that no eval of the document has.
UnknownEval(doc, names) == ~ names \subseteq Names(doc, "evals")

\* evaluate_document_evals, for names that are all known: no names selects every eval.
EvaluateDocumentEvals(doc, names, results, files) ==
  LET evals == NamedMapping(doc, "evals")
      selected == IF names = {} THEN DOMAIN evals ELSE names
      reports == [n \in selected |-> EvalReport(evals[n], ResultsForEval(results, n), files)]
  IN [status |-> WorstStatus(Range(reports)), evals |-> reports]
===============================================================================
