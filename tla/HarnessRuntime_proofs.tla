------------------------- MODULE HarnessRuntime_proofs -------------------------
(***************************************************************************)
(* Proofs about HarnessRuntime, for any documents, sources and repository  *)
(* and any number of commands.                                             *)
(***************************************************************************)
EXTENDS HarnessRuntime, WellFoundedInduction, FiniteSetTheorems, TLAPS

(***************************************************************************)
(* The files of one directory.                                             *)
(***************************************************************************)
\* Where a file stands in the order of writing.
Files == Range(RunFiles)
File(i) == out[RunFiles[i]]

\* What a file of a run is: torn, or whole with the digest of its run.
OfARun(f) == f.run \in 1..runs /\ f.whole \in BOOLEAN /\ (f.whole => f.digest = f.run)

\* A run writes its files in their order, so that an earlier file is never the older
\* one, and behind a file that is torn or missing nothing is of its run.
DirectoryInv ==
  /\ runs \in Nat /\ next \in 1..Len(RunFiles)
  /\ out \in [Files -> {Absent} \cup {f \in [run: Nat, whole: BOOLEAN, digest: Nat] : OfARun(f)}]
  /\ \A i, j \in DOMAIN RunFiles : i < j =>
       \/ File(j) = Absent
       \/ /\ File(j).run <= File(i).run
          /\ ~ File(i).whole => File(j).run < File(i).run
  /\ pc # "idle" => \A i \in DOMAIN RunFiles :
       IF i < next THEN File(i).run = runs /\ File(i).whole ELSE File(i).run < runs
  /\ pc # "writing" => next = 1

\* The names of the files are distinct.
LEMMA FileNames ==
  /\ Len(RunFiles) = 15 /\ DOMAIN RunFiles = 1..15
  /\ RunFiles[15] = "run_manifest" /\ RunFiles[7] = "trace_digest"
  /\ \A i, j \in 1..15 : RunFiles[i] = RunFiles[j] => i = j
  /\ \A i \in 1..15 : RunFiles[i] \in Files
  /\ \A f \in Files : \E i \in 1..15 : f = RunFiles[i]
<1>1. Len(RunFiles) = 15 /\ DOMAIN RunFiles = 1..15 /\ RunFiles[15] = "run_manifest" /\ RunFiles[7] = "trace_digest"
  BY DEF RunFiles
<1>2. \A i, j \in 1..15 : RunFiles[i] = RunFiles[j] => i = j
  BY SMTT(60) DEF RunFiles
<1>3. Files = {RunFiles[i] : i \in 1..15}
  BY <1>1 DEF Files, Range
<1> QED BY <1>1, <1>2, <1>3

\* Every file has the number of a run, 0 if it is missing.
LEMMA FileRuns ==
  ASSUME DirectoryInv, NEW i \in 1..15
  PROVE  /\ File(i).run \in Nat /\ File(i).run <= runs
         /\ File(i) = Absent \/ OfARun(File(i))
<1>1. RunFiles[i] \in Files /\ runs \in Nat
  BY FileNames DEF DirectoryInv
<1>2. File(i) = Absent \/ (OfARun(File(i)) /\ File(i).run \in Nat)
  BY <1>1 DEF DirectoryInv, File
<1> QED BY <1>1, <1>2 DEF Absent, OfARun

\* Nothing is written yet.
LEMMA DirectoryInit == Init => DirectoryInv
<1> SUFFICES ASSUME Init PROVE DirectoryInv
  OBVIOUS
<1>1. /\ runs = 0 /\ next = 1 /\ pc = "idle" /\ DOMAIN out = Files /\ \A f \in Files : out[f] = Absent
  BY DEF Init, Files
<1>2. out = [f \in Files |-> Absent]
  BY SMTT(30) DEF Init, Files
<1> QED BY <1>1, <1>2, FileNames DEF DirectoryInv, File

\* A command given, or ended without a write: files that were no younger than the
\* last run are older than the next.
LEMMA FilesStand ==
  ASSUME DirectoryInv, out' = out, runs' \in {runs, runs + 1},
         \/ pc' = "idle" /\ next' = 1
         \/ runs' = runs + 1 /\ pc' # "writing" /\ pc = "idle" /\ next' = next
         \/ runs' = runs /\ pc # "idle" /\ pc # "writing" /\ next' = next
         \/ UNCHANGED <<pc, runs, next>>
  PROVE  DirectoryInv'
<1> USE FileNames
<1>1. /\ runs \in Nat /\ runs' \in Nat /\ next \in 1..15 /\ next' \in 1..15
  BY DEF DirectoryInv
<1>2. \A i \in 1..15 : File(i)' = File(i)
  BY SMTT(30) DEF File
<1>3. \A i \in 1..15 : File(i) = Absent \/ (OfARun(File(i)) /\ File(i).run \in Nat)
  BY DEF DirectoryInv, File
<1>4. \A i \in 1..15 : File(i).run \in Nat /\ File(i).run <= runs
  BY <1>1, <1>3 DEF Absent, OfARun
<1>5. out' \in [Files -> {Absent} \cup {f \in [run: Nat, whole: BOOLEAN, digest: Nat] : OfARun(f)'}]
  BY <1>1 DEF DirectoryInv, OfARun
<1>6. \A i, j \in DOMAIN RunFiles : i < j =>
       \/ File(j)' = Absent
       \/ /\ File(j)'.run <= File(i)'.run
          /\ ~ File(i)'.whole => File(j)'.run < File(i)'.run
  BY <1>2 DEF DirectoryInv
<1>7. pc' # "idle" => \A i \in DOMAIN RunFiles :
       IF i < next' THEN File(i)'.run = runs' /\ File(i)'.whole ELSE File(i)'.run < runs'
  BY <1>1, <1>2, <1>4 DEF DirectoryInv
<1>8. pc' # "writing" => next' = 1
  BY SMTT(30) DEF DirectoryInv
<1> QED BY <1>1, <1>5, <1>6, <1>7, <1>8 DEF DirectoryInv

\* One more file, whole or torn, of the run under way.
LEMMA FilesGrow ==
  ASSUME DirectoryInv, pc = "writing", UNCHANGED runs,
         NEW f \in {g \in [run: Nat, whole: BOOLEAN, digest: Nat] : g.run = runs /\ OfARun(g)},
         out' = [out EXCEPT ![RunFiles[next]] = f],
         \/ pc' = "idle" /\ next' = 1
         \/ pc' = pc /\ next' = next + 1 /\ next < 15 /\ f.whole
  PROVE  DirectoryInv'
<1> USE FileNames
<1>1. /\ runs \in Nat /\ next \in 1..15 /\ next' \in 1..15 /\ runs' = runs
  BY DEF DirectoryInv
<1>2. DOMAIN out = Files /\ RunFiles[next] \in Files
  BY <1>1 DEF DirectoryInv
<1>3. \A i \in 1..15 : File(i)' = IF i = next THEN f ELSE File(i)
  BY <1>1, <1>2 DEF File
<1>4. out' \in [Files -> {Absent} \cup {g \in [run: Nat, whole: BOOLEAN, digest: Nat] : OfARun(g)'}]
  BY <1>1, <1>2 DEF DirectoryInv, OfARun
<1>5. \A i \in 1..15 : IF i < next THEN File(i).run = runs /\ File(i).whole ELSE File(i).run < runs
  BY DEF DirectoryInv
<1>6. \A i, j \in 1..15 : i < j =>
       \/ File(j) = Absent
       \/ /\ File(j).run <= File(i).run
          /\ ~ File(i).whole => File(j).run < File(i).run
  BY DEF DirectoryInv
<1>7. \A i, j \in 1..15 : i < j =>
       \/ File(j)' = Absent
       \/ /\ File(j)'.run <= File(i)'.run
          /\ ~ File(i)'.whole => File(j)'.run < File(i)'.run
  <2> TAKE i, j \in 1..15
  <2> HAVE i < j
  <2>0. /\ \A k \in 1..15 : File(k).run \in Nat
        /\ f.run = runs
    BY FileRuns
  <2>1. CASE j = next
    BY <1>3, <1>5, <2>0, <2>1
  <2>2. CASE i = next
    BY <1>1, <1>3, <1>5, <2>0, <2>2
  <2>3. CASE i # next /\ j # next
    BY <1>3, <1>6, <2>3
  <2> QED BY <2>1, <2>2, <2>3
<1>8. pc' # "idle" => \A i \in 1..15 :
       IF i < next' THEN File(i)'.run = runs' /\ File(i)'.whole ELSE File(i)'.run < runs'
  BY <1>1, <1>3, <1>5
<1> QED BY <1>1, <1>4, <1>7, <1>8, ZenonT(30) DEF DirectoryInv

\* Every step keeps the directory so.
LEMMA DirectoryStep == DirectoryInv /\ [Next]_vars => DirectoryInv'
<1> SUFFICES ASSUME DirectoryInv, [Next]_vars PROVE DirectoryInv'
  OBVIOUS
<1> USE DEF End
<1>0. runs \in Nat /\ next \in 1..15
  BY FileNames DEF DirectoryInv
<1>1. ASSUME NEW r, Give(r) PROVE DirectoryInv'
  BY <1>1, FilesStand DEF Give, Command, Call
<1>2. CASE ParseFails \/ Checked
  BY <1>2, FilesStand DEF ParseFails, Checked
<1>3. CASE SearchStep \/ UNCHANGED vars
  BY <1>3, FilesStand DEF SearchStep, runVars, vars
<1>4. CASE PolicyCheck \/ EvalRun \/ ConnectorPlan \/ ContextBuild \/ Readiness \/ StartRun
  <2>1. CASE PolicyCheck \/ EvalRun
    BY <2>1, FilesStand DEF PolicyCheck, EvalRun
  <2>2. CASE ConnectorPlan \/ ContextBuild \/ Readiness
    BY <2>2, FilesStand DEF ConnectorPlan, ContextBuild, Readiness
  <2>3. CASE StartRun
    BY <2>3, FilesStand DEF StartRun
  <2> QED BY <1>4, <2>1, <2>2, <2>3
<1>5. ASSUME pc = "writing", NEW whole \in BOOLEAN, NEW digest \in Nat, whole => digest = runs
      PROVE  LET f == [run |-> runs, whole |-> whole, digest |-> digest]
             IN  f \in {g \in [run: Nat, whole: BOOLEAN, digest: Nat] : g.run = runs /\ OfARun(g)}
  <2>1. File(15).run < runs \/ next = 16
    BY <1>0, <1>5, FileNames DEF DirectoryInv
  <2>2. runs >= 1
    BY <1>0, <2>1, FileRuns
  <2> QED BY <1>0, <1>5, <2>2 DEF OfARun
<1>6. CASE WriteFile
  <2>1. CASE Raises(RunFiles[next])
    BY <1>6, <2>1, FilesStand DEF WriteFile
  <2>2. CASE ~ Raises(RunFiles[next])
    <3>1. /\ out' = [out EXCEPT ![RunFiles[next]] = [run |-> runs, whole |-> TRUE, digest |-> runs]]
          /\ pc = "writing" /\ pc' = pc /\ next' = next + 1 /\ next < 15 /\ runs' = runs
      BY <1>6, <2>2, FileNames DEF WriteFile, Written
    <3> QED BY <1>0, <1>5, <3>1, FilesGrow
  <2> QED BY <2>1, <2>2
<1>7. CASE WriteManifest
  <2>1. CASE Raises("run_manifest")
    BY <1>7, <2>1, FilesStand DEF WriteManifest
  <2>2. CASE ~ Raises("run_manifest")
    <3>1. /\ out' = [out EXCEPT ![RunFiles[next]] = [run |-> runs, whole |-> TRUE, digest |-> runs]]
          /\ pc = "writing" /\ pc' = "idle" /\ next' = 1 /\ runs' = runs
      BY <1>7, <2>2, FileNames DEF WriteManifest, Written
    <3> QED BY <1>0, <1>5, <3>1, FilesGrow
  <2> QED BY <2>1, <2>2
<1>8. CASE Crash
  <2>1. CASE out' = out
    BY <1>8, <2>1, FilesStand DEF Crash
  <2>2. CASE out' # out
    <3>1. /\ out' = [out EXCEPT ![RunFiles[next]] = [run |-> runs, whole |-> FALSE, digest |-> 0]]
          /\ pc = "writing" /\ pc' = "idle" /\ next' = 1 /\ runs' = runs
      BY <1>8, <2>2 DEF Crash
    <3> QED BY <1>0, <1>5, <3>1, FilesGrow
  <2> QED BY <2>1, <2>2
<1> QED BY <1>1, <1>2, <1>3, <1>4, <1>6, <1>7, <1>8 DEF Next

\* The files of a directory stand in the order of their runs, however many commands
\* write into it and wherever they die.
THEOREM DirectoryInvariant == Spec => []DirectoryInv
BY DirectoryInit, DirectoryStep, PTL DEF Spec

\* The digest is the seventh file.
LEMMA DigestAt == SelectInSeq(RunFiles, LAMBDA f : f = "trace_digest") = 7
<1> DEFINE I == {i \in 1..15 : RunFiles[i] = "trace_digest"}
<1>1. I = {7}
  BY FileNames
<1>2. Min(I) = 7
  BY <1>1 DEF Min
<1> QED BY <1>1, <1>2, FileNames DEF SelectInSeq

\* A manifest that is whole beside a digest of the same run vouches for everything
\* between them, whatever was written into the directory before and after
\* (harness_runtime.py: the manifest comes last and holds no hashes).
THEOREM ManifestsVouch == Spec => []ManifestVouches
<1>1. DirectoryInv => ManifestVouches
  <2> SUFFICES ASSUME DirectoryInv, File(15).whole, File(7).whole, File(15).digest = File(7).digest,
                      NEW i \in 1..15
               PROVE  IF i < 7 THEN File(i).run >= File(15).run
                      ELSE File(i).whole /\ File(i).run = File(15).run
    BY DigestAt, FileNames DEF ManifestVouches, File
  <2>1. /\ File(15).run = File(7).run /\ File(15).run > 0 /\ File(15) # Absent
        /\ \A k \in 1..15 : File(k).run \in Nat
    BY FileRuns DEF OfARun, Absent
  <2>2. \A k, j \in 1..15 : k < j =>
          \/ File(j) = Absent
          \/ /\ File(j).run <= File(k).run
             /\ ~ File(k).whole => File(j).run < File(k).run
    BY FileNames DEF DirectoryInv
  <2>3. i < 15 => File(i).run >= File(15).run /\ (File(i).whole \/ File(15).run < File(i).run)
    BY <2>1, <2>2
  <2>4. 7 < i /\ File(i) # Absent => File(i).run <= File(7).run
    BY <2>1, <2>2
  <2> QED BY <2>1, <2>3, <2>4 DEF Absent
<1> QED BY <1>1, DirectoryInvariant, PTL

(***************************************************************************)
(* What the commands may rely on.                                          *)
(***************************************************************************)
Requests == FirstRequests \cup LaterRequests

\* The report that eval-run prints at the end of a request.
EvalResult(r) == EvaluateDocumentEvals(LoadNyx(r.file, Sources), r.evals, r.results, Repository)

\* The document of a command that goes on has parsed; of one that is checked it has no
\* error, and what is never checked is never marked so.
CommandInv ==
  /\ pc # "idle" => request \in Requests
  /\ pc \in {"checking", "reporting", "writing"} => Document # ParseError
  /\ pc = "checking" => request.command \notin {"readiness", "context-build"}
  /\ pc = "writing" => Harness # None /\ request.command = "harness-run"
  /\ checked => /\ pc \in {"reporting", "writing"}
                /\ request.command \notin {"readiness", "context-build"}
                /\ ~ HasErrors(CheckDocument(Document))

\* A report that was given is the one of its request.
ResultInv ==
  /\ CheckedDocumentsRun
  /\ result.outcome = "done" /\ result.command = "readiness" =>
       LET doc == LoadNyx(result.file, Sources)
       IN /\ doc # ParseError
          /\ \E r \in Requests : r.file = result.file
          /\ SelectHarness(doc, result.harness) # None
          /\ result.status = ReadinessStatus(doc, SelectHarness(doc, result.harness))
  /\ result.outcome = "done" /\ result.command = "eval-run" =>
       /\ LoadNyx(result.file, Sources) # ParseError
       /\ \E r \in Requests : r.file = result.file
       /\ ~ UnknownEval(LoadNyx(result.file, Sources), result.evals)
       /\ result.status = EvalResult(result).status

\* The least number of a set of indices.
LEMMA LeastOf ==
  ASSUME NEW n \in Nat, NEW I \in SUBSET (1..n), I # {}
  PROVE  Min(I) \in I /\ \A i \in I : Min(I) <= i
<1> DEFINE less == {p \in Nat \X Nat : p[1] < p[2]}
<1>1. IsWellFoundedOn(less, Nat)
  BY NatLessThanWellFounded DEF OpToRel
<1>2. PICK m \in I : \A i \in I : <<i, m>> \notin less
  <2> HIDE DEF less
  <2>1. I \subseteq Nat
    OBVIOUS
  <2> QED BY <1>1, <2>1, WFMin
<1>3. ASSUME NEW i \in I PROVE m <= i
  <2>1. i \in Nat /\ m \in Nat /\ <<i, m>> \notin less
    BY <1>2
  <2>2. <<i, m>> \in Nat \X Nat
    BY <2>1
  <2> QED BY <2>1, <2>2
<1> QED BY <1>3 DEF Min

\* The greatest number of a set of indices.
LEMMA GreatestOf ==
  ASSUME NEW n \in Nat, NEW I \in SUBSET (1..n), I # {}
  PROVE  Max(I) \in I /\ \A i \in I : i <= Max(I)
<1> DEFINE J == {n + 1 - i : i \in I}
<1>1. J \in SUBSET (1..n) /\ J # {}
  <2>1. ASSUME NEW j \in J PROVE j \in 1..n
    <3>1. PICK i \in I : j = n + 1 - i
      OBVIOUS
    <3> QED BY <3>1
  <2> QED BY <2>1
<1>2. PICK m \in I : n + 1 - m = Min(J)
  BY <1>1, LeastOf
<1>3. \A i \in I : n + 1 - m <= n + 1 - i
  <2> HIDE DEF J
  <2>1. \A j \in J : Min(J) <= j
    BY <1>1, LeastOf
  <2> QED BY <1>2, <2>1 DEF J
<1>4. \A i \in I : i <= m
  BY <1>3
<1> QED BY <1>4 DEF Max

\* A step of a known kind names something of that kind.
LEMMA KindIsNamed ==
  ASSUME NEW step, StepKind(step) # "unknown"
  PROVE  StepKind(step) \in DOMAIN step.names
<1> DEFINE I == {i \in 1..6 : StepKinds[i] \in DOMAIN step.names}
<1>0. Len(StepKinds) = 6
  BY DEF StepKinds
<1>1. I # {} /\ StepKind(step) = StepKinds[Min(I)]
  <2>1. Min(I) = 0 => I = {}
    BY LeastOf
  <2> QED BY <1>0, <2>1 DEF StepKind, SelectInSeq
<1>2. Min(I) \in I
  BY <1>1, LeastOf
<1> QED BY <1>1, <1>2

\* The harness that is found is one of the document.
LEMMA HarnessIsDeclared ==
  ASSUME NEW doc, NEW name, SelectHarness(doc, name) # None,
         Entries(doc, "harnesses") \in Seq(Range(Entries(doc, "harnesses")))
  PROVE  SelectHarness(doc, name) \in MappingSet(doc, "harnesses")
<1> DEFINE hs == Entries(doc, "harnesses")
           I == {i \in 1..Len(hs) : hs[i] # IllTyped /\ name \in {None, Get(hs[i], "name")}}
<1>1. I # {} /\ SelectHarness(doc, name) = hs[Min(I)]
  BY DEF SelectHarness, SelectInSeq
<1>2. Min(I) \in I
  <2>1. Len(hs) \in Nat
    OBVIOUS
  <2> QED BY <1>1, <2>1, LeastOf
<1>3. hs[Min(I)] \in Range(hs) /\ hs[Min(I)] # IllTyped
  <2>1. DOMAIN hs = 1..Len(hs)
    OBVIOUS
  <2> QED BY <1>2, <2>1 DEF Range
<1> QED BY <1>1, <1>3 DEF MappingSet

\* What load_nyx returns has the blocks that are looked into by name as lists.
LEMMA Listed ==
  ASSUME NEW r \in Requests, LoadNyx(r.file, Sources) # ParseError,
         NEW block \in {"harnesses", "evals", "agents", "policies", "capabilities"}
  PROVE  Entries(LoadNyx(r.file, Sources), block) \in Seq(Range(Entries(LoadNyx(r.file, Sources), block)))
BY DocumentsAssumption DEF Requests

\* A harness that is not found again, or an eval that is not there, the check rules out.
LEMMA NothingRaises ==
  ASSUME NEW doc, NEW name, NEW file, ~ HasErrors(CheckDocument(doc)),
         SelectHarness(doc, name) \in MappingSet(doc, "harnesses")
  PROVE  /\ Get(SelectHarness(doc, name), "name") # None
         /\ ~ UnknownEval(doc, EvalRefs(SelectHarness(doc, name)))
<1> DEFINE harness == SelectHarness(doc, name)
           steps == UNION {Range(Flow(h)) : h \in MappingSet(doc, "harnesses")}
           mapped == steps \ {IllTyped}
<1>1. /\ Err("MISSING_NAME") \notin CheckDocument(doc)
      /\ Err("UNKNOWN_EVAL_REFERENCE") \notin CheckDocument(doc)
  BY DEF HasErrors, Err
<1>2. Err("MISSING_NAME") \notin NamedEntries(doc) /\ Err("UNKNOWN_EVAL_REFERENCE") \notin HarnessReferences(doc)
  BY <1>1 DEF CheckDocument
<1>3. ~ \E b \in NamedListBlocks : \E e \in MappingSet(doc, b) : Get(e, "name") = None
  BY <1>2 DEF NamedEntries, When
<1>4. ~ \E s \in mapped : "eval" \in DOMAIN s.names /\ s.names["eval"] \notin Names(doc, "evals")
  BY <1>2 DEF HarnessReferences, When
<1>5. ASSUME NEW s \in Range(Flow(harness)), s # IllTyped, StepKind(s) = "eval"
      PROVE  StepRef(s) \in Names(doc, "evals")
  <2>1. s \in mapped
    BY <1>5
  <2>2. "eval" \in DOMAIN s.names /\ StepRef(s) = s.names["eval"]
    BY <1>5, KindIsNamed DEF StepRef
  <2> QED BY <1>4, <2>1, <2>2
<1> HIDE DEF harness
<1>6. EvalRefs(harness) \subseteq Names(doc, "evals")
  BY <1>5 DEF EvalRefs
<1>7. Get(harness, "name") # None
  BY <1>3 DEF NamedListBlocks, harness
<1> QED BY <1>6, <1>7 DEF UnknownEval, harness

\* A command goes on only with what its guards let through.
LEMMA CommandStep == CommandInv /\ [Next]_vars => CommandInv'
<1> SUFFICES ASSUME CommandInv, [Next]_vars PROVE CommandInv'
  OBVIOUS
<1> USE DEF CommandInv, Document, Harness
<1>0. ASSUME pc' = "idle", checked' = FALSE PROVE CommandInv'
  BY <1>0
<1>1. ASSUME NEW r \in Requests, Give(r) PROVE CommandInv'
  <2>1. CASE Command(r) /\ r.command \notin {"readiness", "context-build"}
    <3>1. ~ checked
      BY <2>1 DEF Command
    <3> QED BY <2>1, <3>1 DEF Command
  <2>2. CASE Call(r)
    <3>1. ~ checked
      BY <2>2 DEF Call
    <3> QED BY <2>2, <3>1 DEF Call
  <2> QED BY <1>1, <2>1, <2>2 DEF Give
<1>2. CASE ParseFails \/ PolicyCheck \/ EvalRun \/ ConnectorPlan \/ ContextBuild \/ Readiness
  BY <1>2, <1>0 DEF ParseFails, PolicyCheck, EvalRun, ConnectorPlan, ContextBuild, Readiness, End
<1>3. CASE SearchStep \/ UNCHANGED vars
  BY <1>3 DEF SearchStep, runVars, vars
<1>4. CASE Checked
  <2>1. CASE HasErrors(CheckDocument(Document))
    BY <1>4, <1>0, <2>1 DEF Checked, End
  <2>2. CASE ~ HasErrors(CheckDocument(Document))
    BY <1>4, <2>2 DEF Checked
  <2> QED BY <2>1, <2>2
<1>5. CASE StartRun
  <2>1. CASE Harness = None
    BY <1>5, <1>0, <2>1 DEF StartRun, End
  <2>2. CASE Harness # None
    BY <1>5, <2>2 DEF StartRun
  <2> QED BY <2>1, <2>2
<1>6. CASE WriteFile
  <2>1. CASE Raises(RunFiles[next])
    BY <1>6, <1>0, <2>1 DEF WriteFile, End
  <2>2. CASE ~ Raises(RunFiles[next])
    BY <1>6, <2>2 DEF WriteFile
  <2> QED BY <2>1, <2>2
<1>7. CASE WriteManifest \/ Crash
  BY <1>7, <1>0 DEF WriteManifest, Crash, End
<1> QED BY <1>1, <1>2, <1>3, <1>4, <1>5, <1>6, <1>7 DEF Next, Requests

\* Of the actions that a report copies, all are those of steps of the document.
LEMMA ActionsAreSteps ==
  ASSUME NEW doc, NEW value \in ConnectorActions(doc)
  PROVE  value \in UNION {Actions(h) : h \in MappingSet(doc, "harnesses")}
<1>1. PICK s \in UNION {Range(Flow(h)) \ {IllTyped} : h \in MappingSet(doc, "harnesses")} : value = s.action
  BY DEF ConnectorActions
<1>2. PICK h \in MappingSet(doc, "harnesses") : s \in Range(Flow(h)) \ {IllTyped}
  BY <1>1, ZenonT(30)
<1>3. value \in Actions(h)
  BY <1>1, <1>2 DEF Actions
<1> QED BY <1>3

\* What a harness run of a checked document raises once it writes comes of an unchecked value.
LEMMA CheckedRunsOn ==
  ASSUME CommandInv, pc = "writing", checked, NEW file, Raises(file)
  PROVE  Unchecked(request.command, Document, Harness)
<1>1. Harness \in MappingSet(Document, "harnesses") /\ request.command = "harness-run"
  BY Listed, HarnessIsDeclared DEF CommandInv, Harness, Document
<1>2. Get(Harness, "name") # None /\ ~ UnknownEval(Document, EvalRefs(Harness))
  BY <1>1, NothingRaises DEF CommandInv, Harness
<1>3. RepairsRaise(Harness) \/ Unwritable(file, Document, Harness)
  BY <1>2 DEF Raises, PolicyRaises
<1>4. CASE RepairsRaise(Harness)
  BY <1>1, <1>4 DEF RepairsRaise, Unchecked
<1>5. CASE Unwritable(file, Document, Harness)
  BY <1>1, <1>5, ActionsAreSteps DEF Unwritable, Unchecked
<1> QED BY <1>3, <1>4, <1>5

\* So does what the commands raise that only report.
LEMMA CheckedReportsOn ==
  ASSUME CommandInv, pc = "reporting", checked,
         \/ request.command = "policy-check" /\ Harness # None /\ Unwritable("policy_report", Document, Harness)
         \/ request.command = "connector-plan" /\ Unwritable("connector_report", Document, None)
  PROVE  Unchecked(request.command, Document, Harness)
<1>1. CASE request.command = "policy-check"
  <2>1. Harness \in MappingSet(Document, "harnesses") /\ NotJson \in Actions(Harness)
    BY <1>1, Listed, HarnessIsDeclared DEF CommandInv, Harness, Document, Unwritable
  <2> QED BY <1>1, <2>1 DEF Unchecked
<1>2. CASE request.command = "connector-plan"
  BY <1>2, ActionsAreSteps DEF Unwritable, Unchecked
<1> QED BY <1>1, <1>2

\* A result is recorded as its request asked for it.
LEMMA ResultStep == CommandInv /\ ResultInv /\ [Next]_vars => ResultInv'
<1> SUFFICES ASSUME CommandInv, ResultInv, [Next]_vars PROVE ResultInv'
  OBVIOUS
<1>0. ASSUME UNCHANGED result PROVE ResultInv'
  BY <1>0 DEF ResultInv, CheckedDocumentsRun, EvalResult
<1>1. ASSUME NEW outcome, NEW status, End(outcome, status),
             outcome = "raised" => ~ checked \/ Unchecked(request.command, Document, Harness),
             outcome = "done" => request.command \notin {"eval-run", "readiness"}
      PROVE  ResultInv'
  BY <1>1 DEF End, ResultInv, CheckedDocumentsRun, Document, Harness
<1>2. ASSUME NEW r, Give(r) PROVE ResultInv'
  BY <1>0, <1>2 DEF Give, Command, Call
<1>3. CASE ParseFails \/ PolicyCheck \/ ConnectorPlan \/ ContextBuild
  <2>1. CASE ParseFails
    BY <1>1, <2>1 DEF ParseFails
  <2>2. CASE PolicyCheck
    BY <1>1, <2>2, CheckedReportsOn DEF PolicyCheck
  <2>3. CASE ConnectorPlan
    BY <1>1, <2>3, CheckedReportsOn DEF ConnectorPlan
  <2>4. CASE ContextBuild
    BY <1>1, <2>4 DEF ContextBuild, CommandInv
  <2> QED BY <1>3, <2>1, <2>2, <2>3, <2>4
<1>4. CASE Readiness
  <2>1. ~ checked
    BY <1>4 DEF Readiness, CommandInv
  <2>2. CASE Harness = None \/ PolicyRaises \/ RepairsRaise(Harness)
    BY <1>1, <1>4, <2>1, <2>2 DEF Readiness
  <2>3. CASE ~ (Harness = None \/ PolicyRaises \/ RepairsRaise(Harness))
    <3> DEFINE status == ReadinessStatus(Document, Harness)
    <3>1. End("done", status) /\ pc = "reporting" /\ request.command = "readiness"
      BY <1>4, <2>3 DEF Readiness
    <3>2. /\ result'.outcome = "done" /\ result'.status = status /\ result'.command = "readiness"
          /\ result'.file = request.file /\ result'.harness = request.harness
      BY <3>1 DEF End
    <3>3. request \in Requests /\ Document # ParseError
      BY <3>1 DEF CommandInv
    <3>4. CheckedDocumentsRun'
      BY <3>2 DEF CheckedDocumentsRun
    <3> QED BY <2>3, <3>2, <3>3, <3>4 DEF ResultInv, Document, Harness
  <2> QED BY <2>2, <2>3
<1>5. CASE EvalRun
  <2>1. CASE UnknownEval(Document, request.evals)
    BY <1>1, <1>5, <2>1 DEF EvalRun
  <2>2. CASE ~ UnknownEval(Document, request.evals)
    <3> DEFINE status == EvaluateDocumentEvals(Document, request.evals, request.results, Repository).status
    <3>1. End("done", status) /\ pc = "reporting" /\ request.command = "eval-run"
      BY <1>5, <2>2 DEF EvalRun
    <3>2. /\ result'.outcome = "done" /\ result'.status = status /\ result'.command = "eval-run"
          /\ result'.file = request.file /\ result'.evals = request.evals /\ result'.results = request.results
      BY <3>1 DEF End
    <3>3. request \in Requests /\ Document # ParseError
      BY <3>1 DEF CommandInv
    <3>4. CheckedDocumentsRun'
      BY <3>2 DEF CheckedDocumentsRun
    <3> QED BY <2>2, <3>2, <3>3, <3>4 DEF ResultInv, Document, EvalResult
  <2> QED BY <2>1, <2>2
<1>6. CASE SearchStep \/ UNCHANGED vars
  BY <1>0, <1>6 DEF SearchStep, runVars, vars
<1>7. CASE Checked
  BY <1>0, <1>1, <1>7 DEF Checked
<1>8. CASE StartRun
  BY <1>0, <1>1, <1>8 DEF StartRun
<1>9. CASE WriteFile
  <2>1. CASE Raises(RunFiles[next])
    <3>1. ~ checked \/ Unchecked(request.command, Document, Harness)
      BY <1>9, <2>1, CheckedRunsOn DEF WriteFile
    <3> QED BY <1>1, <1>9, <2>1, <3>1 DEF WriteFile
  <2>2. CASE ~ Raises(RunFiles[next])
    BY <1>0, <1>9, <2>2 DEF WriteFile
  <2> QED BY <2>1, <2>2
<1>10. CASE WriteManifest \/ Crash
  BY <1>1, <1>10, CheckedRunsOn DEF WriteManifest, Crash, CommandInv
<1> QED BY <1>2, <1>3, <1>4, <1>5, <1>6, <1>7, <1>8, <1>9, <1>10 DEF Next

\* What is known of the command under way, and of the last result, stays so.
THEOREM CommandInvariant == Spec => [](CommandInv /\ ResultInv)
<1>1. Init => CommandInv /\ ResultInv
  BY DEF Init, CommandInv, ResultInv, CheckedDocumentsRun
<1> QED BY <1>1, CommandStep, ResultStep, PTL DEF Spec

\* A command on a document that check_document let through, harness-run between its files, raises
\* only because of a value that the check does not look at: an infinite repair bound, or one
\* without a JSON form that a report copies.
THEOREM CheckedRunsComplete == Spec => []CheckedDocumentsRun
<1>1. ResultInv => CheckedDocumentsRun
  BY DEF ResultInv
<1> QED BY <1>1, CommandInvariant, PTL

(***************************************************************************)
(* What a passed eval report means.                                        *)
(***************************************************************************)
Worse == {"blocked_integrity", "failed", "invalid", "pending_evidence"}
Earned == {"passed", "passed_with_integrity_warnings"}

\* The overall status is no better than the worst there is.
LEMMA WorstCounts ==
  ASSUME NEW statuses, WorstStatus(statuses) \in Earned
  PROVE  statuses \cap Worse = {}
<1> DEFINE I == {i \in 1..5 : WorstFirst[i] \in statuses}
<1>0. Len(WorstFirst) = 5
  BY DEF WorstFirst
<1>1. WorstStatus(statuses) = IF I # {} THEN WorstFirst[Min(I)] ELSE "passed"
  <2>1. I # {} => Min(I) \in 1..5
    BY LeastOf
  <2> QED BY <1>0, <2>1 DEF WorstStatus, SelectInSeq
<1> SUFFICES ASSUME NEW i \in 1..4, i \in I PROVE FALSE
  BY DEF Worse, WorstFirst
<1>2. Min(I) \in 1..4
  BY LeastOf
<1>3. WorstFirst[Min(I)] \in Worse
  BY <1>2 DEF WorstFirst, Worse
<1> QED BY <1>1, <1>3 DEF Worse, Earned

\* An eval passes only with metrics that all hold and without a blocked check.
LEMMA EvalEarned ==
  ASSUME NEW eval, NEW observed, NEW files, EvalReport(eval, observed, files) \notin Worse
  PROVE  /\ \A m \in GetSet(eval, "metrics") : MetricStatus(m, observed) = "passed"
         /\ "blocked" \notin IntegrityChecks(eval, files)
<1> DEFINE metrics == {MetricStatus(m, observed) : m \in GetSet(eval, "metrics")}
           integrity == IntegrityChecks(eval, files)
           all == metrics \cup (IF "blocked" \in integrity THEN {"blocked_integrity"} ELSE {})
                    \cup (IF "warning" \in integrity THEN {"passed_with_integrity_warnings"} ELSE {})
<1>1. WorstStatus(all) \notin Worse
  BY DEF EvalReport, EvalStatus
<1>2. WorstStatus(all) \in Earned \cup Worse
  <2> HIDE DEF all
  <2> DEFINE I == {i \in 1..5 : WorstFirst[i] \in all}
  <2>0. Len(WorstFirst) = 5
    BY DEF WorstFirst
  <2>1. I # {} => Min(I) \in 1..5
    BY LeastOf
  <2>2. WorstStatus(all) = "passed" \/ \E i \in 1..5 : WorstStatus(all) = WorstFirst[i]
    BY <2>0, <2>1 DEF WorstStatus, SelectInSeq
  <2> QED BY <2>2 DEF WorstFirst, Earned, Worse
<1>3. all \cap Worse = {}
  <2> HIDE DEF all
  <2> QED BY <1>1, <1>2, WorstCounts
<1>4. "blocked" \notin integrity
  BY <1>3 DEF Worse
<1>5. ASSUME NEW m \in GetSet(eval, "metrics") PROVE MetricStatus(m, observed) = "passed"
  <2>1. MetricStatus(m, observed) \notin Worse
    BY <1>3
  <2>2. MetricStatus(m, observed) \in {"invalid", "pending_evidence", "passed", "failed"}
    BY Zenon DEF MetricStatus
  <2> QED BY <2>1, <2>2 DEF Worse
<1> QED BY <1>4, <1>5

\* A yes or no is asked of what a text says, if it says either, and else of bool().
LEMMA TruthEarned ==
  ASSUME NEW y, NEW op, NEW t, t.type = "truth", Satisfies(CoerceObserved(y, t), op, t)
  PROVE  HoldsOf(y, op, t)
<1> DEFINE x == CoerceObserved(y, t)
<1>1. x.type = "truth" /\ x.value = Says(y)
  BY DEF CoerceObserved, Says, Truthy, Truth
<1> HIDE DEF x
<1>2. Comparable(x, t) /\ AsNumber(x) = OneIf(Says(y)) /\ AsNumber(t) = OneIf(t.value)
  BY <1>1 DEF Comparable, AsNumber, OneIf
<1>3. NumberSatisfies(OneIf(Says(y)), op, OneIf(t.value))
  BY <1>1, <1>2 DEF Satisfies, x
<1> QED BY <1>3 DEF HoldsOf

\* A number is compared with the number that was observed, as a truth value or in a text too.
LEMMA NumberEarned ==
  ASSUME NEW y, NEW op, NEW t, t.type = "number", CoerceObserved(y, t) # Unreadable,
         Satisfies(CoerceObserved(y, t), op, t)
  PROVE  HoldsOf(y, op, t)
<1> DEFINE x == CoerceObserved(y, t)
<1>1. x = IF y.type = "text" THEN (IF y.reads # None /\ y.reads.type = "number" THEN y.reads ELSE Unreadable) ELSE y
  BY DEF CoerceObserved
<1>2. x.type \in {"number", "truth"} => AsNumber(x) \in Numbers(y)
  BY <1>1 DEF Numbers, AsNumber, OneIf, Unreadable
<1>3. x # Unreadable /\ Satisfies(x, op, t)
  OBVIOUS
<1> QED BY <1>1, <1>2, <1>3 DEF HoldsOf, Satisfies, Comparable, AsNumber, Numbers

\* A text is compared with a text, and differs from all else.
LEMMA TextEarned ==
  ASSUME NEW y, NEW op, NEW t, t.type \notin {"truth", "number"}, Satisfies(CoerceObserved(y, t), op, t)
  PROVE  HoldsOf(y, op, t)
<1>1. CoerceObserved(y, t) = y
  BY DEF CoerceObserved
<1>2. Satisfies(y, op, t)
  BY <1>1
<1> QED BY <1>2 DEF HoldsOf, Satisfies, Comparable

\* A metric has passed only if its threshold holds of what was observed: of the truth value
\* that a text reads as, and not of its being there, whatever the operator.
LEMMA MetricEarned ==
  ASSUME NEW m, NEW observed, MetricStatus(m, observed) = "passed"
  PROVE  /\ m # IllTyped /\ m.name \in DOMAIN observed
         /\ HoldsOf(observed[m.name], m.op, m.threshold)
<1> DEFINE y == observed[m.name]
           t == m.threshold
           x == CoerceObserved(y, t)
<1>1. m # IllTyped /\ m.name \in DOMAIN observed
  BY DEF MetricStatus
<1>2. x # Unreadable /\ (m.op \in {"==", "!="} \/ Comparable(x, t)) /\ Satisfies(x, m.op, t)
  <2> HIDE DEF x
  <2>1. MetricStatus(m, observed) =
          IF x = Unreadable THEN "invalid"
          ELSE IF m.op \notin {"==", "!="} /\ ~ Comparable(x, m.threshold) THEN "invalid"
          ELSE IF Satisfies(x, m.op, m.threshold) THEN "passed" ELSE "failed"
    BY <1>1 DEF MetricStatus, x
  <2> QED BY <2>1
<1>3. HoldsOf(y, m.op, t)
  <2> HIDE DEF y, t
  <2>1. CASE t.type = "truth"
    BY <1>2, <2>1, TruthEarned
  <2>2. CASE t.type = "number"
    BY <1>2, <2>2, NumberEarned
  <2>3. CASE t.type \notin {"truth", "number"}
    BY <1>2, <2>3, TextEarned
  <2> QED BY <2>1, <2>2, <2>3
<1> QED BY <1>1, <1>3

\* The datasets of an eval that no integrity check blocks are files, and no line of a
\* training set is one of a holdout, whichever block the holdout is declared in.
LEMMA DatasetsEarned ==
  ASSUME NEW eval, NEW files, "blocked" \notin IntegrityChecks(eval, files)
  PROVE  DatasetsApart(eval, files)
<1> DEFINE declared == GetSet(eval, "datasets") \cup GetSet(eval, "holdouts")
           kept == IF Get(eval, "integrity") \in {None, IllTyped} THEN {} ELSE GetSet(eval.integrity, "holdout")
           entries == DatasetEntries(eval)
           splitOf(d, default) == IF Get(d, "split") # None THEN d.split ELSE default
           entry(d, default) == [path |-> d.path, external |-> d.external, split |-> splitOf(d, default)]
<1>1. /\ \A d \in declared : entry(d, IF d.saysHoldout THEN "holdout" ELSE "dataset") \in entries
      /\ \A d \in kept : entry(d, "holdout") \in entries
  BY DEF DatasetEntries
<1>2. /\ {"blocked" : d \in {y \in entries : DatasetStatus(y, files) \in {"blocked", "missing"}}} = {}
      /\ "blocked" \notin OverlapChecks(entries, files)
  BY DEF IntegrityChecks
<1> HIDE DEF entries
<1>3. \A d \in entries : DatasetStatus(d, files) \notin {"blocked", "missing"}
  BY <1>2
<1>4. ASSUME NEW d \in entries
      PROVE  DatasetStatus(d, files) = "hashed" /\ ~ d.external /\ d.path \in DOMAIN files /\ files[d.path] # IllTyped
  BY <1>3 DEF DatasetStatus
<1>5. ASSUME NEW h \in entries, NEW t \in entries, h.split \in HoldoutSplits, t.split \in TrainSplits
      PROVE  files[h.path] \cap files[t.path] = {}
  BY <1>2, <1>4, <1>5 DEF OverlapChecks
<1>6. ASSUME NEW d \in declared \cup kept
      PROVE  \E default \in {"holdout", "dataset"} :
               /\ entry(d, default) \in entries
               /\ (d \in kept \/ d.saysHoldout) => entry(d, "holdout") \in entries
  BY <1>1
<1>7. ASSUME NEW d, NEW default
      PROVE  /\ entry(d, default).path = d.path /\ entry(d, default).external = d.external
             /\ Get(d, "split") # None => entry(d, default).split = Get(d, "split")
             /\ Get(d, "split") = None => entry(d, default).split = default
  BY DEF Get
<1> HIDE DEF entry, declared, kept
<1>8. ASSUME NEW d \in declared \cup kept
      PROVE  ~ d.external /\ d.path \in DOMAIN files /\ files[d.path] # IllTyped
  BY <1>4, <1>6, <1>7
<1>9. ASSUME NEW h \in declared \cup kept, NEW t \in declared \cup kept, Get(t, "split") \in TrainSplits,
             \/ Get(h, "split") \in HoldoutSplits
             \/ Get(h, "split") = None /\ (h \in kept \/ h.saysHoldout)
      PROVE  files[h.path] \cap files[t.path] = {}
  <2>1. PICK e \in entries : e.path = t.path /\ e.split \in TrainSplits
    BY <1>6, <1>7, <1>9, SplitsAssumption
  <2>2. PICK e2 \in entries : e2.path = h.path /\ e2.split \in HoldoutSplits
    BY <1>6, <1>7, <1>9, SplitsAssumption DEF HoldoutSplits
  <2> QED BY <1>5, <2>1, <2>2
<1> QED BY <1>8, <1>9 DEF declared, kept, DatasetsApart

\* The entry kept under a name is one of that name.
LEMMA NamedEntry ==
  ASSUME NEW doc, NEW block, NEW n \in Names(doc, block),
         Entries(doc, block) \in Seq(Range(Entries(doc, block)))
  PROVE  NamedMapping(doc, block)[n].name = n
<1> DEFINE es == Entries(doc, block)
           I == {i \in 1..Len(es) : HasName(es[i], n)}
<1>1. Len(es) \in Nat /\ DOMAIN es = 1..Len(es)
  OBVIOUS
<1>2. PICK e \in MappingSet(doc, block) : Get(e, "name") = n /\ n # None
  BY DEF Names
<1>3. I # {}
  <2>1. PICK i \in 1..Len(es) : es[i] = e
    BY <1>1, <1>2 DEF MappingSet, Range
  <2>2. HasName(es[i], n)
    BY <1>2, <2>1 DEF MappingSet, HasName
  <2> QED BY <2>1, <2>2
<1>4. Max(I) \in I
  BY <1>1, <1>3, GreatestOf
<1>5. NamedMapping(doc, block)[n] = es[Max(I)]
  BY <1>3 DEF NamedMapping, SelectLastInSeq
<1>6. Get(es[Max(I)], "name") = n
  BY <1>4 DEF HasName
<1> QED BY <1>2, <1>5, <1>6 DEF Get

\* A report that says "passed" was earned by every eval asked for (eval_runtime.py).
THEOREM PassedEvalsAreEarned == Spec => []PassedIsEarned
<1>1. ResultInv => PassedIsEarned
  <2> DEFINE doc == LoadNyx(result.file, Sources)
             evals == NamedMapping(doc, "evals")
             selected == IF result.evals = {} THEN DOMAIN evals ELSE result.evals
             report(n) == EvalReport(evals[n], ResultsForEval(result.results, n), Repository)
             reports == [n \in selected |-> report(n)]
  <2>1. SUFFICES ASSUME ResultInv, result.outcome = "done", result.command = "eval-run",
                        result.status \in Earned, NEW n \in DOMAIN evals,
                        result.evals = {} \/ evals[n].name \in result.evals
                 PROVE  /\ MetricsHold(evals[n], ResultsForEval(result.results, evals[n].name))
                        /\ DatasetsApart(evals[n], Repository)
    BY Zenon DEF PassedIsEarned, Earned, Range
  <2>2. evals[n].name = n
    <3>1. PICK r \in Requests : r.file = result.file
      BY <2>1 DEF ResultInv
    <3>2. Entries(doc, "evals") \in Seq(Range(Entries(doc, "evals")))
      BY <2>1, <3>1, Listed DEF ResultInv
    <3>3. n \in Names(doc, "evals")
      BY <2>1 DEF NamedMapping
    <3> QED BY <3>2, <3>3, NamedEntry
  <2>3. report(n) \notin Worse
    <3>1. result.status = WorstStatus(Range(reports))
      BY <2>1 DEF ResultInv, EvalResult, EvaluateDocumentEvals
    <3>2. report(n) \in Range(reports)
      <4>1. n \in selected
        BY <2>1, <2>2
      <4> HIDE DEF report, selected
      <4> QED BY <4>1 DEF Range
    <3> HIDE DEF reports
    <3> QED BY <2>1, <3>1, <3>2, WorstCounts
  <2> HIDE DEF evals, doc
  <2>4. /\ \A m \in GetSet(evals[n], "metrics") : MetricStatus(m, ResultsForEval(result.results, n)) = "passed"
        /\ "blocked" \notin IntegrityChecks(evals[n], Repository)
    BY <2>3, EvalEarned
  <2> QED BY <2>2, <2>4, MetricEarned, DatasetsEarned DEF MetricsHold
<1> QED BY <1>1, CommandInvariant, PTL

(***************************************************************************)
(* What a readiness report that does not say "blocked" means.              *)
(***************************************************************************)
Unblocked(decisions) == "blocked" \notin Statuses(decisions)

\* A decision to block counts wherever it is collected.
LEMMA BlocksCount ==
  ASSUME NEW decisions, NEW code, Block(code) \subseteq decisions
  PROVE  ~ Unblocked(decisions)
<1>1. Decision("blocked", code) \in decisions
  BY DEF Block
<1>2. Decision("blocked", code).status = "blocked"
  BY DEF Decision
<1> QED BY <1>1, <1>2 DEF Unblocked, Statuses

\* What is conditioned has come out ready, if nothing blocks.
LEMMA ReadyIfReady ==
  ASSUME NEW decisions, Unblocked(decisions), NEW condition, NEW ready, NEW blocked,
         ReadyIf(condition, ready, blocked) \subseteq decisions
  PROVE  condition
<1> SUFFICES ASSUME ~ condition PROVE FALSE
  OBVIOUS
<1>1. Block(blocked) \subseteq decisions
  BY DEF ReadyIf
<1> QED BY <1>1, BlocksCount

\* What would block has not happened, if nothing blocks.
LEMMA BlockIfNot ==
  ASSUME NEW decisions, Unblocked(decisions), NEW condition, NEW code,
         BlockIf(condition, code) \subseteq decisions
  PROVE  ~ condition
<1> SUFFICES ASSUME condition PROVE FALSE
  OBVIOUS
<1>1. Block(code) \subseteq decisions
  BY DEF BlockIf
<1> QED BY <1>1, BlocksCount

\* The three reports that readiness rests on.
LEMMA ReadyMeans ==
  ASSUME NEW doc, NEW harness, ReadinessStatus(doc, harness) # "blocked"
  PROVE  /\ "requires_human_approval" \in NormalizeGates(harness)
         /\ ~ PolicyBlocked(doc, harness)
         /\ Unblocked(BuildAdapterConformanceReport(doc).decisions)
<1> DEFINE all == ReadinessDecisions(doc, harness)
           conformance == BuildAdapterConformanceReport(doc).decisions
<1>1. Unblocked(all)
  BY DEF ReadinessStatus, Verdict, Unblocked
<1>2. /\ (IF "requires_human_approval" \in NormalizeGates(harness) THEN NeedsHuman("APPROVAL_BEFORE_ACTION_REQUIRED")
          ELSE Block("APPROVAL_BEFORE_ACTION_GATE_MISSING")) \subseteq all
      /\ ReadyIf(~ PolicyBlocked(doc, harness), "POLICY_BLOCKS_ABSENT", "POLICY_BLOCKS_PRESENT") \subseteq all
      /\ ReadyIf("blocked" \notin Statuses(conformance),
                 "ADAPTER_CONFORMANCE_BLOCKS_ABSENT", "ADAPTER_CONFORMANCE_BLOCKS_PRESENT") \subseteq all
  BY DEF ReadinessDecisions
<1> HIDE DEF all, conformance
<1>3. "requires_human_approval" \in NormalizeGates(harness)
  BY <1>1, <1>2, BlocksCount
<1>4. ~ PolicyBlocked(doc, harness)
  BY <1>1, <1>2, ReadyIfReady
<1>5. "blocked" \notin Statuses(conformance)
  BY <1>1, <1>2, ReadyIfReady
<1> QED BY <1>3, <1>4, <1>5 DEF Unblocked, conformance

\* A gate that needs a human is one that asks for approval.
LEMMA GateAsksForApproval ==
  ASSUME NEW harness, "requires_human_approval" \in NormalizeGates(harness)
  PROVE  "approval" \in GetSet(harness, "gate") \cup GetSet(harness, "gates")
<1>1. PICK g \in GetSet(harness, "gate") \cup GetSet(harness, "gates") : GateStatus(g) = "requires_human_approval"
  BY DEF NormalizeGates
<1>2. g # "approval" => GateStatus(g) = "blocked" \/ GateStatus(g) = "pending_evidence"
  BY Zenon DEF GateStatus
<1> QED BY <1>1, <1>2

\* What an unblocked conformance report says of every adapter.
LEMMA AdaptersOnlyDescribe ==
  ASSUME NEW doc, Unblocked(BuildAdapterConformanceReport(doc).decisions),
         NEW a \in Range(NormalizeAdapters(doc))
  PROVE  a.mode = "contract_only" /\ ~ a.live /\ a.approval
<1> DEFINE all == BuildAdapterConformanceReport(doc).decisions
<1>1. UNION Range(AdapterContractReports(doc)) \subseteq all
  BY DEF BuildAdapterConformanceReport
<1>2. PICK i \in DOMAIN NormalizeAdapters(doc) : a = NormalizeAdapters(doc)[i]
  BY DEF Range
<1>3. AdapterContractReports(doc)[i] \in Range(AdapterContractReports(doc))
  BY DEF AdapterContractReports, Range
<1>4. AdapterContractDecisions(doc, a) \subseteq AdapterContractReports(doc)[i]
  BY <1>2 DEF AdapterContractReports
<1>5. AdapterContractDecisions(doc, a) \subseteq all
  BY <1>1, <1>3, <1>4
<1> HIDE DEF all
<1>6. /\ ReadyIf(a.mode = "contract_only", "ADAPTER_EXECUTION_MODE_CONTRACT_ONLY", "ADAPTER_EXECUTION_MODE_UNSAFE") \subseteq all
      /\ ReadyIf(~ a.live, "ADAPTER_LIVE_EXECUTION_DISABLED", "ADAPTER_LIVE_EXECUTION_ENABLED") \subseteq all
      /\ (IF a.approval THEN NeedsHuman("ADAPTER_CONNECTOR_APPROVAL_REQUIRED")
          ELSE Block("ADAPTER_CONNECTOR_APPROVAL_NOT_REQUIRED")) \subseteq all
  BY <1>5 DEF AdapterContractDecisions
<1>0. Unblocked(all)
  BY DEF all
<1>7. a.mode = "contract_only"
  BY <1>0, <1>6, ReadyIfReady
<1>8. ~ a.live
  BY <1>0, <1>6, ReadyIfReady
<1>9. a.approval
  BY <1>0, <1>6, BlocksCount
<1> QED BY <1>7, <1>8, <1>9

\* What an unblocked conformance report says of a connector that is there.
LEMMA ConnectorsOnlyDescribe ==
  ASSUME NEW doc, Unblocked(BuildAdapterConformanceReport(doc).decisions),
         NEW i \in DOMAIN NormalizeConnectors(doc)
  PROVE  LET c == NormalizeConnectors(doc)[i]
         IN /\ c.protocol \in {"mcp", "a2a"} /\ ~ c.live /\ c.mode \notin UnsafeDefaultModes
            /\ c.protocol = "a2a" => \A t \in c.share : Folded(t) \notin SensitiveShareTokens
            /\ ~ Repeated(NormalizeConnectors(doc), i)
<1> DEFINE all == BuildAdapterConformanceReport(doc).decisions
           connectors == NormalizeConnectors(doc)
           c == connectors[i]
<1>1. UNION Range(AdapterReports(connectors)) \subseteq all
  BY DEF BuildAdapterConformanceReport, ConnectorReportDecisions
<1>2. AdapterReports(connectors)[i] \in Range(AdapterReports(connectors))
  BY DEF AdapterReports, Range
<1>3. /\ ConnectorDecisions(c) \subseteq all
      /\ BlockIf(Repeated(connectors, i), "CONNECTOR_DUPLICATE_NAME") \subseteq all
  BY <1>1, <1>2 DEF AdapterReports
<1>0. Unblocked(all)
  OBVIOUS
<1> HIDE DEF all, connectors, c
<1>4. /\ ReadyIf(c.protocol \in SupportedProtocols, "CONNECTOR_PROTOCOL_SUPPORTED", "CONNECTOR_PROTOCOL_UNSUPPORTED") \subseteq all
      /\ (IF c.mode \in UnsafeDefaultModes THEN Block("CONNECTOR_DEFAULT_MODE_UNSAFE")
          ELSE IF c.mode \in SafeDefaultModes THEN Ready("CONNECTOR_DEFAULT_MODE_SAFE")
          ELSE Warning("CONNECTOR_DEFAULT_MODE_UNKNOWN")) \subseteq all
      /\ BlockIf(c.live, "CONNECTOR_LIVE_TARGET_DECLARED") \subseteq all
      /\ BlockIf(c.protocol = "a2a" /\ {Folded(s) : s \in c.share} \cap SensitiveShareTokens # {},
                 "A2A_SENSITIVE_SHARE_BLOCKED") \subseteq all
  BY <1>3 DEF ConnectorDecisions
<1>5. c.protocol \in SupportedProtocols
  <2> DEFINE supported == c.protocol \in SupportedProtocols
  <2>1. ReadyIf(supported, "CONNECTOR_PROTOCOL_SUPPORTED", "CONNECTOR_PROTOCOL_UNSUPPORTED") \subseteq all
    BY <1>4
  <2> HIDE DEF supported
  <2>2. supported
    BY <1>0, <2>1, ReadyIfReady
  <2> QED BY <2>2 DEF supported
<1>6. c.mode \notin UnsafeDefaultModes
  BY <1>0, <1>4, BlocksCount
<1>7. ~ c.live
  BY <1>0, <1>4, BlockIfNot
<1>8. ~ (c.protocol = "a2a" /\ {Folded(s) : s \in c.share} \cap SensitiveShareTokens # {})
  BY <1>0, <1>4, BlockIfNot
<1>9. ~ Repeated(connectors, i)
  BY <1>0, <1>3, BlockIfNot
<1> QED BY <1>5, <1>6, <1>7, <1>8, <1>9 DEF SupportedProtocols, connectors, c

\* Every connector that a step of a harness names has a manifest of that very name.
LEMMA ReferencesDeclared ==
  ASSUME NEW doc, Unblocked(BuildAdapterConformanceReport(doc).decisions),
         NEW harness \in MappingSet(doc, "harnesses"), NEW s \in Range(Flow(harness)), s # IllTyped,
         "connector" \in DOMAIN s.names, s.names["connector"] # None
  PROVE  \E i \in DOMAIN NormalizeConnectors(doc) : NormalizeConnectors(doc)[i].name = s.names["connector"]
<1> DEFINE all == BuildAdapterConformanceReport(doc).decisions
           connectors == NormalizeConnectors(doc)
           ref == s.names["connector"]
<1>1. ReferenceReports(ConnectorRefs(doc), connectors) \subseteq all
  <2>1. ConnectorReportDecisions(doc) \subseteq all
    BY DEF BuildAdapterConformanceReport
  <2>2. ReferenceReports(ConnectorRefs(doc), connectors) \subseteq ConnectorReportDecisions(doc)
    BY Zenon DEF ConnectorReportDecisions
  <2> QED BY <2>1, <2>2
<1>2. ref \in ConnectorRefs(doc)
  BY DEF ConnectorRefs
<1>0. Unblocked(all)
  OBVIOUS
<1> HIDE DEF all, connectors, ref
<1> DEFINE declared == ref \in {c.name : c \in Range(connectors)}
<1>3. ReadyIf(declared, "CONNECTOR_MANIFEST_DECLARED", "CONNECTOR_MANIFEST_NOT_DECLARED") \subseteq all
  BY <1>1, <1>2 DEF ReferenceReports
<1>4. declared
  <2> HIDE DEF declared
  <2> QED BY <1>0, <1>3, ReadyIfReady
<1> QED BY <1>4 DEF Range, connectors, ref

\* Of several manifests with one name, whatever the case of its letters, all but the first block.
LEMMA ManifestsAreSingle ==
  ASSUME NEW doc, Unblocked(BuildAdapterConformanceReport(doc).decisions),
         DOMAIN ConnectorSources(doc) \subseteq Nat \ {0},
         NEW i \in DOMAIN NormalizeConnectors(doc), NEW j \in DOMAIN NormalizeConnectors(doc),
         Folded(NormalizeConnectors(doc)[i].name) = Folded(NormalizeConnectors(doc)[j].name)
  PROVE  i = j
<1>1. i \in Nat \ {0} /\ j \in Nat \ {0}
  BY DEF NormalizeConnectors
<1>2. ~ Repeated(NormalizeConnectors(doc), i) /\ ~ Repeated(NormalizeConnectors(doc), j)
  BY ConnectorsOnlyDescribe
<1>3. ~ (j < i)
  BY <1>1, <1>2 DEF Repeated
<1>4. ~ (i < j)
  BY <1>1, <1>2 DEF Repeated
<1> QED BY <1>1, <1>3, <1>4

\* The step of a plan without a block is of a known kind.
LEMMA StepsAreKnown ==
  ASSUME NEW doc, NEW harness, ~ PolicyBlocked(doc, harness), NEW s \in Range(Flow(harness))
  PROVE  /\ StepDecision(doc, s).status # "blocked"
         /\ s # IllTyped /\ StepKind(s) # "unknown" /\ DOMAIN s.names # {}
<1>1. PICK i \in DOMAIN Flow(harness) : s = Flow(harness)[i]
  BY DEF Range
<1>2. StepDecision(doc, s) \in Range(PolicyDecisions(doc, harness))
  BY <1>1 DEF PolicyDecisions, Range
<1>3. StepDecision(doc, s).status # "blocked"
  BY <1>2 DEF PolicyBlocked
<1>4. s # IllTyped
  <2> SUFFICES ASSUME s = IllTyped PROVE FALSE
    OBVIOUS
  <2>1. StepDecision(doc, s) = Decision("blocked", "INVALID_FLOW_STEP")
    BY DEF StepDecision
  <2> QED BY <1>3, <2>1 DEF Decision
<1>5. StepKind(s) # "unknown"
  <2> SUFFICES ASSUME StepKind(s) = "unknown" PROVE FALSE
    OBVIOUS
  <2>1. StepDecision(doc, s) = Decision("blocked", "UNKNOWN_FLOW_STEP")
    BY <1>4 DEF StepDecision, CapabilityKinds
  <2> QED BY <1>3, <2>1 DEF Decision
<1> QED BY <1>3, <1>4, <1>5, KindIsNamed

\* A tool, connector or model step of a plan without a block is decided on its capability.
LEMMA CapabilitySteps ==
  ASSUME NEW doc, NEW s, s # IllTyped, StepKind(s) \in CapabilityKinds,
         StepDecision(doc, s).status # "blocked"
  PROVE  /\ CapabilityFor(doc, StepKind(s), StepRef(s)) # None
         /\ ActionAllowed(s.action, CapabilityFor(doc, StepKind(s), StepRef(s)))
         /\ StepKind(s) \in ExternalCapabilityKinds => GuardrailChecks(doc) \cap ExternalGuardrails # {}
<1> DEFINE kind == StepKind(s)
           capability == CapabilityFor(doc, kind, StepRef(s))
<1>1. StepDecision(doc, s) = CapabilityDecision(doc, s)
  BY DEF StepDecision, CapabilityKinds
<1>2. CapabilityDecision(doc, s).status # "blocked"
  BY <1>1
<1> HIDE DEF capability, kind
<1>3. CapabilityDecision(doc, s) =
        CASE capability = None -> Decision("blocked", "CAPABILITY_NOT_DECLARED")
          [] capability # None /\ ~ ActionAllowed(s.action, capability) ->
               Decision("blocked", "CAPABILITY_ACTION_DENIED")
          [] /\ capability # None /\ ActionAllowed(s.action, capability)
             /\ kind \in ExternalCapabilityKinds /\ GuardrailChecks(doc) \cap ExternalGuardrails = {} ->
               Decision("blocked", "GUARDRAIL_REQUIRED_FOR_EXTERNAL_USE")
          [] OTHER -> IF capability.approval
                      THEN Decision("requires_human_approval", "CAPABILITY_APPROVAL_REQUIRED")
                      ELSE Decision("allowed", "CAPABILITY_ALLOWED")
  BY DEF CapabilityDecision, capability, kind
<1>4. capability # None
  <2> SUFFICES ASSUME capability = None PROVE FALSE
    OBVIOUS
  <2>1. CapabilityDecision(doc, s) = Decision("blocked", "CAPABILITY_NOT_DECLARED")
    BY <1>3
  <2> QED BY <1>2, <2>1 DEF Decision
<1>5. ActionAllowed(s.action, capability)
  <2> SUFFICES ASSUME ~ ActionAllowed(s.action, capability) PROVE FALSE
    OBVIOUS
  <2>1. CapabilityDecision(doc, s) = Decision("blocked", "CAPABILITY_ACTION_DENIED")
    BY <1>3, <1>4
  <2> QED BY <1>2, <2>1 DEF Decision
<1>6. kind \in ExternalCapabilityKinds => GuardrailChecks(doc) \cap ExternalGuardrails # {}
  <2> SUFFICES ASSUME kind \in ExternalCapabilityKinds, GuardrailChecks(doc) \cap ExternalGuardrails = {}
               PROVE  FALSE
    OBVIOUS
  <2>1. CapabilityDecision(doc, s) = Decision("blocked", "GUARDRAIL_REQUIRED_FOR_EXTERNAL_USE")
    BY <1>3, <1>4, <1>5
  <2> QED BY <1>2, <2>1 DEF Decision
<1> QED BY <1>4, <1>5, <1>6 DEF capability, kind

\* A capability that is found is the last declaration of its kind and name.
LEMMA FoundIsDeclared ==
  ASSUME NEW doc, NEW kind \in CapabilityKinds, NEW ref, NEW action,
         Entries(doc, "capabilities") \in Seq(Range(Entries(doc, "capabilities"))),
         CapabilityFor(doc, kind, ref) # None, ActionAllowed(action, CapabilityFor(doc, kind, ref))
  PROVE  Declared(doc, kind, ref, action)
<1> DEFINE items == Entries(doc, "capabilities")
           I == {i \in 1..Len(items) : items[i] # IllTyped /\ Capability(items[i]).kind = kind
                                                           /\ Capability(items[i]).name = ref}
           same(c) == c # IllTyped /\ Get(c, "name") = ref /\
                      (Get(c, "kind") = kind \/ (kind = "tool" /\ Get(c, "kind") \notin CapabilityKinds))
<1>1. Len(items) \in Nat /\ DOMAIN items = 1..Len(items)
  OBVIOUS
<1>2. I # {} /\ CapabilityFor(doc, kind, ref) = Capability(items[Max(I)])
  BY DEF CapabilityFor, SelectLastInSeq
<1>3. Max(I) \in I /\ \A i \in I : i <= Max(I)
  BY <1>1, <1>2, GreatestOf
<1>4. ASSUME NEW i \in 1..Len(items) PROVE i \in I <=> same(items[i])
  <2> HIDE DEF items
  <2>1. Capability(items[i]).name = Get(items[i], "name")
    BY DEF Capability
  <2>2. Capability(items[i]).kind = IF Get(items[i], "kind") \in CapabilityKinds THEN Get(items[i], "kind") ELSE "tool"
    BY DEF Capability
  <2> QED BY <2>1, <2>2 DEF CapabilityKinds
<1> DEFINE at == Max(I)
<1>5. at \in DOMAIN items /\ same(items[at]) /\ \A j \in DOMAIN items : j > at => ~ same(items[j])
  <2> HIDE DEF I, at, same, items
  <2>1. at \in I /\ \A i \in I : i <= at
    BY <1>3 DEF at
  <2>2. I \subseteq 1..Len(items)
    BY DEF I
  <2> QED BY <1>1, <1>4, <2>1, <2>2
<1>6. ActionAllowed(action, Capability(items[at]))
  BY <1>2
<1> HIDE DEF at, I
<1>7. \/ GetSet(items[at], "allow") = {}
      \/ GetSet(items[at], "allow") \cap {"*", IF action = None THEN "use" ELSE action} # {}
  BY <1>6 DEF ActionAllowed, Capability, GetSet
<1> QED BY <1>5, <1>7 DEF Declared

\* The entry of a name that counts is the one the name is looked up to.
LEMMA CountingIsNamed ==
  ASSUME NEW doc, NEW block, NEW name, NEW e \in Counting(doc, block, name),
         Entries(doc, block) \in Seq(Range(Entries(doc, block)))
  PROVE  name \in DOMAIN NamedMapping(doc, block) /\ NamedMapping(doc, block)[name] = e
<1> DEFINE es == Entries(doc, block)
           I == {i \in 1..Len(es) : HasName(es[i], name)}
<1>1. Len(es) \in Nat /\ DOMAIN es = 1..Len(es)
  OBVIOUS
<1>2. PICK i \in DOMAIN es : /\ name # None /\ HasName(es[i], name) /\ e = es[i]
                             /\ \A j \in DOMAIN es : HasName(es[j], name) => j <= i
  BY DEF Counting
<1>3. name \in Names(doc, block)
  <2>1. es[i] \in MappingSet(doc, block)
    BY <1>2 DEF MappingSet, Range, HasName
  <2> QED BY <1>2, <2>1 DEF Names, HasName
<1>4. i \in I /\ \A j \in I : j <= i
  BY <1>1, <1>2
<1>5. Max(I) = i
  <2>1. Max(I) \in I /\ \A j \in I : j <= Max(I)
    BY <1>1, <1>4, GreatestOf
  <2> HIDE DEF I
  <2>2. Max(I) <= i /\ i <= Max(I)
    BY <1>4, <2>1
  <2>3. i \in Nat /\ Max(I) \in Nat
    BY <1>1, <1>2, <2>1 DEF I
  <2> QED BY <2>2, <2>3
<1>6. NamedMapping(doc, block)[name] = es[Max(I)]
  BY <1>3, <1>4 DEF NamedMapping, SelectLastInSeq
<1> QED BY <1>2, <1>3, <1>5, <1>6 DEF NamedMapping

\* An agent's step that is not blocked does nothing that its policy denies.
LEMMA AgentsKeepPolicy ==
  ASSUME NEW doc, NEW s, s # IllTyped, StepKind(s) = "agent", StepDecision(doc, s).status # "blocked",
         Entries(doc, "agents") \in Seq(Range(Entries(doc, "agents"))),
         Entries(doc, "policies") \in Seq(Range(Entries(doc, "policies"))),
         NEW a \in Counting(doc, "agents", s.names["agent"]),
         NEW p \in Counting(doc, "policies", Get(a, "policy")),
         NEW rule \in GetSet(p, "deny")
  PROVE  rule \cap s.words \cap TextTokens = {}
<1> DEFINE agents == NamedMapping(doc, "agents")
           policies == NamedMapping(doc, "policies")
           policy == Get(a, "policy")
<1>1. StepRef(s) \in DOMAIN agents /\ agents[StepRef(s)] = a
  BY CountingIsNamed DEF StepRef
<1>2. policy \in DOMAIN policies /\ policies[policy] = p
  BY CountingIsNamed
<1>3. StepDecision(doc, s) = AgentDecision(doc, s)
  BY DEF StepDecision, CapabilityKinds
<1> HIDE DEF agents, policies, policy
<1>4. AgentDecision(doc, s) =
        IF policy \in DOMAIN policies /\ \E x \in DenyRules(policies[policy]) : MatchesDenyRule(x, s)
        THEN Decision("blocked", "POLICY_DENY_MATCHED") ELSE Decision("planned", "POLICY_RECORDED")
  BY <1>1 DEF AgentDecision, agents, policies, policy
<1>5. ~ \E x \in DenyRules(p) : MatchesDenyRule(x, s)
  BY <1>2, <1>3, <1>4 DEF Decision
<1>6. rule \in DenyRules(p)
  BY DEF DenyRules
<1> QED BY <1>5, <1>6 DEF MatchesDenyRule

\* What ReadyIsGuarded says of one step.
StepIsGuarded(doc, s) ==
  LET connectors == NormalizeConnectors(doc)
      manifests(name) == {i \in DOMAIN connectors : Folded(connectors[i].name) = Folded(name)}
      guardrails == UNION {GetSet(g, "validate") : g \in MappingSet(doc, "guardrails")}
  IN /\ s # IllTyped /\ DOMAIN s.names # {}
     /\ \A kind \in CapabilityKinds : StepKind(s) = kind =>
          /\ Declared(doc, kind, s.names[kind], s.action)
          /\ kind # "tool" => guardrails \cap ExternalGuardrails # {}
     /\ "connector" \in DOMAIN s.names /\ s.names["connector"] # None =>
          /\ Cardinality(manifests(s.names["connector"])) = 1
          /\ \A i \in manifests(s.names["connector"]) :
               LET c == connectors[i]
               IN /\ c.name = s.names["connector"] /\ c.protocol \in {"mcp", "a2a"} /\ ~ c.live
                  /\ c.mode \notin UnsafeDefaultModes
                  /\ c.protocol = "a2a" => \A t \in c.share : Folded(t) \notin SensitiveShareTokens
     /\ StepKind(s) = "agent" =>
          \A a \in Counting(doc, "agents", s.names["agent"]) :
            \A p \in Counting(doc, "policies", Get(a, "policy")) :
              \A rule \in GetSet(p, "deny") : rule \cap s.words \cap TextTokens = {}

\* The document of a report, and the harness that was found in it.
Reported(doc, harness) ==
  /\ \A block \in {"harnesses", "agents", "policies", "capabilities"} :
       Entries(doc, block) \in Seq(Range(Entries(doc, block)))
  /\ DOMAIN ConnectorSources(doc) \subseteq Nat \ {0}
  /\ harness \in MappingSet(doc, "harnesses")

\* The one manifest of a connector that a step names.
LEMMA ManifestOfStep ==
  ASSUME NEW doc, NEW harness, Reported(doc, harness), Unblocked(BuildAdapterConformanceReport(doc).decisions),
         NEW s \in Range(Flow(harness)), s # IllTyped,
         "connector" \in DOMAIN s.names, s.names["connector"] # None
  PROVE  LET manifests == {i \in DOMAIN NormalizeConnectors(doc) :
                             Folded(NormalizeConnectors(doc)[i].name) = Folded(s.names["connector"])}
         IN /\ Cardinality(manifests) = 1
            /\ \A i \in manifests : NormalizeConnectors(doc)[i].name = s.names["connector"]
<1> DEFINE connectors == NormalizeConnectors(doc)
           ref == s.names["connector"]
           manifests == {i \in DOMAIN connectors : Folded(connectors[i].name) = Folded(ref)}
<1>1. PICK k \in DOMAIN connectors : connectors[k].name = ref
  BY ReferencesDeclared DEF Reported
<1>2. ASSUME NEW i \in manifests PROVE i = k
  <2>1. i \in DOMAIN connectors /\ Folded(connectors[i].name) = Folded(connectors[k].name)
    BY <1>1
  <2> QED BY <1>1, <2>1, ManifestsAreSingle DEF Reported
<1>3. manifests = {k}
  BY <1>1, <1>2
<1>4. Cardinality({k}) = 1
  BY FS_Singleton
<1> QED BY <1>1, <1>3, <1>4

\* Each step of a report that is not blocked.
LEMMA StepsAreGuarded ==
  ASSUME NEW doc, NEW harness, Reported(doc, harness), ReadinessStatus(doc, harness) # "blocked",
         NEW s \in Range(Flow(harness))
  PROVE  StepIsGuarded(doc, s)
<1>1. ~ PolicyBlocked(doc, harness) /\ Unblocked(BuildAdapterConformanceReport(doc).decisions)
  BY ReadyMeans
<1>2. /\ StepDecision(doc, s).status # "blocked"
      /\ s # IllTyped /\ StepKind(s) # "unknown" /\ DOMAIN s.names # {}
  BY <1>1, StepsAreKnown
<1>3. ASSUME NEW kind \in CapabilityKinds, StepKind(s) = kind
      PROVE  /\ Declared(doc, kind, s.names[kind], s.action)
             /\ kind # "tool" => GuardrailChecks(doc) \cap ExternalGuardrails # {}
  <2>1. StepRef(s) = s.names[kind]
    BY <1>2, <1>3 DEF StepRef
  <2>2. /\ CapabilityFor(doc, kind, StepRef(s)) # None
        /\ ActionAllowed(s.action, CapabilityFor(doc, kind, StepRef(s)))
        /\ kind \in ExternalCapabilityKinds => GuardrailChecks(doc) \cap ExternalGuardrails # {}
    BY <1>2, <1>3, CapabilitySteps
  <2>3. Declared(doc, kind, StepRef(s), s.action)
    BY <2>2, FoundIsDeclared DEF Reported
  <2>4. kind # "tool" => kind \in ExternalCapabilityKinds
    BY DEF CapabilityKinds, ExternalCapabilityKinds
  <2> QED BY <2>1, <2>2, <2>3, <2>4
<1>4. ASSUME "connector" \in DOMAIN s.names, s.names["connector"] # None
      PROVE  LET connectors == NormalizeConnectors(doc)
                 manifests == {i \in DOMAIN connectors : Folded(connectors[i].name) = Folded(s.names["connector"])}
             IN /\ Cardinality(manifests) = 1
                /\ \A i \in manifests :
                     LET c == connectors[i]
                     IN /\ c.name = s.names["connector"] /\ c.protocol \in {"mcp", "a2a"} /\ ~ c.live
                        /\ c.mode \notin UnsafeDefaultModes
                        /\ c.protocol = "a2a" => \A t \in c.share : Folded(t) \notin SensitiveShareTokens
  BY <1>1, <1>2, <1>4, ManifestOfStep, ConnectorsOnlyDescribe
<1>5. ASSUME StepKind(s) = "agent", NEW a \in Counting(doc, "agents", s.names["agent"]),
             NEW p \in Counting(doc, "policies", Get(a, "policy")), NEW rule \in GetSet(p, "deny")
      PROVE  rule \cap s.words \cap TextTokens = {}
  BY <1>2, <1>5, AgentsKeepPolicy DEF Reported
<1> QED BY <1>2, <1>3, <1>4, <1>5 DEF StepIsGuarded, GuardrailChecks

\* A readiness report that is not blocked keeps what the security model asks for
\* (bounded_execution.py, policy_runtime.py, connector_runtime.py).
THEOREM ReadinessIsGuarded == Spec => []ReadyIsGuarded
<1>1. ResultInv => ReadyIsGuarded
  <2> DEFINE doc == LoadNyx(result.file, Sources)
             harness == SelectHarness(doc, result.harness)
  <2> SUFFICES ASSUME ResultInv, result.outcome = "done", result.command = "readiness",
                      result.status # "blocked"
               PROVE  /\ "approval" \in GetSet(harness, "gate") \cup GetSet(harness, "gates")
                      /\ \A a \in Range(NormalizeAdapters(doc)) : a.mode = "contract_only" /\ ~ a.live /\ a.approval
                      /\ \A s \in Range(Flow(harness)) : StepIsGuarded(doc, s)
    BY Zenon DEF ReadyIsGuarded, StepIsGuarded
  <2>1. /\ doc # ParseError /\ harness # None /\ ReadinessStatus(doc, harness) # "blocked"
        /\ \E r \in Requests : r.file = result.file
    BY DEF ResultInv
  <2>2. Reported(doc, harness)
    <3>1. PICK r \in Requests : r.file = result.file
      BY <2>1
    <3>2. /\ \A block \in {"harnesses", "agents", "policies", "capabilities"} :
               Entries(doc, block) \in Seq(Range(Entries(doc, block)))
          /\ DOMAIN ConnectorSources(doc) \subseteq Nat \ {0}
      BY <2>1, <3>1, DocumentsAssumption DEF Requests
    <3>3. harness \in MappingSet(doc, "harnesses")
      BY <2>1, <3>2, HarnessIsDeclared
    <3> HIDE DEF doc, harness
    <3> QED BY <3>2, <3>3 DEF Reported
  <2> HIDE DEF doc, harness
  <2>3. /\ "requires_human_approval" \in NormalizeGates(harness)
        /\ Unblocked(BuildAdapterConformanceReport(doc).decisions)
    BY <2>1, ReadyMeans
  <2> QED BY <2>1, <2>2, <2>3, GateAsksForApproval, AdaptersOnlyDescribe, StepsAreGuarded
<1> QED BY <1>1, CommandInvariant, PTL

(***************************************************************************)
(* The search for circular dependencies, for any graph.                    *)
(***************************************************************************)
\* The nodes of the search, whether one node is another or depends on it, and the circular
\* dependency a node is in.
Nodes(edges) == UNION {{e[1], e[2]} : e \in DependencyEdges(edges)}
Reaches(edges, x, y) == x = y \/ <<x, y>> \in DependsOn(edges)
Circle(edges, x) == {y \in Nodes(edges) : <<x, y>> \in DependsOn(edges) /\ <<y, x>> \in DependsOn(edges)}

\* The nodes that have a number, those on the stack, and those whose component is closed.
Found == DOMAIN index
Open == Range(stack)
Closed == Found \ Open

\* The node of a frame, and the open nodes of its branch that no later frame has.
Node(i) == work[i].node
Branch(i) ==
  {x \in Open : index[Node(i)] <= index[x] /\ (i < Len(work) => index[x] < index[Node(i + 1)])}

\* Numbers grow along the stack and along the frames.
SearchTypes(edges) ==
  /\ adjacency = Adjacency(edges)
  /\ Found \subseteq Nodes(edges) /\ IsFiniteSet(Found)
  /\ index \in [Found -> Nat] /\ low \in [Found -> Nat]
  /\ \A x \in Found : index[x] < Cardinality(Found)
  /\ stack \in Seq(Found)
  /\ \A i, j \in 1..Len(stack) : i < j => index[stack[i]] < index[stack[j]]
  /\ work \in Seq([node: Open, todo: SUBSET Nodes(edges)])
  /\ \A i, j \in 1..Len(work) : i < j => index[Node(i)] < index[Node(j)]

\* An edge out of a closed node leads to a closed one, and one that leads to a node without
\* number is still to be followed.
EdgesInv ==
  /\ \A x \in Closed : adjacency[x] \subseteq Closed
  /\ \A i \in 1..Len(work) : work[i].todo \subseteq adjacency[Node(i)]
  /\ \A x \in Found : \A y \in adjacency[x] \ Found : \E i \in 1..Len(work) : Node(i) = x /\ y \in work[i].todo

\* The node of a frame leads to all open nodes found after it, and every open node to a node
\* of a frame found before it.
ReachInv(edges) ==
  /\ \A i \in 1..Len(work) : \A x \in Open : index[Node(i)] <= index[x] => Reaches(edges, Node(i), x)
  /\ \A x \in Open : \E i \in 1..Len(work) : index[Node(i)] <= index[x] /\ Reaches(edges, x, Node(i))

\* The low number of a frame's node is that of an open node it leads to, and none is less to
\* which an edge goes from its branch.
LowInv(edges) ==
  \A i \in 1..Len(work) :
    /\ low[Node(i)] <= index[Node(i)]
    /\ \E x \in Open : index[x] = low[Node(i)] /\ Reaches(edges, Node(i), x)
    /\ \A x \in Branch(i) : \A y \in adjacency[x] \cap Open :
         low[Node(i)] <= index[y] \/ (x = Node(i) /\ y \in work[i].todo)

\* The components so far are the circular dependencies of the closed nodes.
ComponentsInv(edges) ==
  components = {Circle(edges, x) : x \in {y \in Closed : <<y, y>> \in DependsOn(edges)}}

SearchInv(edges) ==
  SearchTypes(edges) /\ EdgesInv /\ ReachInv(edges) /\ LowInv(edges) /\ ComponentsInv(edges)

(***************************************************************************)
(* The graph.                                                              *)
(***************************************************************************)
\* The successors of a node are those its edges lead to, itself never.
LEMMA Successors ==
  ASSUME NEW edges
  PROVE  /\ DOMAIN Adjacency(edges) = Nodes(edges)
         /\ \A x \in Nodes(edges) :
              /\ Adjacency(edges)[x] \subseteq Nodes(edges) /\ x \notin Adjacency(edges)[x]
              /\ \A y : y \in Adjacency(edges)[x] <=> <<x, y>> \in DependencyEdges(edges)
         /\ \A e \in DependencyEdges(edges) : e = <<e[1], e[2]>> /\ e[1] \in Nodes(edges) /\ e[2] \in Nodes(edges)
<1> DEFINE D == DependencyEdges(edges)
<1>1. \A e \in D : e = <<e[1], e[2]>> /\ e[1] # e[2]
  BY DEF DependencyEdges
<1>2. \A e \in D : e[1] \in Nodes(edges) /\ e[2] \in Nodes(edges)
  BY DEF Nodes
<1>3. DOMAIN Adjacency(edges) = Nodes(edges)
  BY DEF Adjacency, Nodes
<1>4. ASSUME NEW x \in Nodes(edges), NEW y
      PROVE  y \in Adjacency(edges)[x] <=> <<x, y>> \in D
  <2>1. y \in Adjacency(edges)[x] <=> y \in Range([e \in D |-> e[2]]) /\ <<x, y>> \in D
    BY DEF Adjacency, Nodes
  <2>2. <<x, y>> \in D => y \in Range([e \in D |-> e[2]])
    BY DEF Range
  <2> QED BY <2>1, <2>2
<1>5. ASSUME NEW x \in Nodes(edges)
      PROVE  Adjacency(edges)[x] \subseteq Nodes(edges) /\ x \notin Adjacency(edges)[x]
  <2>1. \A y \in Adjacency(edges)[x] : <<x, y>> \in D
    BY <1>4
  <2>2. \A y : <<x, y>>[1] = x /\ <<x, y>>[2] = y
    OBVIOUS
  <2> QED BY <1>1, <1>2, <2>1, <2>2
<1> QED BY <1>1, <1>2, <1>3, <1>4, <1>5

\* What it is to depend: to be in every set with the successors of the first node that has
\* the successors of its members.
LEMMA DependsMeans ==
  ASSUME NEW edges, NEW x, NEW y
  PROVE  <<x, y>> \in DependsOn(edges) <=>
           /\ x \in Nodes(edges) /\ y \in Nodes(edges)
           /\ \A S \in SUBSET Nodes(edges) :
                (\A u \in S : Adjacency(edges)[u] \subseteq S) /\ Adjacency(edges)[x] \subseteq S => y \in S
<1> DEFINE E == DependencyEdges(edges)
           N == Nodes(edges)
           A == Adjacency(edges)
<1>1. <<x, y>> \in DependsOn(edges) <=>
        /\ x \in N /\ y \in N
        /\ \A S \in SUBSET N :
             (\A e \in E : e[1] \in S => e[2] \in S) /\ (\A e \in E : e[1] = x => e[2] \in S) => y \in S
  BY DEF DependsOn, Nodes
<1>0. /\ \A u \in N : \A v \in A[u] : <<u, v>> \in E /\ <<u, v>>[1] = u /\ <<u, v>>[2] = v
      /\ \A e \in E : e[1] \in N /\ e[2] \in A[e[1]]
  <2>1. \A u \in N : \A v \in A[u] : <<u, v>> \in E
    BY Successors
  <2>2. \A u, v : <<u, v>>[1] = u /\ <<u, v>>[2] = v
    OBVIOUS
  <2>3. ASSUME NEW e \in E
        PROVE  e[1] \in N /\ e[2] \in A[e[1]]
    <3>0. e = <<e[1], e[2]>> /\ e[1] \in N
      BY Successors
    <3>1. e[1] \in N /\ <<e[1], e[2]>> \in E
      BY <3>0, Zenon
    <3>2. e[2] \in A[e[1]] <=> <<e[1], e[2]>> \in E
      BY <3>1, Successors
    <3> QED BY <3>1, <3>2
  <2> QED BY <2>1, <2>2, <2>3
<1> HIDE DEF E, N, A
<1>2. ASSUME NEW S \in SUBSET N
      PROVE  (\A e \in E : e[1] \in S => e[2] \in S) <=> (\A u \in S : A[u] \subseteq S)
  <2>1. ASSUME \A e \in E : e[1] \in S => e[2] \in S, NEW u \in S, NEW v \in A[u]
        PROVE  v \in S
    <3>1. <<u, v>> \in E /\ <<u, v>>[1] = u /\ <<u, v>>[2] = v
      BY <1>0
    <3> QED BY <2>1, <3>1, Zenon
  <2>2. (\A u \in S : A[u] \subseteq S) => \A e \in E : e[1] \in S => e[2] \in S
    BY <1>0
  <2> QED BY <2>1, <2>2
<1>3. ASSUME NEW S \in SUBSET N, x \in N
      PROVE  (\A e \in E : e[1] = x => e[2] \in S) <=> A[x] \subseteq S
  <2>1. ASSUME \A e \in E : e[1] = x => e[2] \in S, NEW v \in A[x]
        PROVE  v \in S
    <3>1. <<x, v>> \in E /\ <<x, v>>[1] = x /\ <<x, v>>[2] = v
      BY <1>0, <1>3
    <3> QED BY <2>1, <3>1, Zenon
  <2>2. A[x] \subseteq S => \A e \in E : e[1] = x => e[2] \in S
    BY <1>0
  <2> QED BY <2>1, <2>2
<1>4. <<x, y>> \in DependsOn(edges) <=>
        /\ x \in N /\ y \in N
        /\ \A S \in SUBSET N : (\A u \in S : A[u] \subseteq S) /\ A[x] \subseteq S => y \in S
  BY <1>1, <1>2, <1>3
<1> QED BY <1>4 DEF N, A

\* A node depends on its successors, on what they depend on and on what depends on nothing else.
LEMMA DependsBasics ==
  ASSUME NEW edges
  PROVE  /\ \A x \in Nodes(edges) : \A y \in Adjacency(edges)[x] : <<x, y>> \in DependsOn(edges)
         /\ \A x, y, z : <<x, y>> \in DependsOn(edges) /\ <<y, z>> \in DependsOn(edges) => <<x, z>> \in DependsOn(edges)
         /\ \A x, y : <<x, y>> \in DependsOn(edges) => x \in Nodes(edges) /\ y \in Nodes(edges)
<1> DEFINE N == Nodes(edges)
           A == Adjacency(edges)
           D == DependsOn(edges)
<1>0. \A x \in N : A[x] \subseteq N
  BY Successors
<1>1. \A x, y : <<x, y>> \in D <=>
        /\ x \in N /\ y \in N
        /\ \A S \in SUBSET N : (\A u \in S : A[u] \subseteq S) /\ A[x] \subseteq S => y \in S
  BY DependsMeans
<1> HIDE DEF N, A, D
<1>2. \A x \in N : \A y \in A[x] : <<x, y>> \in D
  BY <1>0, <1>1
<1>3. ASSUME NEW x, NEW y, NEW z, <<x, y>> \in D, <<y, z>> \in D
      PROVE  <<x, z>> \in D
  <2>1. x \in N /\ y \in N /\ z \in N
    BY <1>1, <1>3
  <2>2. ASSUME NEW S \in SUBSET N, \A u \in S : A[u] \subseteq S, A[x] \subseteq S
        PROVE  z \in S
    <3>1. y \in S
      BY <1>1, <1>3, <2>2
    <3> QED BY <1>1, <1>3, <2>2, <3>1
  <2> QED BY <1>1, <2>1, <2>2
<1>4. \A x, y : <<x, y>> \in D => x \in N /\ y \in N
  BY <1>1
<1> QED BY <1>2, <1>3, <1>4 DEF N, A, D

\* A set with the successors of its members has all they depend on.
LEMMA DependsStays ==
  ASSUME NEW edges, NEW S \in SUBSET Nodes(edges), \A u \in S : Adjacency(edges)[u] \subseteq S,
         NEW x \in S, NEW y, Reaches(edges, x, y)
  PROVE  y \in S
BY DependsMeans DEF Reaches

\* A node depends on another by a successor that is it or depends on it.
LEMMA DependsFirst ==
  ASSUME NEW edges, NEW x, NEW y, <<x, y>> \in DependsOn(edges)
  PROVE  \E m \in Adjacency(edges)[x] : Reaches(edges, m, y)
<1> DEFINE A == Adjacency(edges)
           S == {z \in Nodes(edges) : \E m \in A[x] : Reaches(edges, m, z)}
<1>0. x \in Nodes(edges) /\ y \in Nodes(edges) /\ \A u \in Nodes(edges) : A[u] \subseteq Nodes(edges)
  BY Successors, DependsBasics
<1>1. A[x] \subseteq S
  BY <1>0 DEF Reaches
<1>2. ASSUME NEW u \in S, NEW v \in A[u]
      PROVE  v \in S
  <2>1. PICK m \in A[x] : Reaches(edges, m, u)
    OBVIOUS
  <2>2. <<u, v>> \in DependsOn(edges) /\ v \in Nodes(edges)
    BY <1>0, DependsBasics
  <2>3. Reaches(edges, m, v)
    BY <2>1, <2>2, DependsBasics DEF Reaches
  <2> QED BY <2>2, <2>3
<1>3. y \in S
  <2> S \in SUBSET Nodes(edges)
    OBVIOUS
  <2> HIDE DEF S
  <2> QED BY <1>1, <1>2, DependsMeans
<1> QED BY <1>3

\* Leading from node to node is reflexive and transitive, and follows edges.
LEMMA ReachesBasics ==
  ASSUME NEW edges
  PROVE  /\ \A x : Reaches(edges, x, x)
         /\ \A x, y, z : Reaches(edges, x, y) /\ Reaches(edges, y, z) => Reaches(edges, x, z)
         /\ \A x \in Nodes(edges) : \A y \in Adjacency(edges)[x] : Reaches(edges, x, y)
BY DependsBasics DEF Reaches

(***************************************************************************)
(* The search.                                                             *)
(***************************************************************************)
\* The open nodes are found, each at one place of the stack, and have different numbers; the
\* nodes of the frames are open.
LEMMA OpenNodes ==
  ASSUME NEW edges, SearchTypes(edges)
  PROVE  /\ Len(stack) \in Nat /\ DOMAIN stack = 1..Len(stack) /\ Len(work) \in Nat
         /\ \A i \in 1..Len(stack) : stack[i] \in Open
         /\ \A x \in Open : \E i \in 1..Len(stack) : stack[i] = x
         /\ Open \subseteq Found /\ \A x \in Found : index[x] \in Nat /\ low[x] \in Nat
         /\ Cardinality(Found) \in Nat /\ Found \subseteq Nodes(edges)
         /\ \A x, y \in Open : index[x] = index[y] => x = y
         /\ \A i \in 1..Len(work) : Node(i) \in Open /\ work[i].todo \subseteq Nodes(edges)
         /\ \A i, j \in 1..Len(work) : i <= j => index[Node(i)] <= index[Node(j)]
<1> USE DEF SearchTypes
<1>1. Len(stack) \in Nat /\ DOMAIN stack = 1..Len(stack) /\ Len(work) \in Nat
  OBVIOUS
<1>2. Open = {stack[i] : i \in 1..Len(stack)}
  BY <1>1 DEF Open, Range
<1>3. Open \subseteq Found
  BY <1>1, <1>2
<1>4. \A x \in Found : index[x] \in Nat /\ low[x] \in Nat
  OBVIOUS
<1>5. Cardinality(Found) \in Nat
  BY FS_CardinalityType
<1>6. \A x, y \in Open : index[x] = index[y] => x = y
  <2> TAKE x, y \in Open
  <2>1. PICK i \in 1..Len(stack) : stack[i] = x
    BY <1>2
  <2>2. PICK j \in 1..Len(stack) : stack[j] = y
    BY <1>2
  <2>3. index[x] \in Nat /\ index[y] \in Nat
    BY <1>3, <1>4
  <2>4. (i < j => index[x] < index[y]) /\ (j < i => index[y] < index[x])
    BY <2>1, <2>2
  <2> QED BY <1>1, <2>1, <2>2, <2>3, <2>4
<1>7. \A i \in 1..Len(work) : Node(i) \in Open /\ work[i].todo \subseteq Nodes(edges)
  <2> DEFINE F == [node: Open, todo: SUBSET Nodes(edges)]
  <2>1. work \in Seq(F)
    OBVIOUS
  <2>2. \A i \in 1..Len(work) : work[i] \in F
    <3> HIDE DEF F
    <3> QED BY <2>1
  <2> QED BY <2>2 DEF Node
<1>8. \A i, j \in 1..Len(work) : i <= j => index[Node(i)] <= index[Node(j)]
  <2> TAKE i, j \in 1..Len(work)
  <2>1. index[Node(i)] \in Nat /\ index[Node(j)] \in Nat
    BY <1>3, <1>4, <1>7
  <2>2. i < j => index[Node(i)] < index[Node(j)]
    OBVIOUS
  <2> QED BY <1>1, <2>1, <2>2
<1> QED BY <1>1, <1>2, <1>3, <1>4, <1>5, <1>6, <1>7, <1>8

\* The frames as they are, but for a node that is no longer to be visited.
Resumed(edges, frames, node) ==
  /\ frames \in Seq([node: Open, todo: SUBSET Nodes(edges)]) /\ Len(frames) = Len(work)
  /\ \A i \in 1..Len(work) :
       frames[i].node = Node(i) /\ work[i].todo \subseteq frames[i].todo \cup {node} /\ frames[i].todo \subseteq work[i].todo

\* What it is to find a node, for the stack and the frames.
LEMMA DiscoverMeans ==
  ASSUME NEW edges, SearchTypes(edges), NEW node \in Nodes(edges) \ Found,
         NEW frames, Resumed(edges, frames, node), Discover(node, frames)
  PROVE  /\ SearchTypes(edges)'
         /\ Found' = Found \cup {node} /\ Open' = Open \cup {node} /\ Closed' = Closed
         /\ index'[node] = Cardinality(Found) /\ low'[node] = Cardinality(Found)
         /\ \A x \in Found : index'[x] = index[x] /\ low'[x] = low[x] /\ index[x] < index'[node]
         /\ Len(work') = Len(work) + 1
         /\ work'[Len(work) + 1].node = node /\ work'[Len(work) + 1].todo = adjacency[node]
         /\ \A i \in 1..Len(work) : Node(i)' = Node(i) /\ work'[i] = frames[i]
<1> DEFINE n == Len(work)
           c == Cardinality(Found)
           top == [node |-> node, todo |-> adjacency[node]]
<1>0. /\ Len(stack) \in Nat /\ DOMAIN stack = 1..Len(stack) /\ n \in Nat
      /\ \A i \in 1..Len(stack) : stack[i] \in Open
      /\ Open \subseteq Found /\ \A x \in Found : index[x] \in Nat /\ low[x] \in Nat /\ index[x] < c
      /\ c \in Nat /\ Found \subseteq Nodes(edges) /\ IsFiniteSet(Found)
      /\ \A i \in 1..n : Node(i) \in Open
      /\ DOMAIN index = Found /\ DOMAIN low = Found /\ stack \in Seq(Found)
      /\ adjacency[node] \subseteq Nodes(edges)
  BY OpenNodes, Successors DEF SearchTypes
<1>1. /\ Found' = Found \cup {node} /\ IsFiniteSet(Found') /\ Cardinality(Found') = c + 1
      /\ index' = [x \in Found' |-> IF x = node THEN c ELSE index[x]]
      /\ low' = [x \in Found' |-> IF x = node THEN c ELSE low[x]]
  <2>1. index' = [x \in {node} \cup Found |-> IF x = node THEN c ELSE index[x]]
    BY <1>0 DEF Discover, Found, Numbered
  <2>2. low' = [x \in {node} \cup Found |-> IF x = node THEN c ELSE low[x]]
    BY <1>0 DEF Discover, Found, Numbered
  <2>3. Found' = Found \cup {node}
    BY <2>1 DEF Found
  <2>4. IsFiniteSet(Found \cup {node}) /\ Cardinality(Found \cup {node}) = c + 1
    BY <1>0, FS_AddElement
  <2> QED BY <2>1, <2>2, <2>3, <2>4
<1>2. /\ Len(stack') = Len(stack) + 1 /\ stack'[Len(stack) + 1] = node
      /\ stack' \in Seq(Found') /\ \A i \in 1..Len(stack) : stack'[i] = stack[i]
  <2>1. stack \in Seq(Found') /\ node \in Found'
    BY <1>0, <1>1
  <2> QED BY <2>1, <1>0 DEF Discover
<1>3. Open' = Open \cup {node}
  <2>1. DOMAIN stack' = 1..(Len(stack) + 1)
    BY <1>0, <1>2
  <2>2. Open' = {stack'[i] : i \in 1..(Len(stack) + 1)}
    BY <2>1 DEF Open, Range
  <2>3. Open = {stack[i] : i \in 1..Len(stack)}
    BY <1>0 DEF Open, Range
  <2>4. ASSUME NEW x \in Open' PROVE x \in Open \cup {node}
    <3>1. PICK i \in 1..(Len(stack) + 1) : x = stack'[i]
      BY <2>2
    <3>2. CASE i = Len(stack) + 1
      BY <1>2, <3>1, <3>2
    <3>3. CASE i \in 1..Len(stack)
      BY <1>2, <2>3, <3>1, <3>3
    <3> QED BY <1>0, <3>2, <3>3
  <2>5. ASSUME NEW x \in Open PROVE x \in Open'
    <3>1. PICK i \in 1..Len(stack) : x = stack[i]
      BY <2>3
    <3>2. i \in 1..(Len(stack) + 1) /\ stack'[i] = x
      BY <1>0, <1>2, <3>1
    <3> QED BY <2>2, <3>2
  <2>6. node \in Open'
    <3>1. Len(stack) + 1 \in 1..(Len(stack) + 1)
      BY <1>0
    <3> QED BY <1>2, <2>2, <3>1
  <2> QED BY <2>4, <2>5, <2>6
<1>4. Closed' = Closed
  BY <1>0, <1>1, <1>3 DEF Closed
<1>5. \A x \in Found : index'[x] = index[x] /\ low'[x] = low[x] /\ index[x] < index'[node]
  BY <1>0, <1>1
<1>6. index'[node] = c /\ low'[node] = c
  BY <1>1
<1>7. /\ work' \in Seq([node: Open', todo: SUBSET Nodes(edges)])
      /\ Len(work') = n + 1 /\ work'[n + 1] = top
      /\ \A i \in 1..n : work'[i] = frames[i]
  <2> DEFINE F == [node: Open, todo: SUBSET Nodes(edges)]
             G == [node: Open', todo: SUBSET Nodes(edges)]
  <2>1. F \subseteq G
    BY <1>3
  <2>2. top \in G
    BY <1>0, <1>3
  <2>3. work' = Append(frames, top)
    BY DEF Discover
  <2>4. n \in Nat /\ Len(frames) = n /\ frames \in Seq(F)
    BY <1>0 DEF Resumed
  <2>5. work' \in Seq(G) /\ Len(work') = n + 1 /\ work'[n + 1] = top /\ \A i \in 1..n : work'[i] = frames[i]
    <3> HIDE DEF top, n, F, G
    <3>1. frames \in Seq(G)
      BY <2>1, <2>4
    <3> QED BY <2>2, <2>3, <2>4, <3>1
  <2> QED BY <2>5
<1>8. /\ Len(work') = n + 1 /\ work'[n + 1].node = node /\ work'[n + 1].todo = adjacency[node]
      /\ \A i \in 1..n : Node(i)' = Node(i) /\ work'[i] = frames[i]
  <2>1. Len(work') = n + 1 /\ work'[n + 1] = top /\ \A i \in 1..n : work'[i] = frames[i] /\ frames[i].node = Node(i)
    BY <1>7 DEF Resumed
  <2>2. top.node = node /\ top.todo = adjacency[node]
    OBVIOUS
  <2> HIDE DEF top, n
  <2> QED BY <2>1, <2>2 DEF Node
<1>9. SearchTypes(edges)'
  <2>1. adjacency' = Adjacency(edges)
    BY DEF Discover, SearchTypes
  <2>2. index' \in [Found' -> Nat] /\ low' \in [Found' -> Nat] /\ Found' \subseteq Nodes(edges)
    BY <1>0, <1>1
  <2>3. \A x \in Found' : index'[x] < Cardinality(Found')
    BY <1>0, <1>1
  <2>4. \A i, j \in 1..Len(stack') : i < j => index'[stack'[i]] < index'[stack'[j]]
    <3>1. \A i, j \in 1..Len(stack) : i < j => index[stack[i]] < index[stack[j]]
      BY DEF SearchTypes
    <3>2. \A i \in 1..Len(stack) : index'[stack'[i]] = index[stack[i]] /\ index'[stack'[i]] < index'[stack'[Len(stack) + 1]]
      BY <1>0, <1>2, <1>5
    <3>3. TAKE i, j \in 1..Len(stack')
    <3>4. HAVE i < j
    <3>5. i \in 1..Len(stack) /\ (j \in 1..Len(stack) \/ j = Len(stack) + 1)
      BY <1>0, <1>2, <3>4
    <3>6. CASE j = Len(stack) + 1
      BY <3>2, <3>5, <3>6
    <3>7. CASE j \in 1..Len(stack)
      BY <3>1, <3>2, <3>4, <3>5, <3>7
    <3> QED BY <3>5, <3>6, <3>7
  <2>5. \A i, j \in 1..Len(work') : i < j => index'[Node(i)'] < index'[Node(j)']
    <3>1. \A i, j \in 1..n : i < j => index[Node(i)] < index[Node(j)]
      BY DEF SearchTypes
    <3>2. \A i \in 1..n : index'[Node(i)'] = index[Node(i)] /\ index'[Node(i)'] < index'[work'[n + 1].node]
      BY <1>0, <1>5, <1>8
    <3>3. TAKE i, j \in 1..Len(work')
    <3>4. HAVE i < j
    <3>5. i \in 1..n /\ (j \in 1..n \/ j = n + 1)
      <4>1. Len(work') = n + 1 /\ n \in Nat
        BY <1>0, <1>8
      <4> HIDE DEF n
      <4> QED BY <3>4, <4>1
    <3>6. CASE j = n + 1
      BY <3>2, <3>5, <3>6 DEF Node
    <3>7. CASE j \in 1..n
      BY <3>1, <3>2, <3>4, <3>5, <3>7 DEF Node
    <3> QED BY <3>5, <3>6, <3>7
  <2> QED BY <1>1, <1>2, <1>7, <2>1, <2>2, <2>3, <2>4, <2>5 DEF SearchTypes
<1> QED BY <1>1, <1>3, <1>4, <1>5, <1>6, <1>8, <1>9

\* A node found is a root, or a successor of the node of the last frame.
LEMMA DiscoverKeeps ==
  ASSUME NEW edges, SearchInv(edges), NEW node \in Nodes(edges) \ Found,
         NEW frames, Resumed(edges, frames, node), Discover(node, frames),
         Len(work) > 0 => node \in adjacency[Node(Len(work))]
  PROVE  SearchInv(edges)'
<1> DEFINE n == Len(work)
<1> USE DEF SearchInv
<1>0. /\ n \in Nat /\ Open \subseteq Found /\ Found \subseteq Nodes(edges)
      /\ \A x \in Found : index[x] \in Nat /\ low[x] \in Nat
      /\ \A i \in 1..n : Node(i) \in Open
      /\ \A i, j \in 1..n : i <= j => index[Node(i)] <= index[Node(j)]
      /\ adjacency = Adjacency(edges) /\ adjacency' = adjacency /\ components' = components
  BY OpenNodes DEF SearchTypes, Discover
<1>1. /\ SearchTypes(edges)'
      /\ Found' = Found \cup {node} /\ Open' = Open \cup {node} /\ Closed' = Closed
      /\ index'[node] = Cardinality(Found) /\ low'[node] = Cardinality(Found)
      /\ \A x \in Found : index'[x] = index[x] /\ low'[x] = low[x] /\ index[x] < index'[node]
      /\ Len(work') = n + 1 /\ work'[n + 1].node = node /\ work'[n + 1].todo = adjacency[node]
      /\ \A i \in 1..n : Node(i)' = Node(i) /\ work'[i] = frames[i]
           /\ work[i].todo \subseteq frames[i].todo \cup {node} /\ frames[i].todo \subseteq work[i].todo
  <2>1. \A i \in 1..n :
          frames[i].node = Node(i) /\ work[i].todo \subseteq frames[i].todo \cup {node} /\ frames[i].todo \subseteq work[i].todo
    BY DEF Resumed
  <2> QED BY <2>1, DiscoverMeans, ZenonT(60)
<1>2. /\ index'[node] \in Nat /\ low'[node] = index'[node]
      /\ \A x \in Found' : index'[x] \in Nat
      /\ \A x \in Found : index'[x] < index'[node]
  <2>1. index'[node] \in Nat /\ low'[node] = index'[node]
    BY <1>1, FS_CardinalityType DEF SearchTypes
  <2>2. \A x \in Found : index'[x] = index[x] /\ index[x] < index'[node] /\ index[x] \in Nat
    BY <1>0, <1>1
  <2>3. Found' = Found \cup {node}
    BY <1>1
  <2> QED BY <2>1, <2>2, <2>3
<1>3. \A i \in 1..(n + 1) : i \in 1..n \/ i = n + 1
  BY <1>0
<1>4. EdgesInv'
  <2>1. \A x \in Closed' : adjacency'[x] \subseteq Closed'
    BY <1>0, <1>1 DEF EdgesInv
  <2>2. ASSUME NEW x \in Found', NEW y \in adjacency'[x] \ Found'
        PROVE  \E i \in 1..Len(work') : work'[i].node = x /\ y \in work'[i].todo
    <3>1. CASE x = node
      <4>1. n + 1 \in 1..Len(work')
        BY <1>0, <1>1
      <4> QED BY <1>0, <1>1, <3>1, <4>1
    <3>2. CASE x # node
      <4>1. x \in Found /\ y \in adjacency[x] \ Found /\ y # node
        BY <1>0, <1>1, <3>2
      <4>2. PICK i \in 1..n : Node(i) = x /\ y \in work[i].todo
        BY <4>1 DEF EdgesInv
      <4>3. i \in 1..Len(work') /\ work'[i] = frames[i] /\ work'[i].node = x /\ y \in frames[i].todo
        <5>1. i \in 1..Len(work') /\ work'[i] = frames[i] /\ y \in frames[i].todo
          BY <1>0, <1>1, <4>1, <4>2
        <5>2. work'[i].node = Node(i)
          BY <1>1 DEF Node
        <5> QED BY <4>2, <5>1, <5>2
      <4> QED BY <4>3
    <3> QED BY <3>1, <3>2
  <2>3. ASSUME NEW i \in 1..Len(work')
        PROVE  work'[i].todo \subseteq adjacency'[work'[i].node]
    <3>1. CASE i = n + 1
      BY <1>0, <1>1, <3>1
    <3>2. CASE i \in 1..n
      <4>1. work'[i].node = Node(i) /\ work'[i].todo \subseteq work[i].todo
        BY <1>1, <3>2 DEF Node
      <4>2. work[i].todo \subseteq adjacency[Node(i)]
        BY <3>2 DEF EdgesInv
      <4> QED BY <1>0, <4>1, <4>2
    <3> QED BY <1>1, <1>3, <3>1, <3>2
  <2> QED BY <2>1, <2>2, <2>3 DEF EdgesInv, Node
<1>5. ReachInv(edges)'
  <2>1. ASSUME NEW i \in 1..Len(work'), NEW x \in Open', index'[Node(i)'] <= index'[x]
        PROVE  Reaches(edges, Node(i)', x)
    <3>1. CASE i = n + 1
      <4>1. Node(i)' = node
        BY <1>1, <3>1 DEF Node
      <4>2. x = node
        BY <1>0, <1>1, <1>2, <2>1, <4>1
      <4> QED BY <4>1, <4>2 DEF Reaches
    <3>2. CASE i \in 1..n /\ x = node
      <4>0. n \in 1..n /\ i <= n
        BY <1>0, <3>2
      <4>1. Node(i)' = Node(i) /\ n \in 1..n
        BY <1>1, <3>2, <4>0
      <4>2. Reaches(edges, Node(i), Node(n))
        <5>1. Node(n) \in Open /\ index[Node(i)] <= index[Node(n)]
          BY <1>0, <3>2, <4>0
        <5> HIDE DEF n
        <5> QED BY <3>2, <5>1 DEF ReachInv, n
      <4>3. Reaches(edges, Node(n), node)
        <5>1. n > 0 /\ Node(n) \in Nodes(edges)
          BY <1>0, <4>1
        <5> QED BY <1>0, <5>1, ReachesBasics
      <4> QED BY <3>2, <4>1, <4>2, <4>3, ReachesBasics
    <3>3. CASE i \in 1..n /\ x # node
      <4>1. Node(i)' = Node(i) /\ x \in Open /\ index[Node(i)] <= index[x]
        BY <1>0, <1>1, <2>1, <3>3
      <4> QED BY <3>3, <4>1 DEF ReachInv
    <3> QED BY <1>1, <1>3, <3>1, <3>2, <3>3
  <2>2. ASSUME NEW x \in Open'
        PROVE  \E i \in 1..Len(work') : index'[Node(i)'] <= index'[x] /\ Reaches(edges, x, Node(i)')
    <3>1. CASE x = node
      <4>1. n + 1 \in 1..Len(work') /\ index'[work'[n + 1].node] <= index'[x] /\ Reaches(edges, x, work'[n + 1].node)
        BY <1>0, <1>1, <1>2, <3>1 DEF Reaches
      <4> QED BY <4>1 DEF Node
    <3>2. CASE x # node
      <4>1. x \in Open
        BY <1>1, <3>2
      <4>2. PICK i \in 1..n : index[Node(i)] <= index[x] /\ Reaches(edges, x, Node(i))
        BY <4>1 DEF ReachInv
      <4>3. i \in 1..Len(work') /\ Node(i)' = Node(i) /\ index'[Node(i)'] = index[Node(i)] /\ index'[x] = index[x]
        BY <1>0, <1>1, <4>1
      <4> QED BY <4>2, <4>3
    <3> QED BY <3>1, <3>2
  <2> QED BY <2>1, <2>2 DEF ReachInv
<1>6. LowInv(edges)'
  <2>1. ASSUME NEW i \in 1..Len(work')
        PROVE  /\ low'[Node(i)'] <= index'[Node(i)']
               /\ \E x \in Open' : index'[x] = low'[Node(i)'] /\ Reaches(edges, Node(i)', x)
    <3>1. CASE i = n + 1
      <4>1. Node(i)' = node
        BY <1>1, <3>1 DEF Node
      <4> QED BY <1>1, <1>2, <4>1 DEF Reaches
    <3>2. CASE i \in 1..n
      <4>1. Node(i)' = Node(i) /\ low'[Node(i)] = low[Node(i)] /\ index'[Node(i)] = index[Node(i)]
        BY <1>0, <1>1, <3>2
      <4>2. low[Node(i)] <= index[Node(i)]
        BY <3>2 DEF LowInv
      <4>3. PICK x \in Open : index[x] = low[Node(i)] /\ Reaches(edges, Node(i), x)
        BY <3>2 DEF LowInv
      <4>4. x \in Open' /\ index'[x] = index[x]
        BY <1>0, <1>1
      <4> QED BY <4>1, <4>2, <4>3, <4>4
    <3> QED BY <1>1, <1>3, <3>1, <3>2
  <2>2. ASSUME NEW i \in 1..Len(work'), NEW x \in Branch(i)', NEW y \in adjacency'[x] \cap Open'
        PROVE  low'[Node(i)'] <= index'[y] \/ (x = Node(i)' /\ y \in work'[i].todo)
    <3>0. x \in Open' /\ index'[Node(i)'] <= index'[x] /\ (i < n + 1 => index'[x] < index'[work'[i + 1].node])
      BY <1>1 DEF Branch, Node
    <3>1. CASE i = n + 1
      <4>1. Node(i)' = node
        BY <1>1, <3>1 DEF Node
      <4>2. x = node
        BY <1>0, <1>1, <1>2, <3>0, <4>1
      <4> QED BY <1>0, <1>1, <3>1, <4>1, <4>2
    <3>2. CASE i \in 1..n
      <4>0. Node(i)' = Node(i) /\ low'[Node(i)] = low[Node(i)] /\ index'[Node(i)] = index[Node(i)] /\ i < n + 1
        BY <1>0, <1>1, <3>2
      <4>1. x \in Open
        <5>1. index'[x] < index'[node]
          <6>1. CASE i = n
            BY <1>1, <3>0, <4>0, <6>1
          <6>2. CASE i # n
            <7>1. i + 1 \in 1..n
              BY <1>0, <3>2, <6>2
            <7>2. work'[i + 1].node = Node(i + 1)
              BY <1>1, <7>1 DEF Node
            <7>3. Node(i + 1) \in Found
              BY <1>0, <7>1
            <7>4. index'[x] < index'[Node(i + 1)] /\ index'[Node(i + 1)] < index'[node]
              BY <1>2, <3>0, <4>0, <7>2, <7>3
            <7>5. index'[x] \in Nat /\ index'[Node(i + 1)] \in Nat /\ index'[node] \in Nat
              BY <1>0, <1>1, <1>2, <3>0, <7>3
            <7> QED BY <7>4, <7>5
          <6> QED BY <6>1, <6>2
        <5> QED BY <1>1, <1>2, <3>0, <5>1
      <4>2. x \in Branch(i)
        <5>1. index[Node(i)] <= index[x]
          BY <1>0, <1>1, <3>0, <4>0, <4>1
        <5>2. ASSUME i < n PROVE index[x] < index[Node(i + 1)]
          <6>1. i + 1 \in 1..n
            BY <1>0, <3>2, <5>2
          <6>2. work'[i + 1].node = Node(i + 1)
            BY <1>1, <6>1 DEF Node
          <6> QED BY <1>0, <1>1, <3>0, <4>0, <4>1, <6>1, <6>2
        <5> QED BY <4>1, <5>1, <5>2 DEF Branch
      <4>3. CASE y = node
        <5>1. low[Node(i)] <= index[Node(i)] /\ index[Node(i)] < index'[node]
          BY <1>0, <1>1, <3>2 DEF LowInv
        <5>2. low[Node(i)] \in Nat /\ index[Node(i)] \in Nat /\ index'[node] \in Nat
          BY <1>0, <1>2, <3>2
        <5> QED BY <4>0, <4>3, <5>1, <5>2
      <4>4. CASE y # node
        <5>1. y \in adjacency[x] \cap Open /\ index'[y] = index[y]
          BY <1>0, <1>1, <4>4
        <5>2. low[Node(i)] <= index[y] \/ (x = Node(i) /\ y \in work[i].todo)
          BY <3>2, <4>2, <5>1 DEF LowInv
        <5>3. y \in work[i].todo => y \in work'[i].todo
          BY <1>1, <3>2, <4>4
        <5> QED BY <4>0, <5>1, <5>2, <5>3
      <4> QED BY <4>3, <4>4
    <3> QED BY <1>1, <1>3, <3>1, <3>2
  <2> QED BY <2>1, <2>2 DEF LowInv
<1>7. ComponentsInv(edges)'
  BY <1>0, <1>1 DEF ComponentsInv
<1> QED BY <1>1, <1>4, <1>5, <1>6, <1>7

\* A successor is struck off the last frame.
LEMMA ResumedOne ==
  ASSUME NEW edges, SearchInv(edges), work # << >>, NEW successor \in Last(work).todo,
         NEW frames, frames = [work EXCEPT ![Len(work)].todo = @ \ {successor}]
  PROVE  /\ Resumed(edges, frames, successor) /\ Len(work) \in 1..Len(work) /\ Last(work).node = Node(Len(work))
         /\ successor \in Nodes(edges) /\ successor \in adjacency[Node(Len(work))]
         /\ successor \notin frames[Len(work)].todo
<1> DEFINE n == Len(work)
           F == [node: Open, todo: SUBSET Nodes(edges)]
           last == [work[n] EXCEPT !.todo = @ \ {successor}]
<1>1. work \in Seq(F)
  BY DEF SearchInv, SearchTypes
<1>2. n \in 1..n /\ n \in Nat /\ Last(work) = work[n]
  <2> HIDE DEF F
  <2> QED BY <1>1 DEF Last
<1>3. \A i \in 1..n : work[i] \in F
  <2> HIDE DEF F
  <2> QED BY <1>1
<1>4. last \in F /\ last.node = work[n].node /\ last.todo = work[n].todo \ {successor}
  BY <1>2, <1>3
<1>5. Last(work).node = Node(n) /\ successor \in work[n].todo
  BY <1>2 DEF Node
<1>6. successor \in Nodes(edges) /\ successor \in adjacency[Node(n)]
  BY <1>2, <1>3, <1>5 DEF SearchInv, EdgesInv
<1>7. frames = [work EXCEPT ![n] = last]
  OBVIOUS
<1>8. frames \in Seq(F) /\ Len(frames) = n /\ frames[n] = last /\ \A i \in 1..n : i # n => frames[i] = work[i]
  <2> HIDE DEF F, last
  <2>1. work \in Seq(F) /\ n \in 1..Len(work) /\ last \in F
    BY <1>1, <1>2, <1>4
  <2> HIDE DEF n
  <2>2. Len(work) = n
    BY DEF n
  <2>3. \A t : t = [work EXCEPT ![n] = last] => t \in Seq(F) /\ Len(t) = n /\ t[n] = last /\ \A i \in 1..n : i # n => t[i] = work[i]
    BY ONLY <2>1, <2>2
  <2> QED BY <2>3, <1>7, Zenon
<1>9. \A i \in 1..n : frames[i].node = Node(i) /\ work[i].todo \subseteq frames[i].todo \cup {successor}
                        /\ frames[i].todo \subseteq work[i].todo
  <2> TAKE i \in 1..n
  <2> HIDE DEF F, last, n
  <2>1. CASE i = n
    BY <1>4, <1>8, <2>1 DEF Node
  <2>2. CASE i # n
    BY <1>8, <2>2 DEF Node
  <2> QED BY <2>1, <2>2
<1>10. Resumed(edges, frames, successor)
  BY <1>8, <1>9 DEF Resumed
<1> QED BY <1>2, <1>4, <1>5, <1>6, <1>8, <1>10

\* The next root starts a component of its own.
LEMMA NextRootKeeps ==
  ASSUME NEW edges, SearchInv(edges), NextRoot
  PROVE  SearchInv(edges)'
<1>1. PICK root \in DOMAIN adjacency \ DOMAIN index : Discover(root, << >>)
  BY DEF NextRoot, Foremost
<1>2. root \in Nodes(edges) \ Found
  BY Successors DEF SearchInv, SearchTypes, Found
<1>3. work = << >> /\ Len(work) = 0
  BY DEF NextRoot
<1>4. Resumed(edges, << >>, root)
  BY <1>3 DEF Resumed
<1> QED BY <1>1, <1>2, <1>3, <1>4, DiscoverKeeps

\* A successor that has a number: the low number takes it in if it is open.
LEMMA FollowFound ==
  ASSUME NEW edges, SearchInv(edges), work # << >>, NEW successor \in Last(work).todo, successor \in Found,
         NEW frames, frames = [work EXCEPT ![Len(work)].todo = @ \ {successor}],
         work' = frames, low' = [low EXCEPT ![Last(work).node] = Lowest(Last(work).node, successor)],
         UNCHANGED <<adjacency, index, stack, components>>
  PROVE  SearchInv(edges)'
<1> DEFINE n == Len(work)
           node == Node(n)
<1>1. /\ Resumed(edges, frames, successor) /\ n \in 1..n /\ Last(work).node = node
      /\ successor \in Nodes(edges) /\ successor \in adjacency[node] /\ successor \notin frames[n].todo
  BY ResumedOne
<1>2. /\ work' \in Seq([node: Open, todo: SUBSET Nodes(edges)]) /\ Len(work') = n
      /\ \A i \in 1..n : /\ work'[i].node = Node(i) /\ Node(i)' = Node(i)
                         /\ work[i].todo \subseteq work'[i].todo \cup {successor} /\ work'[i].todo \subseteq work[i].todo
  BY <1>1 DEF Resumed, Node
<1>3. /\ Found' = Found /\ Open' = Open /\ Closed' = Closed /\ adjacency' = adjacency /\ components' = components
      /\ index' = index /\ stack' = stack
  BY DEF Found, Open, Closed
<1>4. /\ Open \subseteq Found /\ \A x \in Found : index[x] \in Nat /\ low[x] \in Nat
      /\ \A i \in 1..n : Node(i) \in Open
      /\ \A i, j \in 1..n : i < j => index[Node(i)] < index[Node(j)]
      /\ low \in [Found -> Nat] /\ n \in Nat /\ adjacency = Adjacency(edges) /\ Found \subseteq Nodes(edges)
  BY OpenNodes DEF SearchInv, SearchTypes
<1>5. /\ low' \in [Found -> Nat] /\ \A x \in Found : x # node => low'[x] = low[x]
      /\ low'[node] <= low[node]
      /\ low'[node] = low[node] \/ (successor \in Open /\ low'[node] = index[successor])
      /\ successor \in Open => low'[node] <= index[successor]
  <2>1. low' = [low EXCEPT ![node] = Lowest(node, successor)] /\ node \in Found /\ successor \in Found
    BY <1>1, <1>4
  <2>2. low[node] \in Nat /\ index[successor] \in Nat
    BY <1>4, <2>1
  <2>3. Lowest(node, successor) = IF successor \in Open /\ index[successor] < low[node] THEN index[successor] ELSE low[node]
    BY DEF Lowest, Open
  <2>4. Lowest(node, successor) \in Nat
    BY <2>2, <2>3
  <2> HIDE DEF node
  <2>5. /\ low' \in [Found -> Nat] /\ low'[node] = Lowest(node, successor)
        /\ \A x \in Found : x # node => low'[x] = low[x]
    BY ONLY <1>4, <2>1, <2>4
  <2> QED BY <2>2, <2>3, <2>5
<1>6. \A i \in 1..n : i = n \/ Node(i) # node
  BY <1>1, <1>4
<1> HIDE DEF n, node
<1>7. SearchTypes(edges)'
  <2>1. \A i, j \in 1..Len(work') : i < j => index'[Node(i)'] < index'[Node(j)']
    BY <1>2, <1>3, <1>4
  <2> QED BY <1>2, <1>3, <1>5, <2>1 DEF SearchInv, SearchTypes
<1>8. EdgesInv'
  <2>1. ASSUME NEW x \in Found, NEW y \in adjacency[x] \ Found
        PROVE  \E i \in 1..n : Node(i) = x /\ y \in work'[i].todo
    <3>1. PICK i \in 1..n : Node(i) = x /\ y \in work[i].todo
      BY <2>1 DEF SearchInv, EdgesInv, n
    <3> QED BY <1>2, <3>1
  <2>2. \A i \in 1..n : work'[i].todo \subseteq adjacency[Node(i)]
    BY <1>2 DEF SearchInv, EdgesInv, n
  <2>3. \A x \in Closed : adjacency[x] \subseteq Closed
    BY DEF SearchInv, EdgesInv
  <2> QED BY <1>2, <1>3, <2>1, <2>2, <2>3 DEF EdgesInv
<1>9. ReachInv(edges)'
  BY <1>2, <1>3 DEF SearchInv, ReachInv, n
<1>10. LowInv(edges)'
  <2>1. ASSUME NEW i \in 1..n
        PROVE  /\ low'[Node(i)] <= index[Node(i)]
               /\ \E x \in Open : index[x] = low'[Node(i)] /\ Reaches(edges, Node(i), x)
    <3>1. low[Node(i)] <= index[Node(i)] /\ \E x \in Open : index[x] = low[Node(i)] /\ Reaches(edges, Node(i), x)
      BY DEF SearchInv, LowInv, n
    <3>2. CASE Node(i) # node
      <4>1. low'[Node(i)] = low[Node(i)]
        BY <1>4, <1>5, <3>2
      <4> QED BY <3>1, <4>1
    <3>3. CASE Node(i) = node
      <4>1. low'[node] <= index[node]
        <5>1. low'[node] \in Nat /\ low[node] \in Nat /\ index[node] \in Nat
          BY <1>4, <1>5, <3>3
        <5> QED BY <1>5, <3>1, <3>3, <5>1
      <4>2. Reaches(edges, node, successor)
        BY <1>1, <1>4, <3>3, ReachesBasics
      <4>3. \E x \in Open : index[x] = low'[node] /\ Reaches(edges, node, x)
        BY <1>5, <3>1, <3>3, <4>2
      <4> QED BY <3>3, <4>1, <4>3
    <3> QED BY <3>2, <3>3
  <2>2. ASSUME NEW i \in 1..n, NEW x \in Branch(i)', NEW y \in adjacency[x] \cap Open
        PROVE  low'[Node(i)] <= index[y] \/ (x = Node(i) /\ y \in work'[i].todo)
    <3>1. x \in Branch(i)
      <4>1. x \in Open /\ index[Node(i)] <= index[x] /\ (i < n => index[x] < index[work'[i + 1].node])
        BY <1>2, <1>3 DEF Branch, Node
      <4>2. i < n => work'[i + 1].node = Node(i + 1)
        <5>1. i < n => i + 1 \in 1..n
          BY <1>4
        <5> QED BY <1>2, <5>1
      <4> QED BY <4>1, <4>2 DEF Branch, n
    <3>2. low[Node(i)] <= index[y] \/ (x = Node(i) /\ y \in work[i].todo)
      BY <3>1 DEF SearchInv, LowInv, n
    <3>3. low'[Node(i)] <= low[Node(i)]
      BY <1>4, <1>5
    <3>4. low'[Node(i)] \in Nat /\ low[Node(i)] \in Nat /\ index[y] \in Nat
      BY <1>4, <1>5
    <3>5. CASE y # successor
      BY <1>2, <3>2, <3>3, <3>4, <3>5
    <3>6. CASE y = successor /\ i = n
      BY <1>5, <3>6 DEF node
    <3>7. CASE y = successor /\ i # n
      <4>1. y \notin work[i].todo \/ y \in work'[i].todo
        <5>1. work'[i] = work[i]
          BY <3>7 DEF n
        <5> QED BY <5>1
      <4> QED BY <3>2, <3>3, <3>4, <4>1
    <3> QED BY <3>5, <3>6, <3>7
  <2> QED BY <1>2, <1>3, <2>1, <2>2 DEF LowInv
<1>11. ComponentsInv(edges)'
  BY <1>3 DEF SearchInv, ComponentsInv
<1> QED BY <1>7, <1>8, <1>9, <1>10, <1>11 DEF SearchInv

\* A successor is discovered, or found already and left.
LEMMA FollowKeeps ==
  ASSUME NEW edges, SearchInv(edges), Follow
  PROVE  SearchInv(edges)'
<1>1. work # << >>
  BY DEF Follow
<1>2. PICK successor \in Last(work).todo :
        LET node == Last(work).node
            frames == [work EXCEPT ![Len(work)].todo = @ \ {successor}]
        IN \/ successor \notin DOMAIN index /\ Discover(successor, frames)
           \/ /\ successor \in DOMAIN index
              /\ work' = frames
              /\ low' = [low EXCEPT ![node] = Lowest(node, successor)]
              /\ UNCHANGED <<adjacency, index, stack, components>>
  BY DEF Follow, Foremost
<1> DEFINE frames == [work EXCEPT ![Len(work)].todo = @ \ {successor}]
<1>3. /\ Resumed(edges, frames, successor) /\ successor \in Nodes(edges) /\ successor \in adjacency[Node(Len(work))]
  BY <1>1, ResumedOne
<1>4. CASE successor \notin DOMAIN index /\ Discover(successor, frames)
  <2> HIDE DEF frames
  <2> QED BY <1>3, <1>4, DiscoverKeeps DEF Found
<1>5. CASE /\ successor \in DOMAIN index
           /\ work' = frames
           /\ low' = [low EXCEPT ![Last(work).node] = Lowest(Last(work).node, successor)]
           /\ UNCHANGED <<adjacency, index, stack, components>>
  BY <1>1, <1>5, FollowFound DEF Found
<1> QED BY <1>2, <1>4, <1>5

\* The open nodes from one on: the component that is popped if the node is its root.
From(node) == {x \in Open : index[node] <= index[x]}

\* What is popped, and what is left.
LEMMA PopMeans ==
  ASSUME NEW edges, SearchTypes(edges), NEW node \in Open,
         NEW base, base = CHOOSE i \in 1..Len(stack) : stack[i] = node
  PROVE  /\ From(node) = {stack[i] : i \in base..Len(stack)} /\ IsFiniteSet(From(node))
         /\ Range(SubSeq(stack, 1, base - 1)) = Open \ From(node)
         /\ SubSeq(stack, 1, base - 1) \in Seq(Found)
         /\ LET left == SubSeq(stack, 1, base - 1)
            IN \A i, j \in 1..Len(left) : i < j => index[left[i]] < index[left[j]]
<1> DEFINE left == SubSeq(stack, 1, base - 1)
           m == Len(stack)
<1>1. /\ m \in Nat /\ DOMAIN stack = 1..m /\ Open \subseteq Found /\ stack \in Seq(Found)
      /\ \A i \in 1..m : stack[i] \in Open /\ index[stack[i]] \in Nat
      /\ \A x \in Open : \E i \in 1..m : stack[i] = x
      /\ \A i, j \in 1..m : i < j => index[stack[i]] < index[stack[j]]
      /\ IsFiniteSet(Found)
  BY OpenNodes DEF SearchTypes
<1>2. base \in 1..m /\ stack[base] = node
  BY <1>1
<1>3. base \in Nat /\ base - 1 \in Nat /\ base - 1 <= m
  BY <1>1, <1>2
<1>4. left \in Seq(Found) /\ Len(left) = base - 1 /\ DOMAIN left = 1..(base - 1) /\ \A i \in 1..(base - 1) : left[i] = stack[i]
  <2> HIDE DEF m
  <2>1. \A i \in 1..(base - 1) : i \in 1..m
    BY <1>1, <1>3
  <2>2. m = Len(stack)
    BY DEF m
  <2>3. left = [i \in 1..(base - 1) |-> stack[1 + i - 1]]
    BY <1>3
  <2>4. left = [i \in 1..(base - 1) |-> stack[i]]
    BY <1>3, <2>3
  <2>5. \A i \in 1..(base - 1) : stack[i] \in Found
    BY <1>1, <2>1
  <2> HIDE DEF left
  <2> QED BY <1>3, <2>4, <2>5
<1> HIDE DEF m, left
<1>5. \A i \in 1..m : index[node] <= index[stack[i]] <=> base <= i
  <2> TAKE i \in 1..m
  <2>1. i < base \/ i = base \/ base < i
    BY <1>1, <1>3
  <2>2. (i < base => index[stack[i]] < index[node]) /\ (base < i => index[node] < index[stack[i]])
    BY <1>1, <1>2
  <2>3. index[stack[i]] \in Nat /\ index[node] \in Nat /\ base \in Nat /\ i \in Nat
    BY <1>1, <1>2, <1>3
  <2> QED BY <1>2, <2>1, <2>2, <2>3
<1>6. From(node) = {stack[i] : i \in base..m}
  <2>1. ASSUME NEW x \in From(node) PROVE \E i \in base..m : x = stack[i]
    <3>1. PICK i \in 1..m : x = stack[i]
      BY <1>1 DEF From
    <3>2. index[node] <= index[stack[i]]
      BY <3>1 DEF From
    <3>3. base <= i
      BY <1>5, <3>2
    <3>4. i \in base..m
      BY <1>1, <1>3, <3>3
    <3> QED BY <3>1, <3>4
  <2>2. ASSUME NEW i \in base..m PROVE stack[i] \in From(node)
    <3>1. i \in 1..m /\ base <= i
      BY <1>1, <1>2, <1>3
    <3> QED BY <1>1, <1>5, <3>1 DEF From
  <2> QED BY <2>1, <2>2
<1>7. IsFiniteSet(From(node))
  BY <1>1, FS_Subset DEF From
<1>8. Range(left) = Open \ From(node)
  <2>1. Range(left) = {left[i] : i \in 1..(base - 1)}
    BY <1>4 DEF Range
  <2>2. ASSUME NEW x \in Open \ From(node) PROVE \E i \in 1..(base - 1) : x = left[i]
    <3>1. PICK i \in 1..m : x = stack[i]
      BY <1>1
    <3>2. ~ (base <= i)
      BY <1>1, <1>5, <3>1 DEF From
    <3>3. i \in 1..(base - 1)
      BY <1>1, <1>3, <3>2
    <3> QED BY <1>4, <3>1, <3>3
  <2>3. ASSUME NEW i \in 1..(base - 1) PROVE left[i] \in Open \ From(node)
    <3>1. i \in 1..m /\ ~ (base <= i)
      BY <1>1, <1>3
    <3> QED BY <1>1, <1>4, <1>5, <3>1 DEF From
  <2>4. \A x \in Range(left) : x \in Open \ From(node)
    BY <2>1, <2>3
  <2>5. \A x \in Open \ From(node) : x \in Range(left)
    BY <2>1, <2>2
  <2> QED BY <2>4, <2>5
<1>9. \A i, j \in 1..Len(left) : i < j => index[left[i]] < index[left[j]]
  <2> TAKE i, j \in 1..Len(left)
  <2>1. i \in 1..(base - 1) /\ j \in 1..(base - 1) /\ i \in 1..m /\ j \in 1..m
    BY <1>1, <1>3, <1>4
  <2> QED BY <1>1, <1>4, <2>1
<1> QED BY <1>4, <1>6, <1>7, <1>8, <1>9 DEF m, left

\* What it is to close a node: its frame goes, the frame before it takes over its low number.
LEMMA CloseMeans ==
  ASSUME NEW edges, SearchInv(edges), Close, NEW n, n = Len(work)
  PROVE  /\ n \in Nat \ {0} /\ work[n].todo = {}
         /\ work' \in Seq([node: Open, todo: SUBSET Nodes(edges)]) /\ Len(work') = n - 1
         /\ \A i \in 1..(n - 1) : i \in 1..n /\ work'[i] = work[i] /\ Node(i)' = Node(i)
         /\ index' = index /\ adjacency' = adjacency /\ low' \in [Found -> Nat]
         /\ \A i \in 1..(n - 1) :
              IF i = n - 1 /\ low[Node(n)] < low[Node(i)] THEN low'[Node(i)] = low[Node(n)]
              ELSE low'[Node(i)] = low[Node(i)]
         /\ IF low[Node(n)] = index[Node(n)]
            THEN /\ SearchTypes(edges)' /\ Open' = Open \ From(Node(n))
                 /\ components' = components \cup
                      (IF Cardinality(From(Node(n))) > 1 THEN {From(Node(n))} ELSE {})
            ELSE SearchTypes(edges)' /\ stack' = stack /\ components' = components
<1> DEFINE node == Node(n)
           F == [node: Open, todo: SUBSET Nodes(edges)]
           left == SubSeq(stack, 1, (CHOOSE i \in 1..Len(stack) : stack[i] = node) - 1)
<1>1. /\ work \in Seq(F) /\ work # << >> /\ n \in Nat \ {0} /\ n \in 1..n /\ Last(work) = work[n]
  <2>1. work \in Seq(F) /\ work # << >>
    BY DEF SearchInv, SearchTypes, Close
  <2> HIDE DEF F
  <2> QED BY <2>1 DEF Last
<1>2. Last(work).node = node /\ work[n].todo = {}
  BY <1>1 DEF Close, Node
<1>3. /\ Open \subseteq Found /\ \A x \in Found : index[x] \in Nat /\ low[x] \in Nat
      /\ \A i \in 1..n : Node(i) \in Open
      /\ \A i, j \in 1..n : i < j => index[Node(i)] < index[Node(j)]
      /\ low \in [Found -> Nat] /\ index \in [Found -> Nat]
  BY OpenNodes DEF SearchInv, SearchTypes
<1>4. /\ Front(work) \in Seq(F) /\ Len(Front(work)) = n - 1 /\ (Front(work) # << >> <=> n > 1)
      /\ \A i \in 1..(n - 1) : Front(work)[i] = work[i]
  <2> HIDE DEF F
  <2>0. n - 1 \in Nat /\ Len(work) = n
    BY <1>1
  <2>a. Front(work) = SubSeq(work, 1, n - 1)
    BY <2>0 DEF Front
  <2>b. Front(work) = [i \in 1..(n - 1) |-> work[1 + i - 1]]
    BY <2>0, <2>a
  <2>1. Front(work) = [i \in 1..(n - 1) |-> work[i]]
    BY <2>0, <2>b
  <2>2. \A i \in 1..(n - 1) : work[i] \in F
    BY <1>1
  <2> DEFINE front == Front(work)
  <2> HIDE DEF front
  <2>3. front = [i \in 1..(n - 1) |-> work[i]]
    BY <2>1 DEF front
  <2>4. front \in Seq(F) /\ Len(front) = n - 1 /\ \A i \in 1..(n - 1) : front[i] = work[i]
    BY <2>0, <2>2, <2>3
  <2>5. front # << >> <=> n > 1
    BY <1>1, <2>4
  <2> QED BY <2>4, <2>5 DEF front
<1>5. n > 1 => Last(Front(work)).node = Node(n - 1) /\ n - 1 \in 1..(n - 1) /\ n - 1 \in 1..n
  <2> HIDE DEF F
  <2> QED BY <1>1, <1>4 DEF Last, Node
<1>6. /\ work' = Front(work) /\ index' = index /\ adjacency' = adjacency
      /\ low' = IF Front(work) # << >> /\ low[node] < low[Last(Front(work)).node]
                THEN [low EXCEPT ![Last(Front(work)).node] = low[node]] ELSE low
  BY <1>2 DEF Close
<1>7. \A i \in 1..(n - 1) : i \in 1..n /\ work'[i] = work[i] /\ Node(i)' = Node(i)
  BY <1>1, <1>4, <1>6 DEF Node
<1>8. work' \in Seq(F) /\ Len(work') = n - 1
  BY <1>4, <1>6
<1>9. node \in Open /\ node \in Found /\ low[node] \in Nat
  BY <1>1, <1>3
<1> HIDE DEF F, node, left
<1>10. /\ low' \in [Found -> Nat]
       /\ \A i \in 1..(n - 1) :
            IF i = n - 1 /\ low[node] < low[Node(i)] THEN low'[Node(i)] = low[node] ELSE low'[Node(i)] = low[Node(i)]
  <2>1. CASE n > 1 /\ low[node] < low[Node(n - 1)]
    <3>1. low' = [low EXCEPT ![Node(n - 1)] = low[node]] /\ Node(n - 1) \in Found
      BY <1>3, <1>4, <1>5, <1>6, <2>1
    <3>2. \A i \in 1..(n - 1) : i = n - 1 \/ (Node(i) # Node(n - 1) /\ Node(i) \in Found)
      <4> TAKE i \in 1..(n - 1)
      <4>1. i \in 1..n /\ n - 1 \in 1..n /\ (i = n - 1 \/ i < n - 1)
        BY <1>1, <1>5, <2>1
      <4>2. Node(i) \in Found /\ index[Node(i)] \in Nat /\ index[Node(n - 1)] \in Nat
        BY <1>3, <4>1
      <4>3. i < n - 1 => index[Node(i)] < index[Node(n - 1)]
        BY <1>3, <4>1, Zenon
      <4> QED BY <4>1, <4>2, <4>3
    <3> QED BY <1>3, <1>9, <2>1, <3>1, <3>2
  <2>2. CASE ~ (n > 1 /\ low[node] < low[Node(n - 1)])
    <3>1. low' = low
      BY <1>4, <1>5, <1>6, <2>2
    <3>2. \A i \in 1..(n - 1) : n > 1
      BY <1>1
    <3> QED BY <1>3, <2>2, <3>1, <3>2
  <2> QED BY <2>1, <2>2
<1>11. /\ adjacency' = Adjacency(edges) /\ Found' = Found /\ index' = index
       /\ Found' \subseteq Nodes(edges) /\ IsFiniteSet(Found') /\ index' \in [Found' -> Nat] /\ low' \in [Found' -> Nat]
       /\ \A x \in Found' : index'[x] < Cardinality(Found')
       /\ \A i, j \in 1..Len(work') : i < j => index'[Node(i)'] < index'[Node(j)']
  <2>0. Found' = Found /\ index' = index
    BY <1>6 DEF Found
  <2>1. \A i, j \in 1..Len(work') : i < j => index[Node(i)'] < index[Node(j)']
    BY <1>3, <1>7, <1>8, ZenonT(30)
  <2> QED BY <1>3, <1>6, <1>10, <2>0, <2>1 DEF SearchInv, SearchTypes
<1>12. CASE low[node] # index[node]
  <2>1. stack' = stack /\ components' = components /\ Open' = Open
    BY <1>2, <1>12 DEF Close, Open
  <2>2. stack' \in Seq(Found) /\ \A i, j \in 1..Len(stack') : i < j => index[stack'[i]] < index[stack'[j]]
    BY <2>1 DEF SearchInv, SearchTypes
  <2>3. SearchTypes(edges)'
    <3>1. work' \in Seq([node: Open', todo: SUBSET Nodes(edges)])
      BY <1>8, <2>1 DEF F
    <3>2. stack' \in Seq(Found') /\ \A i, j \in 1..Len(stack') : i < j => index'[stack'[i]] < index'[stack'[j]]
      BY <1>11, <2>2
    <3> QED BY <1>11, <3>1, <3>2 DEF SearchTypes
  <2> QED BY <1>1, <1>2, <1>6, <1>7, <1>8, <1>10, <1>12, <2>1, <2>3 DEF F, node
<1>13. CASE low[node] = index[node]
  <2>1. /\ stack' = left
        /\ LET component == {stack[i] : i \in (CHOOSE i \in 1..Len(stack) : stack[i] = node)..Len(stack)}
           IN components' = components \cup (IF Cardinality(component) > 1 THEN {component} ELSE {})
    BY <1>2, <1>13 DEF Close, left
  <2>2. SearchTypes(edges)
    BY DEF SearchInv
  <2>3. /\ From(node) = {stack[i] : i \in (CHOOSE i \in 1..Len(stack) : stack[i] = node)..Len(stack)}
        /\ Range(left) = Open \ From(node) /\ left \in Seq(Found)
        /\ \A i, j \in 1..Len(left) : i < j => index[left[i]] < index[left[j]]
    BY <1>9, <2>2, PopMeans DEF left
  <2>4. Open' = Open \ From(node)
    BY <2>1, <2>3 DEF Open
  <2>5. components' = components \cup (IF Cardinality(From(node)) > 1 THEN {From(node)} ELSE {})
    BY <2>1, <2>3
  <2>6. work' \in Seq([node: Open', todo: SUBSET Nodes(edges)])
    <3>1. \A i \in 1..(n - 1) : work[i] \in F /\ Node(i) \in Open'
      <4> TAKE i \in 1..(n - 1)
      <4>1. i \in 1..n /\ i < n
        BY <1>1
      <4>2. Node(i) \in Open /\ index[Node(i)] < index[node] /\ index[Node(i)] \in Nat /\ index[node] \in Nat
        BY <1>1, <1>3, <4>1 DEF node
      <4>3. Node(i) \notin From(node)
        BY <4>2 DEF From
      <4> QED BY <1>1, <2>4, <4>1, <4>2, <4>3
    <3> DEFINE G == [node: Open', todo: SUBSET Nodes(edges)]
    <3>2. \A i \in 1..(n - 1) : work[i] \in G
      BY <3>1 DEF F, Node
    <3>3. \A i \in 1..(n - 1) : work'[i] \in G
      BY <1>7, <3>2
    <3> HIDE DEF G
    <3>4. work' \in Seq(G)
      BY <1>8, <3>3
    <3> QED BY <3>4 DEF G
  <2>7. SearchTypes(edges)'
    <3>1. stack' \in Seq(Found') /\ \A i, j \in 1..Len(stack') : i < j => index'[stack'[i]] < index'[stack'[j]]
      BY <1>11, <2>1, <2>3
    <3> QED BY <1>11, <2>6, <3>1 DEF SearchTypes
  <2> QED BY <1>1, <1>2, <1>6, <1>7, <1>8, <1>10, <1>13, <2>4, <2>5, <2>7 DEF F, node
<1> QED BY <1>12, <1>13

\* The open nodes from the last frame's node on all lead to one another.
LEMMA FromLeads ==
  ASSUME NEW edges, SearchInv(edges), NEW n, n = Len(work), n \in Nat \ {0}
  PROVE  \A x, y \in From(Node(n)) : Reaches(edges, x, y)
<1>1. /\ n \in 1..n /\ Node(n) \in Open /\ Open \subseteq Found /\ \A x \in Found : index[x] \in Nat
      /\ \A i \in 1..n : Node(i) \in Open /\ index[Node(i)] <= index[Node(n)]
  BY OpenNodes DEF SearchInv
<1>2. \A x \in From(Node(n)) : Reaches(edges, Node(n), x)
  BY <1>1 DEF SearchInv, ReachInv, From
<1>3. ASSUME NEW x \in From(Node(n))
      PROVE  Reaches(edges, x, Node(n))
  <2>1. PICK i \in 1..n : Reaches(edges, x, Node(i))
    BY DEF SearchInv, ReachInv, From
  <2>2. Reaches(edges, Node(i), Node(n))
    BY <1>1 DEF SearchInv, ReachInv
  <2> QED BY <2>1, <2>2, ReachesBasics
<1> QED BY <1>2, <1>3, ReachesBasics

\* No edge leads from them to an open node before them, if the low number says so.
LEMMA RootIsLowest ==
  ASSUME NEW edges, SearchInv(edges), NEW n, n = Len(work), n \in Nat \ {0},
         work[n].todo = {}, low[Node(n)] = index[Node(n)]
  PROVE  \A x \in From(Node(n)) : adjacency[x] \subseteq From(Node(n)) \cup Closed
<1>1. /\ n \in 1..n /\ Node(n) \in Open /\ Open \subseteq Found /\ \A x \in Found : index[x] \in Nat
      /\ \A i, j \in 1..n : i < j => index[Node(i)] < index[Node(j)]
      /\ \A i \in 1..n : Node(i) \in Open
  <2>1. SearchTypes(edges)
    BY DEF SearchInv
  <2>2. \A i, j \in 1..n : i < j => index[Node(i)] < index[Node(j)]
    BY <2>1 DEF SearchTypes
  <2> QED BY <2>1, <2>2, OpenNodes
<1> SUFFICES ASSUME NEW x \in From(Node(n)), NEW y \in adjacency[x]
             PROVE  y \in From(Node(n)) \cup Closed
  OBVIOUS
<1>2. x \in Open /\ x \in Found /\ index[Node(n)] <= index[x] /\ x \in Branch(n)
  BY <1>1 DEF From, Branch
<1>3. y \in Found
  <2> SUFFICES ASSUME y \notin Found PROVE FALSE
    OBVIOUS
  <2>1. PICK i \in 1..n : Node(i) = x /\ y \in work[i].todo
    BY <1>2 DEF SearchInv, EdgesInv
  <2>2. i = n \/ i < n
    BY <1>1
  <2>3. i < n => index[x] < index[Node(n)]
    BY <1>1, <2>1
  <2>4. index[x] \in Nat /\ index[Node(n)] \in Nat
    BY <1>1, <1>2
  <2> QED BY <1>2, <2>1, <2>2, <2>3, <2>4
<1>4. ASSUME y \in Open PROVE y \in From(Node(n))
  <2>1. low[Node(n)] <= index[y]
    BY <1>1, <1>2, <1>4 DEF SearchInv, LowInv
  <2> QED BY <1>4, <2>1 DEF From
<1> QED BY <1>3, <1>4 DEF Closed

\* So they are a component: none of them leads to another node that leads back, and if they
\* are several they are a circular dependency.
LEMMA RootIsComponent ==
  ASSUME NEW edges, SearchInv(edges), NEW n, n = Len(work), n \in Nat \ {0},
         work[n].todo = {}, low[Node(n)] = index[Node(n)]
  PROVE  /\ \A x \in From(Node(n)) : <<x, x>> \in DependsOn(edges) =>
              Circle(edges, x) = From(Node(n)) /\ Cardinality(From(Node(n))) > 1
         /\ Cardinality(From(Node(n))) > 1 => <<Node(n), Node(n)>> \in DependsOn(edges)
         /\ Node(n) \in From(Node(n))
<1> DEFINE K == From(Node(n))
           S == K \cup Closed
<1>1. /\ n \in 1..n /\ Node(n) \in Open /\ Open \subseteq Found /\ index[Node(n)] \in Nat
      /\ adjacency = Adjacency(edges) /\ Found \subseteq Nodes(edges) /\ IsFiniteSet(Found)
  <2>1. SearchTypes(edges)
    BY DEF SearchInv
  <2>2. adjacency = Adjacency(edges) /\ Found \subseteq Nodes(edges) /\ IsFiniteSet(Found)
    BY <2>1 DEF SearchTypes
  <2> QED BY <2>1, <2>2, OpenNodes
<1>2. Node(n) \in K /\ K \subseteq Open /\ IsFiniteSet(K)
  <2>1. K \subseteq Open
    BY DEF From
  <2> QED BY <1>1, <2>1, FS_Subset DEF From
<1>3. \A x, y \in K : Reaches(edges, x, y)
  BY FromLeads
<1>4. S \subseteq Nodes(edges) /\ (\A u \in S : Adjacency(edges)[u] \subseteq S)
      /\ Closed \subseteq Nodes(edges) /\ (\A u \in Closed : Adjacency(edges)[u] \subseteq Closed)
  BY <1>1, <1>2, RootIsLowest DEF SearchInv, EdgesInv, Closed
<1> HIDE DEF K, S
<1>5. ASSUME NEW x \in K, NEW y, Reaches(edges, x, y), Reaches(edges, y, x)
      PROVE  y \in K
  <2>1. y \in S
    BY <1>4, <1>5, DependsStays DEF S
  <2>2. y \notin Closed
    <3> SUFFICES ASSUME y \in Closed PROVE FALSE
      OBVIOUS
    <3>1. x \in Closed
      BY <1>4, <1>5, DependsStays
    <3> QED BY <1>2, <3>1 DEF Closed
  <2> QED BY <2>1, <2>2 DEF S
<1>6. Cardinality(K) > 1 <=> \E y \in K : y # Node(n)
  <2>1. Cardinality({Node(n)}) = 1 /\ IsFiniteSet({Node(n)}) /\ Cardinality(K) \in Nat
    BY <1>2, FS_Singleton, FS_CardinalityType
  <2>2. ASSUME NEW y \in K, y # Node(n) PROVE Cardinality(K) > 1
    <3>1. {Node(n)} \in SUBSET K /\ {Node(n)} # K
      BY <1>2, <2>2
    <3>2. /\ Cardinality({Node(n)}) <= Cardinality(K)
          /\ Cardinality(K) = Cardinality({Node(n)}) => K = {Node(n)}
      BY <1>2, <3>1, FS_Subset
    <3> QED BY <2>1, <3>1, <3>2
  <2>3. ASSUME \A y \in K : y = Node(n) PROVE ~ (Cardinality(K) > 1)
    <3>1. K = {Node(n)}
      BY <1>2, <2>3
    <3> QED BY <2>1, <3>1
  <2> QED BY <2>2, <2>3
<1>7. ASSUME NEW x \in K, <<x, x>> \in DependsOn(edges)
      PROVE  Circle(edges, x) = K /\ Cardinality(K) > 1
  <2>1. ASSUME NEW y \in Circle(edges, x) PROVE y \in K
    BY <1>5 DEF Circle, Reaches
  <2>2. ASSUME NEW y \in K PROVE y \in Circle(edges, x)
    <3>1. Reaches(edges, x, y) /\ Reaches(edges, y, x)
      BY <1>3, <1>7
    <3>2. <<x, y>> \in DependsOn(edges) /\ <<y, x>> \in DependsOn(edges)
      BY <1>7, <3>1 DEF Reaches
    <3> QED BY <3>2, DependsBasics DEF Circle
  <2>3. PICK m \in Adjacency(edges)[x] : Reaches(edges, m, x)
    BY <1>7, DependsFirst
  <2>4. x \in Nodes(edges) /\ m # x /\ Reaches(edges, x, m)
    BY <1>7, <2>3, DependsBasics, Successors, ReachesBasics
  <2>5. m \in K
    BY <1>5, <2>3, <2>4
  <2>6. \E y \in K : y # Node(n)
    BY <2>4, <2>5
  <2> QED BY <1>6, <2>1, <2>2, <2>6
<1>8. ASSUME Cardinality(K) > 1
      PROVE  <<Node(n), Node(n)>> \in DependsOn(edges)
  <2>1. PICK y \in K : y # Node(n)
    BY <1>6, <1>8
  <2>2. <<Node(n), y>> \in DependsOn(edges) /\ <<y, Node(n)>> \in DependsOn(edges)
    BY <1>2, <1>3, <2>1 DEF Reaches
  <2> QED BY <2>2, DependsBasics
<1> QED BY <1>2, <1>7, <1>8 DEF K

\* What both ways of closing rest on: the numbers of the frames, and that only the last frame
\* is gone.
LEMMA CloseFacts ==
  ASSUME NEW edges, SearchInv(edges), Close, NEW n, n = Len(work)
  PROVE  /\ n \in Nat \ {0} /\ n \in 1..n /\ Open \subseteq Found /\ Found \subseteq Nodes(edges)
         /\ adjacency = Adjacency(edges)
         /\ \A x \in Found : index[x] \in Nat /\ low[x] \in Nat
         /\ \A i \in 1..n : Node(i) \in Open /\ (i = n \/ (i \in 1..(n - 1) /\ index[Node(i)] < index[Node(n)]))
         /\ \A i \in 1..n : low[Node(i)] <= index[Node(i)]
         /\ \A i \in 1..(n - 1) : /\ i < n /\ i \in 1..n /\ low'[Node(i)] \in Nat
                                  /\ low'[Node(i)] <= low[Node(i)]
                                  /\ i = n - 1 => low'[Node(i)] <= low[Node(n)]
                                  /\ low'[Node(i)] = low[Node(i)] \/ (i = n - 1 /\ low'[Node(i)] = low[Node(n)])
         /\ Found' = Found
<1>0. SearchTypes(edges)
  BY DEF SearchInv
<1>1. /\ n \in Nat \ {0} /\ index' = index
      /\ \A i \in 1..(n - 1) :
           IF i = n - 1 /\ low[Node(n)] < low[Node(i)] THEN low'[Node(i)] = low[Node(n)]
           ELSE low'[Node(i)] = low[Node(i)]
  BY CloseMeans
<1>2. /\ Open \subseteq Found /\ \A x \in Found : index[x] \in Nat /\ low[x] \in Nat
      /\ \A i \in 1..n : Node(i) \in Open
  BY <1>0, OpenNodes
<1>3. /\ adjacency = Adjacency(edges) /\ Found \subseteq Nodes(edges)
      /\ \A i, j \in 1..n : i < j => index[Node(i)] < index[Node(j)]
  BY <1>0 DEF SearchTypes
<1>4. n \in 1..n /\ \A i \in 1..n : i = n \/ (i \in 1..(n - 1) /\ i < n)
  BY <1>1
<1>5. \A i \in 1..(n - 1) : i \in 1..n /\ i < n
  BY <1>1
<1>6. \A i \in 1..n : i = n \/ (i \in 1..(n - 1) /\ index[Node(i)] < index[Node(n)])
  BY <1>3, <1>4
<1>7. \A i \in 1..n : low[Node(i)] <= index[Node(i)]
  BY DEF SearchInv, LowInv
<1>8. ASSUME NEW i \in 1..(n - 1)
      PROVE  /\ low'[Node(i)] \in Nat /\ low'[Node(i)] <= low[Node(i)]
             /\ i = n - 1 => low'[Node(i)] <= low[Node(n)]
             /\ low'[Node(i)] = low[Node(i)] \/ (i = n - 1 /\ low'[Node(i)] = low[Node(n)])
  <2>1. low[Node(i)] \in Nat /\ low[Node(n)] \in Nat
    BY <1>2, <1>4, <1>5
  <2> QED BY <1>1, <2>1
<1>9. Found' = Found
  BY <1>1 DEF Found
<1> QED BY <1>1, <1>2, <1>3, <1>4, <1>5, <1>6, <1>7, <1>8, <1>9

\* A node that is not the root of a component leads to an open node before it, by which those
\* that led to it lead to an earlier frame.
LEMMA CloseWithin ==
  ASSUME NEW edges, SearchInv(edges), Close, NEW n, n = Len(work), low[Node(n)] # index[Node(n)]
  PROVE  SearchInv(edges)'
<1>1. /\ n \in Nat \ {0} /\ n \in 1..n /\ Open \subseteq Found /\ Found \subseteq Nodes(edges)
      /\ adjacency = Adjacency(edges)
      /\ \A x \in Found : index[x] \in Nat /\ low[x] \in Nat
      /\ \A i \in 1..n : Node(i) \in Open /\ (i = n \/ (i \in 1..(n - 1) /\ index[Node(i)] < index[Node(n)]))
      /\ \A i \in 1..n : low[Node(i)] <= index[Node(i)]
      /\ \A i \in 1..(n - 1) : /\ i < n /\ i \in 1..n /\ low'[Node(i)] \in Nat
                               /\ low'[Node(i)] <= low[Node(i)]
                               /\ i = n - 1 => low'[Node(i)] <= low[Node(n)]
                               /\ low'[Node(i)] = low[Node(i)] \/ (i = n - 1 /\ low'[Node(i)] = low[Node(n)])
      /\ Found' = Found
  BY CloseFacts
<1>2. /\ work[n].todo = {} /\ Len(work') = n - 1
      /\ \A i \in 1..(n - 1) : work'[i] = work[i] /\ Node(i)' = Node(i)
      /\ index' = index /\ adjacency' = adjacency
      /\ SearchTypes(edges)' /\ stack' = stack /\ components' = components
  BY CloseMeans
<1>3. Open' = Open /\ Closed' = Closed
  BY <1>1, <1>2 DEF Open, Closed
<1>4. EdgesInv'
  <2>1. ASSUME NEW x \in Found, NEW y \in adjacency[x] \ Found
        PROVE  \E i \in 1..(n - 1) : Node(i) = x /\ y \in work[i].todo
    <3>1. PICK i \in 1..n : Node(i) = x /\ y \in work[i].todo
      BY <2>1 DEF SearchInv, EdgesInv
    <3>2. i # n
      BY <1>2, <3>1
    <3> QED BY <1>1, <3>1, <3>2
  <2>2. \A i \in 1..(n - 1) : work[i].todo \subseteq adjacency[Node(i)]
    BY <1>1 DEF SearchInv, EdgesInv
  <2>3. \A x \in Closed : adjacency[x] \subseteq Closed
    BY DEF SearchInv, EdgesInv
  <2>4. \A x \in Closed' : adjacency'[x] \subseteq Closed'
    BY <1>2, <1>3, <2>3
  <2>5. \A i \in 1..Len(work') : work'[i].todo \subseteq adjacency'[Node(i)']
    BY <1>2, <2>2
  <2>6. \A x \in Found' : \A y \in adjacency'[x] \ Found' : \E i \in 1..Len(work') : Node(i)' = x /\ y \in work'[i].todo
    <3> TAKE x \in Found'
    <3> TAKE y \in adjacency'[x] \ Found'
    <3>1. PICK i \in 1..(n - 1) : Node(i) = x /\ y \in work[i].todo
      BY <1>1, <1>2, <2>1
    <3>2. i \in 1..Len(work') /\ Node(i)' = x /\ work'[i] = work[i]
      BY <1>2, <3>1
    <3> QED BY <3>1, <3>2
  <2> QED BY <2>4, <2>5, <2>6 DEF EdgesInv
<1>5. ReachInv(edges)'
  <2>1. \A i \in 1..(n - 1) : \A x \in Open : index[Node(i)] <= index[x] => Reaches(edges, Node(i), x)
    BY <1>1 DEF SearchInv, ReachInv
  <2>2. ASSUME NEW x \in Open
        PROVE  \E i \in 1..(n - 1) : index[Node(i)] <= index[x] /\ Reaches(edges, x, Node(i))
    <3>1. PICK i \in 1..n : index[Node(i)] <= index[x] /\ Reaches(edges, x, Node(i))
      BY DEF SearchInv, ReachInv
    <3>2. CASE i # n
      BY <1>1, <3>1, <3>2
    <3>3. CASE i = n
      <4>1. PICK w \in Open : index[w] = low[Node(n)] /\ Reaches(edges, Node(n), w)
        BY <1>1 DEF SearchInv, LowInv
      <4>2. PICK j \in 1..n : index[Node(j)] <= index[w] /\ Reaches(edges, w, Node(j))
        BY DEF SearchInv, ReachInv
      <4>3. /\ index[Node(j)] \in Nat /\ index[w] \in Nat /\ index[x] \in Nat /\ index[Node(n)] \in Nat
            /\ low[Node(n)] <= index[Node(n)] /\ index[Node(n)] <= index[x]
        BY <1>1, <3>1, <3>3
      <4>4. index[Node(j)] < index[Node(n)] /\ index[Node(j)] <= index[x]
        BY <4>1, <4>2, <4>3
      <4>5. j # n
        BY <4>3, <4>4
      <4>6. Reaches(edges, x, Node(j))
        BY <3>1, <3>3, <4>1, <4>2, ReachesBasics
      <4> QED BY <1>1, <4>4, <4>5, <4>6
    <3> QED BY <3>2, <3>3
  <2> QED BY <1>2, <1>3, <2>1, <2>2 DEF ReachInv
<1>6. LowInv(edges)'
  <2>1. ASSUME NEW i \in 1..(n - 1)
        PROVE  /\ low'[Node(i)] <= index[Node(i)]
               /\ \E x \in Open : index[x] = low'[Node(i)] /\ Reaches(edges, Node(i), x)
    <3>1. low'[Node(i)] <= index[Node(i)]
      <4>1. low'[Node(i)] <= low[Node(i)] /\ low[Node(i)] <= index[Node(i)]
        BY <1>1
      <4>2. low'[Node(i)] \in Nat /\ low[Node(i)] \in Nat /\ index[Node(i)] \in Nat
        BY <1>1
      <4> QED BY <4>1, <4>2
    <3>2. PICK x \in Open : index[x] = low[Node(i)] /\ Reaches(edges, Node(i), x)
      BY <1>1 DEF SearchInv, LowInv
    <3>3. PICK y \in Open : index[y] = low[Node(n)] /\ Reaches(edges, Node(n), y)
      BY <1>1 DEF SearchInv, LowInv
    <3>4. Reaches(edges, Node(i), y)
      <4>1. Node(n) \in Open /\ index[Node(i)] <= index[Node(n)]
        BY <1>1
      <4>2. Reaches(edges, Node(i), Node(n))
        BY <1>1, <4>1 DEF SearchInv, ReachInv
      <4> QED BY <3>3, <4>2, ReachesBasics
    <3> QED BY <1>1, <3>1, <3>2, <3>3, <3>4
  <2>2. ASSUME NEW i \in 1..(n - 1), NEW x \in Branch(i)', NEW y \in adjacency[x] \cap Open
        PROVE  low'[Node(i)] <= index[y] \/ (x = Node(i) /\ y \in work[i].todo)
    <3>0. /\ x \in Open /\ index[Node(i)] <= index[x] /\ (i < n - 1 => index[x] < index[work'[i + 1].node])
          /\ low'[Node(i)] \in Nat /\ low[Node(i)] \in Nat /\ low[Node(n)] \in Nat /\ index[y] \in Nat
          /\ index[x] \in Nat /\ index[Node(n)] \in Nat
      BY <1>1, <1>2, <1>3 DEF Branch, Node
    <3>1. CASE x \in Branch(i)
      <4>1. low[Node(i)] <= index[y] \/ (x = Node(i) /\ y \in work[i].todo)
        BY <1>1, <3>1 DEF SearchInv, LowInv
      <4> QED BY <1>1, <3>0, <4>1
    <3>2. CASE x \notin Branch(i)
      <4>1. i = n - 1
        <5> SUFFICES ASSUME i # n - 1 PROVE FALSE
          OBVIOUS
        <5>1. i < n - 1 /\ i + 1 \in 1..(n - 1)
          BY <1>1
        <5>2. work'[i + 1].node = Node(i + 1)
          BY <1>2, <5>1 DEF Node
        <5>3. index[x] < index[Node(i + 1)]
          BY <3>0, <5>1, <5>2
        <5> QED BY <3>0, <3>2, <5>3 DEF Branch
      <4>2. Node(i + 1) = Node(n)
        BY <1>1, <4>1
      <4>3. ~ (index[x] < index[Node(n)])
        BY <3>0, <3>2, <4>2 DEF Branch
      <4>4. x \in Branch(n)
        <5>1. index[Node(n)] <= index[x]
          <6>1. index[x] \in Nat /\ index[Node(n)] \in Nat
            BY <3>0
          <6> QED BY <4>3, <6>1
        <5>2. ~ (n < Len(work))
          BY <1>1
        <5> QED BY <3>0, <5>1, <5>2 DEF Branch
      <4>5. low[Node(n)] <= index[y]
        BY <1>1, <1>2, <4>4 DEF SearchInv, LowInv
      <4> QED BY <1>1, <3>0, <4>1, <4>5
    <3> QED BY <3>1, <3>2
  <2> QED BY <1>2, <1>3, <2>1, <2>2 DEF LowInv
<1>7. ComponentsInv(edges)'
  BY <1>2, <1>3 DEF SearchInv, ComponentsInv
<1> QED BY <1>2, <1>4, <1>5, <1>6, <1>7 DEF SearchInv

\* A root is closed with its component: no open node before it was reached, so all its
\* successors are closed with it or were before.
LEMMA CloseRoot ==
  ASSUME NEW edges, SearchInv(edges), Close, NEW n, n = Len(work), low[Node(n)] = index[Node(n)]
  PROVE  SearchInv(edges)'
<1> DEFINE K == From(Node(n))
<1>1. /\ n \in Nat \ {0} /\ n \in 1..n /\ Open \subseteq Found /\ Found \subseteq Nodes(edges)
      /\ adjacency = Adjacency(edges)
      /\ \A x \in Found : index[x] \in Nat /\ low[x] \in Nat
      /\ \A i \in 1..n : Node(i) \in Open /\ (i = n \/ (i \in 1..(n - 1) /\ index[Node(i)] < index[Node(n)]))
      /\ \A i \in 1..n : low[Node(i)] <= index[Node(i)]
      /\ \A i \in 1..(n - 1) : /\ i < n /\ i \in 1..n /\ low'[Node(i)] \in Nat
                               /\ low'[Node(i)] <= low[Node(i)]
                               /\ i = n - 1 => low'[Node(i)] <= low[Node(n)]
                               /\ low'[Node(i)] = low[Node(i)] \/ (i = n - 1 /\ low'[Node(i)] = low[Node(n)])
      /\ Found' = Found
  BY CloseFacts
<1>2. /\ work[n].todo = {} /\ Len(work') = n - 1
      /\ \A i \in 1..(n - 1) : work'[i] = work[i] /\ Node(i)' = Node(i)
      /\ index' = index /\ adjacency' = adjacency
      /\ SearchTypes(edges)' /\ Open' = Open \ K
      /\ components' = components \cup (IF Cardinality(K) > 1 THEN {K} ELSE {})
  BY CloseMeans
<1>3. /\ \A x \in K : adjacency[x] \subseteq K \cup Closed
      /\ \A x \in K : <<x, x>> \in DependsOn(edges) => Circle(edges, x) = K /\ Cardinality(K) > 1
      /\ Cardinality(K) > 1 => <<Node(n), Node(n)>> \in DependsOn(edges)
      /\ Node(n) \in K
  BY <1>1, <1>2, RootIsLowest, RootIsComponent
<1>4. K \subseteq Open /\ \A x \in Open : index[x] < index[Node(n)] <=> x \notin K
  BY <1>1 DEF From
<1> HIDE DEF K
<1>5. Closed' = Closed \cup K
  BY <1>1, <1>2, <1>4 DEF Closed
<1>6. \A i \in 1..(n - 1) : low'[Node(i)] = low[Node(i)]
  <2> TAKE i \in 1..(n - 1)
  <2>1. /\ low[Node(i)] <= index[Node(i)] /\ index[Node(i)] < index[Node(n)] /\ low'[Node(i)] <= low[Node(i)]
        /\ low[Node(i)] \in Nat /\ index[Node(i)] \in Nat /\ index[Node(n)] \in Nat
    BY <1>1
  <2>2. low'[Node(i)] = low[Node(i)] \/ low'[Node(i)] = index[Node(n)]
    BY <1>1
  <2> QED BY <2>1, <2>2
<1>7. EdgesInv'
  <2>1. ASSUME NEW x \in Found, NEW y \in adjacency[x] \ Found
        PROVE  \E i \in 1..(n - 1) : Node(i) = x /\ y \in work[i].todo
    <3>1. PICK i \in 1..n : Node(i) = x /\ y \in work[i].todo
      BY <2>1 DEF SearchInv, EdgesInv
    <3>2. i # n
      BY <1>2, <3>1
    <3> QED BY <1>1, <3>1, <3>2
  <2>2. \A i \in 1..(n - 1) : work[i].todo \subseteq adjacency[Node(i)]
    BY <1>1 DEF SearchInv, EdgesInv
  <2>3. \A x \in Closed \cup K : adjacency[x] \subseteq Closed \cup K
    BY <1>3 DEF SearchInv, EdgesInv
  <2>4. \A x \in Closed' : adjacency'[x] \subseteq Closed'
    BY <1>2, <1>5, <2>3
  <2>5. \A i \in 1..Len(work') : work'[i].todo \subseteq adjacency'[Node(i)']
    BY <1>2, <2>2
  <2>6. \A x \in Found' : \A y \in adjacency'[x] \ Found' : \E i \in 1..Len(work') : Node(i)' = x /\ y \in work'[i].todo
    <3> TAKE x \in Found'
    <3> TAKE y \in adjacency'[x] \ Found'
    <3>1. PICK i \in 1..(n - 1) : Node(i) = x /\ y \in work[i].todo
      BY <1>1, <1>2, <2>1
    <3>2. i \in 1..Len(work') /\ Node(i)' = x /\ work'[i] = work[i]
      BY <1>2, <3>1
    <3> QED BY <3>1, <3>2
  <2> QED BY <2>4, <2>5, <2>6 DEF EdgesInv
<1>8. ReachInv(edges)'
  <2>1. \A i \in 1..(n - 1) : \A x \in Open : index[Node(i)] <= index[x] => Reaches(edges, Node(i), x)
    BY <1>1 DEF SearchInv, ReachInv
  <2>2. ASSUME NEW x \in Open \ K
        PROVE  \E i \in 1..(n - 1) : index[Node(i)] <= index[x] /\ Reaches(edges, x, Node(i))
    <3>1. PICK i \in 1..n : index[Node(i)] <= index[x] /\ Reaches(edges, x, Node(i))
      BY DEF SearchInv, ReachInv
    <3>2. i # n
      <4>1. index[x] < index[Node(n)] /\ index[x] \in Nat /\ index[Node(n)] \in Nat
        BY <1>1, <1>4
      <4> QED BY <3>1, <4>1
    <3> QED BY <1>1, <3>1, <3>2
  <2> QED BY <1>2, <2>1, <2>2 DEF ReachInv
<1>9. LowInv(edges)'
  <2>1. ASSUME NEW i \in 1..(n - 1)
        PROVE  /\ low'[Node(i)] <= index[Node(i)]
               /\ \E x \in Open \ K : index[x] = low'[Node(i)] /\ Reaches(edges, Node(i), x)
    <3>1. PICK x \in Open : index[x] = low[Node(i)] /\ Reaches(edges, Node(i), x)
      BY <1>1 DEF SearchInv, LowInv
    <3>2. index[x] < index[Node(n)]
      <4>0. i \in 1..n /\ i # n
        BY <1>1
      <4>1. low[Node(i)] <= index[Node(i)] /\ index[Node(i)] < index[Node(n)]
        BY <1>1, <4>0
      <4>2. low[Node(i)] \in Nat /\ index[Node(i)] \in Nat /\ index[Node(n)] \in Nat
        BY <1>1, <4>0
      <4> QED BY <3>1, <4>1, <4>2
    <3> QED BY <1>1, <1>4, <1>6, <3>1, <3>2
  <2>2. ASSUME NEW i \in 1..(n - 1), NEW x \in Branch(i)', NEW y \in adjacency[x] \cap (Open \ K)
        PROVE  low'[Node(i)] <= index[y] \/ (x = Node(i) /\ y \in work[i].todo)
    <3>0. /\ x \in Open \ K /\ index[Node(i)] <= index[x] /\ (i < n - 1 => index[x] < index[work'[i + 1].node])
      BY <1>1, <1>2 DEF Branch, Node
    <3>1. x \in Branch(i)
      <4>1. CASE i = n - 1
        <5>1. Node(i + 1) = Node(n)
          BY <1>1, <4>1
        <5> QED BY <1>4, <3>0, <5>1 DEF Branch
      <4>2. CASE i # n - 1
        <5>1. i < n - 1 /\ i + 1 \in 1..(n - 1)
          BY <1>1, <4>2
        <5>2. work'[i + 1].node = Node(i + 1)
          BY <1>2, <5>1 DEF Node
        <5>3. index[x] < index[Node(i + 1)]
          BY <3>0, <5>1, <5>2
        <5> QED BY <3>0, <5>3 DEF Branch
      <4> QED BY <4>1, <4>2
    <3>2. low[Node(i)] <= index[y] \/ (x = Node(i) /\ y \in work[i].todo)
      BY <1>1, <3>1 DEF SearchInv, LowInv
    <3> QED BY <1>6, <3>2
  <2> QED BY <1>2, <2>1, <2>2 DEF LowInv
<1>10. ComponentsInv(edges)'
  <2> DEFINE Of(S) == {Circle(edges, x) : x \in {y \in S : <<y, y>> \in DependsOn(edges)}}
  <2>1. components = Of(Closed)
    BY DEF SearchInv, ComponentsInv
  <2>2. Of(Closed \cup K) = Of(Closed) \cup Of(K)
    OBVIOUS
  <2>3. CASE Cardinality(K) > 1
    <3>1. Of(K) = {K}
      BY <1>3, <2>3
    <3> QED BY <1>2, <1>5, <2>1, <2>2, <2>3, <3>1 DEF ComponentsInv
  <2>4. CASE ~ (Cardinality(K) > 1)
    <3>1. Of(K) = {}
      BY <1>3, <2>4
    <3> QED BY <1>2, <1>5, <2>1, <2>2, <2>4, <3>1 DEF ComponentsInv
  <2> QED BY <2>3, <2>4
<1> QED BY <1>2, <1>7, <1>8, <1>9, <1>10 DEF SearchInv

\* The search begins with nothing found, and every step of it keeps the invariant.
LEMMA SearchBegins ==
  ASSUME NEW edges, Idle, Begin(edges)
  PROVE  SearchInv(edges)'
<1>1. /\ adjacency' = Adjacency(edges) /\ index' = << >> /\ low' = << >> /\ stack' = << >> /\ work' = << >>
      /\ components' = {}
  BY DEF Idle, Begin
<1>2. Found' = {} /\ Open' = {} /\ Closed' = {} /\ Len(work') = 0 /\ Len(stack') = 0
  BY <1>1 DEF Found, Open, Closed, Range
<1>3. SearchTypes(edges)'
  <2>1. index' \in [{} -> Nat] /\ low' \in [{} -> Nat]
    BY <1>1
  <2>2. IsFiniteSet({}) /\ stack' \in Seq({}) /\ work' \in Seq([node: {}, todo: SUBSET Nodes(edges)])
    BY <1>1, FS_EmptySet
  <2> QED BY <1>1, <1>2, <2>1, <2>2 DEF SearchTypes
<1> QED BY <1>1, <1>2, <1>3 DEF SearchInv, EdgesInv, ReachInv, LowInv, ComponentsInv

\* Every step of the search keeps its invariant.
LEMMA SearchKeeps ==
  ASSUME NEW edges, SearchInv(edges), Search
  PROVE  SearchInv(edges)'
<1>1. Close => SearchInv(edges)'
  BY CloseWithin, CloseRoot
<1> QED BY <1>1, NextRootKeeps, FollowKeeps DEF Search

\* At the end no node is open, so that the components are the circular dependencies of all.
LEMMA SearchEnds ==
  ASSUME NEW edges, SearchInv(edges), Searched
  PROVE  components = CircularDependencies(edges)
<1> DEFINE D == DependsOn(edges)
<1>1. Len(work) = 0 /\ Found = Nodes(edges)
  BY Successors DEF Searched, SearchInv, SearchTypes, Found
<1>2. Open = {}
  BY <1>1 DEF SearchInv, ReachInv
<1>3. Closed = Nodes(edges)
  BY <1>1, <1>2 DEF Closed
<1>4. \A p \in D : p = <<p[1], p[2]>>
  BY DEF DependsOn
<1>5. \A x \in Nodes(edges) :
        Circle(edges, x) = {m \in Range([p \in D |-> p[2]]) : <<x, m>> \in D /\ <<m, x>> \in D}
  <2> TAKE x \in Nodes(edges)
  <2>1. \A m : <<x, m>> \in D => m \in Nodes(edges) /\ m \in Range([p \in D |-> p[2]])
    <3> TAKE m
    <3> HAVE <<x, m>> \in D
    <3>1. m \in Nodes(edges)
      BY DependsBasics
    <3>2. <<x, m>>[2] = m
      OBVIOUS
    <3> HIDE DEF D
    <3> QED BY <3>1, <3>2 DEF Range
  <2> QED BY <2>1 DEF Circle
<1>6. {y \in Nodes(edges) : <<y, y>> \in D} = {p[1] : p \in {q \in D : q[1] = q[2]}}
  <2>1. ASSUME NEW y \in Nodes(edges), <<y, y>> \in D
        PROVE  y \in {p[1] : p \in {q \in D : q[1] = q[2]}}
    <3>1. <<y, y>>[1] = y /\ <<y, y>>[2] = y
      OBVIOUS
    <3> HIDE DEF D
    <3> QED BY <2>1, <3>1
  <2>2. ASSUME NEW q \in D, q[1] = q[2]
        PROVE  q[1] \in Nodes(edges) /\ <<q[1], q[1]>> \in D
    <3>1. <<q[1], q[2]>> \in D
      BY <1>4
    <3> QED BY <2>2, <3>1, DependsBasics
  <2> HIDE DEF D
  <2> QED BY <2>1, <2>2
<1>7. components = {Circle(edges, x) : x \in {y \in Nodes(edges) : <<y, y>> \in D}}
  BY <1>3 DEF SearchInv, ComponentsInv
<1>8. CircularDependencies(edges) =
        {{m \in Range([p \in D |-> p[2]]) : <<n, m>> \in D /\ <<m, n>> \in D}
           : n \in {p[1] : p \in {q \in D : q[1] = q[2]}}}
  BY DEF CircularDependencies
<1> HIDE DEF D
<1>9. components = {Circle(edges, x) : x \in {p[1] : p \in {q \in D : q[1] = q[2]}}}
  BY <1>6, <1>7
<1> DEFINE P == {p[1] : p \in {q \in D : q[1] = q[2]}}
           All(n) == {m \in Range([p \in D |-> p[2]]) : <<n, m>> \in D /\ <<m, n>> \in D}
<1>10. \A x \in P : Circle(edges, x) = All(x)
  BY <1>5, <1>6
<1>11. CircularDependencies(edges) = {All(n) : n \in P} /\ components = {Circle(edges, x) : x \in P}
  BY <1>8, <1>9
<1> HIDE DEF P, All
<1> QED BY <1>10, <1>11

(***************************************************************************)
(* The search of a command.                                                *)
(***************************************************************************)
\* While a document is checked its search keeps its invariant; otherwise there is none.
SearchState ==
  IF pc = "checking" THEN \A r \in Requests : r = request => SearchInv(SearchedEdges(LoadNyx(r.file, Sources)))
  ELSE Idle

\* A command begins a search of its document, and the verdict on the document ends it.
LEMMA SearchStateStep == CommandInv /\ SearchState /\ [Next]_vars => SearchState'
<1> SUFFICES ASSUME CommandInv, SearchState, [Next]_vars PROVE SearchState'
  OBVIOUS
<1>0. ASSUME UNCHANGED searchVars, pc # "checking", pc' # "checking" PROVE SearchState'
  BY <1>0 DEF SearchState, searchVars, Idle
<1>1. ASSUME NEW edges, SearchInv(edges), UNCHANGED searchVars PROVE SearchInv(edges)'
  BY <1>1, SMTT(30) DEF SearchInv, SearchTypes, EdgesInv, ReachInv, LowInv, ComponentsInv, Branch, Node, Found, Open,
              Closed, searchVars
<1>2. ASSUME NEW r \in Requests, Give(r) PROVE SearchState'
  <2>1. CASE Command(r)
    <3> DEFINE edges == SearchedEdges(LoadNyx(r.file, Sources))
    <3>1. /\ pc = "idle" /\ request' = r
          /\ (pc' = "parse_error" /\ UNCHANGED searchVars) \/ (pc' = "checking" /\ Begin(edges))
      BY <2>1 DEF Command
    <3>2. CASE pc' = "checking" /\ Begin(edges)
      <4>1. Idle
        BY <3>1 DEF SearchState
      <4> HIDE DEF edges
      <4>2. SearchInv(edges)'
        BY <3>2, <4>1, SearchBegins
      <4> QED BY <3>1, <3>2, <4>2 DEF SearchState, edges
    <3> QED BY <1>0, <3>1, <3>2
  <2>2. CASE Call(r)
    BY <1>0, <2>2 DEF Call
  <2> QED BY <1>2, <2>1, <2>2 DEF Give
<1>3. CASE ParseFails \/ PolicyCheck \/ EvalRun \/ ConnectorPlan \/ ContextBuild \/ Readiness
  BY <1>3, <1>0 DEF ParseFails, PolicyCheck, EvalRun, ConnectorPlan, ContextBuild, Readiness, End
<1>4. CASE SearchStep
  <2>1. /\ pc = "checking" /\ pc' = "checking" /\ request' = request /\ Search
    BY <1>4 DEF SearchStep, runVars
  <2>2. ASSUME NEW r \in Requests, r = request
        PROVE  SearchInv(SearchedEdges(LoadNyx(r.file, Sources)))'
    <3>1. SearchInv(SearchedEdges(LoadNyx(r.file, Sources)))
      BY <2>1, <2>2 DEF SearchState
    <3> QED BY <2>1, <3>1, SearchKeeps
  <2> QED BY <2>1, <2>2 DEF SearchState
<1>5. CASE UNCHANGED vars
  <2>1. pc' = pc /\ request' = request /\ UNCHANGED searchVars
    BY <1>5 DEF vars, runVars
  <2>2. CASE pc = "checking"
    BY <1>1, <2>1, <2>2 DEF SearchState
  <2> QED BY <1>0, <2>1, <2>2
<1>6. CASE Checked
  BY <1>6 DEF Checked, End, Forget, Idle, SearchState
<1>7. CASE StartRun \/ WriteFile \/ WriteManifest \/ Crash
  BY <1>0, <1>7 DEF StartRun, WriteFile, WriteManifest, Crash, End
<1> QED BY <1>2, <1>3, <1>4, <1>5, <1>6, <1>7 DEF Next, Requests

\* The search reports exactly the circular dependencies of the document's graph, whatever the
\* graph is (checker.py:_dependency_cycles).
THEOREM CyclesAreExact == Spec => []CyclesExact
<1>1. Init => SearchState
  BY DEF Init, SearchState
<1>2. CommandInv /\ SearchState => CyclesExact
  <2> SUFFICES ASSUME CommandInv, SearchState, pc = "checking", Searched
               PROVE  components = CircularDependencies(SearchedEdges(Document))
    BY DEF CyclesExact
  <2>1. SearchInv(SearchedEdges(Document))
    BY DEF CommandInv, SearchState, Document
  <2> QED BY <2>1, SearchEnds
<1> QED BY <1>1, <1>2, SearchStateStep, CommandInvariant, PTL DEF Spec
===============================================================================
