-------------------------- MODULE GovernanceWorkspace --------------------------
(***************************************************************************)
(* A directory with a contract, pack files, a profile lock and perhaps a   *)
(* saved effective approval, and the processes that check, report, resolve *)
(* and lock it while its files are edited.  Every command reads the files  *)
(* one after the other.                                                    *)
(***************************************************************************)
EXTENDS GovernanceComposition

CONSTANTS
  Procs,
  Directories,  \* where packs are looked for: a sequence of [tier, paths], paths in the order of their names
  Scenarios     \* how a history may begin and what may happen in it: [files, document, lock, artifact],
                \* the requests and what is put into files and document, and as bounds commands and edits

\* What nornyx.profiles.lock may be: its entries are those of a lock, or it is none.
LockFile(l) ==
  l # Absent =>
    /\ l = [link |-> l.link, writable |-> l.writable, entries |-> l.entries]
    /\ l.entries # IllTyped =>
         \A e \in l.entries : e = [id |-> e.id, version |-> e.version, tier |-> e.tier, hash |-> e.hash]
ASSUME ScenarioAssumption ==
  \A s \in Scenarios :
    /\ LockFile(s.lock) /\ s.edits \in Nat
    /\ \A d \in {s.document} \cup s.documents : d.tree \in DocumentNodes

VARIABLES
  files,     \* path -> payload or Absent
  document,  \* the contract
  lock,      \* nornyx.profiles.lock: Absent or [link, writable, entries]
  temps,     \* how many temporary files of lock writers there are
  artifact,  \* a saved effective approval, or None
  procs,     \* what each process is doing and what its last command found
  started,   \* how many commands have been started
  edits,     \* how many edits may still be made
  scenario

vars == <<files, document, lock, temps, artifact, procs, started, edits, scenario>>
workspace == <<files, document, lock, temps, artifact>>

\* seen: every lock there was since the command started.
Idle ==
  [pc |-> "idle", request |-> [command |-> "none"], directories |-> << >>, listing |-> << >>,
   registry |-> EmptyRegistry, document |-> None, locked |-> FALSE, existing |-> Absent,
   composition |-> None, findings |-> {}, verdict |-> "none", verified |-> None, seen |-> {}]

Init ==
  /\ scenario \in Scenarios
  /\ files = scenario.files /\ document = scenario.document
  /\ lock = scenario.lock /\ artifact = scenario.artifact
  /\ temps = 0 /\ procs = [p \in Procs |-> Idle] /\ started = 0 /\ edits = scenario.edits

Running(p) == procs[p].pc # "idle"

\* Each step of a process changes its own record; seen is kept up by KeepSeen.
Update(p, record) == procs' = [procs EXCEPT ![p] = record]
End(p, verdict) == Update(p, [procs[p] EXCEPT !.pc = "idle", !.verdict = verdict])
Reads == UNCHANGED <<workspace, started, edits, scenario>>

Start(p) ==
  /\ ~ Running(p) /\ started < scenario.commands
  /\ \E request \in scenario.requests :
       Update(p, [Idle EXCEPT
         !.pc = "packs", !.request = request, !.registry = BuiltinRegistry, !.seen = {lock},
         !.directories = SelectSeq(Directories, LAMBDA d : d.tier = "project" \/ request.command = "host")])
  /\ started' = started + 1
  /\ UNCHANGED <<workspace, edits, scenario>>

(***************************************************************************)
(* registry_for_directory: each directory is listed, then its files read.  *)
(***************************************************************************)
ListDirectory(p) ==
  LET s == procs[p]
  IN /\ s.pc = "packs" /\ s.listing = << >> /\ s.directories # << >>
     /\ Update(p, [s EXCEPT
          !.listing = SelectSeq([i \in DOMAIN Head(s.directories).paths |->
                                   [path |-> Head(s.directories).paths[i], tier |-> Head(s.directories).tier]],
                                LAMBDA f : files[f.path] # Absent),
          !.directories = Tail(s.directories)])
     /\ Reads

ReadPack(p) ==
  LET s == procs[p]
      file == Head(s.listing)
      read == [payload |-> files[file.path], tier |-> file.tier, path |-> file.path]
  IN /\ s.pc = "packs" /\ s.listing # << >>
     /\ IF files[file.path] = Absent THEN End(p, "refused")
        ELSE \E registry \in {RegisterFile(s.registry, read)} :
               IF Ok(registry) THEN Update(p, [s EXCEPT !.registry = registry, !.listing = Tail(s.listing)])
               ELSE End(p, "refused")
     /\ Reads

PacksRead(p) ==
  LET s == procs[p]
  IN /\ s.pc = "packs" /\ s.listing = << >> /\ s.directories = << >>
     /\ Update(p, [s EXCEPT !.pc = CASE s.request.command = "lock" -> "resolve"
                                     [] s.request.command = "verify" -> "verify"
                                     [] s.request.command = "resolve" -> "find"
                                     [] OTHER -> "document"])
     /\ Reads

LoadDocument(p) ==
  /\ procs[p].pc = "document"
  /\ Update(p, [procs[p] EXCEPT !.document = document, !.pc = "find"])
  /\ Reads

\* _optional_profile_lock
FindLock(p) ==
  LET s == procs[p]
  IN /\ s.pc = "find"
     /\ IF lock # Absent /\ lock.link THEN End(p, "refused")
        ELSE Update(p, [s EXCEPT !.locked = lock # Absent,
                                 !.pc = IF s.request.command # "resolve" THEN "compose"
                                        ELSE IF lock = Absent THEN "resolve" ELSE "existing"])
     /\ Reads

\* load_lock, of a lock that was there when it was looked for.
Unreadable == lock = Absent \/ lock.link \/ lock.entries = IllTyped

\* Composing the document as it was read with the lock as it is now.
ComposedNow(s) ==
  IF s.locked /\ ReadsLock(s.document, s.registry) /\ Unreadable THEN Failed("PACK_LOCK_INVALID")
  ELSE ComposeDocument(s.document, s.registry, IF s.locked THEN lock ELSE Absent)

(***************************************************************************)
(* check, host (the same with an organisation's directory registered) and  *)
(* report: compose, then compose again and evaluate.                       *)
(***************************************************************************)
ComposeForCheck(p) ==
  LET s == procs[p]
  IN /\ s.pc = "compose"
     /\ \E composed \in {ComposedNow(s)} :
          IF composed # None /\ ~ Ok(composed) THEN End(p, "refused")
          ELSE Update(p, [s EXCEPT !.composition = composed, !.pc = "evaluate"])
     /\ Reads

\* cmd_check adds what the static checker finds; build_governance_report does not run it.
EvaluateNow(p) ==
  LET s == procs[p]
      sound == s.request.command = "report" \/ s.document.sound
  IN /\ s.pc = "evaluate"
     /\ \E composed \in {ComposedNow(s)} :
          IF composed # None /\ ~ Ok(composed) THEN End(p, "refused")
          ELSE \E findings \in {Evaluate(s.document, s.registry, composed)} :
                 Update(p, [s EXCEPT !.pc = "idle", !.findings = findings, !.composition = composed,
                                     !.verdict = IF HasErrorLevel(findings) \/ ~ sound THEN "failed" ELSE "passed"])
     /\ Reads

(***************************************************************************)
(* profiles resolve, and with --lock the writing of the lock.              *)
(***************************************************************************)
LoadExisting(p) ==
  /\ procs[p].pc = "existing"
  /\ IF Unreadable THEN End(p, "refused")
     ELSE Update(p, [procs[p] EXCEPT !.existing = lock, !.pc = "resolve"])
  /\ Reads

ResolveProfile(p) ==
  LET s == procs[p]
  IN /\ s.pc = "resolve"
     /\ \E composed \in {Compose(s.registry, s.request.name, {}, s.existing)} :
          IF ~ Ok(composed) THEN End(p, "refused")
          ELSE IF s.request.command = "resolve" THEN End(p, "passed")
          ELSE Update(p, [s EXCEPT !.composition = composed, !.pc = "prepare"])
     /\ Reads

\* write_lock up to the mode check.
PrepareLock(p) ==
  /\ procs[p].pc = "prepare"
  /\ IF lock # Absent /\ (lock.link \/ ~ lock.writable) THEN End(p, "refused")
     ELSE Update(p, [procs[p] EXCEPT !.pc = "write"])
  /\ Reads

\* Mutant of WriteTemporary: the lock is opened and written in place.
WriteInPlace(p) ==
  /\ procs[p].pc = "write"
  /\ lock' = [link |-> FALSE, writable |-> TRUE, entries |-> IllTyped]
  /\ temps' = temps + 1
  /\ Update(p, [procs[p] EXCEPT !.pc = "replace"])
  /\ UNCHANGED <<files, document, artifact, started, edits, scenario>>

\* The whole content goes to a temporary file of this process; an OSError unlinks it.
WriteTemporary(p) ==
  /\ procs[p].pc = "write"
  /\ \/ /\ temps' = temps + 1
        /\ Update(p, [procs[p] EXCEPT !.pc = "replace"])
        /\ UNCHANGED <<files, document, lock, artifact, started, edits, scenario>>
     \/ End(p, "refused") /\ Reads

\* os.replace takes the place of whatever is there, a link included.
ReplaceLock(p) ==
  /\ procs[p].pc = "replace"
  /\ temps' = temps - 1
  /\ \/ /\ lock' = [link |-> FALSE, writable |-> TRUE, entries |-> LockForPacks(procs[p].composition.selected)]
        /\ procs' = [q \in Procs |->
             IF q = p THEN [procs[p] EXCEPT !.pc = "idle", !.verdict = "passed"]
             ELSE IF Running(q) THEN [procs[q] EXCEPT !.seen = @ \cup {lock'}] ELSE procs[q]]
     \/ lock' = lock /\ End(p, "refused")
  /\ UNCHANGED <<files, document, artifact, started, edits, scenario>>

(***************************************************************************)
(* A host asks whether the saved approval can be trusted.                  *)
(***************************************************************************)
VerifyArtifact(p) ==
  /\ procs[p].pc = "verify"
  /\ IF artifact = None \/ ~ TrustedEffective(artifact, procs[p].registry) THEN End(p, "refused")
     ELSE Update(p, [procs[p] EXCEPT !.pc = "idle", !.verdict = "passed", !.verified = artifact])
  /\ Reads

\* A process dies; a temporary file it wrote stays.
Crash(p) ==
  /\ Running(p) /\ edits > 0
  /\ Update(p, [Idle EXCEPT !.verdict = "crashed"])
  /\ edits' = edits - 1
  /\ UNCHANGED <<workspace, started, scenario>>

(***************************************************************************)
(* Edits by others.                                                        *)
(***************************************************************************)
Edited ==
  /\ edits > 0 /\ edits' = edits - 1
  /\ UNCHANGED <<temps, started, scenario>>

EditPack ==
  /\ Edited
  /\ \E path \in DOMAIN scenario.payloads : \E payload \in scenario.payloads[path] \ {files[path]} :
       files' = [files EXCEPT ![path] = payload]
  /\ UNCHANGED <<document, lock, artifact, procs>>

EditDocument ==
  /\ Edited
  /\ \E d \in scenario.documents \ {document} : document' = d
  /\ UNCHANGED <<files, lock, artifact, procs>>

\* The lock is removed, made read-only or replaced by a link or an earlier lock.
EditLock ==
  /\ Edited
  /\ \E l \in {Absent} \cup (IF lock = Absent THEN {} ELSE {[lock EXCEPT !.writable = FALSE], [lock EXCEPT !.link = TRUE]})
               \cup UNION {procs[p].seen : p \in Procs} :
       /\ l # lock /\ lock' = l
       /\ procs' = [q \in Procs |-> IF Running(q) THEN [procs[q] EXCEPT !.seen = @ \cup {l}] ELSE procs[q]]
  /\ UNCHANGED <<files, document, artifact>>

\* An approval of a report is saved, or the saved one altered.
SaveApproval ==
  /\ Edited
  /\ \E p \in Procs : procs[p].verdict = "passed" /\ procs[p].request.command = "report" /\ procs[p].composition # None
       /\ \E e \in procs[p].composition.approvals : artifact' = e
  /\ UNCHANGED <<files, document, lock, procs>>

AlterApproval ==
  /\ Edited /\ artifact # None
  /\ \/ \E role \in (UNION {l.approval.eligible : l \in artifact.leaves}) \ artifact.eligible :
          artifact' = [artifact EXCEPT !.eligible = @ \cup {role}]
     \/ \E l \in artifact.leaves :
          artifact' = IF Cardinality(artifact.leaves) = 1 THEN None ELSE ComposeEffectiveApproval(artifact.leaves \ {l})
     \/ \E l \in artifact.leaves :
          LET source == [l.approval.source EXCEPT !.eligible = << >>, !.required = << >>]
              wider == [l EXCEPT !.approval = NormalizeApproval(source, l.approval.shape, l.approval.path)]
              forged == ComposeEffectiveApproval((artifact.leaves \ {l}) \cup {wider})
          IN forged.status = "composed" /\ artifact' = forged
  /\ UNCHANGED <<files, document, lock, procs>>

Step(p) ==
  \/ Start(p) \/ ListDirectory(p) \/ ReadPack(p) \/ PacksRead(p) \/ LoadDocument(p) \/ FindLock(p)
  \/ ComposeForCheck(p) \/ EvaluateNow(p) \/ LoadExisting(p) \/ ResolveProfile(p)
  \/ PrepareLock(p) \/ WriteTemporary(p) \/ ReplaceLock(p) \/ VerifyArtifact(p) \/ Crash(p)

Next ==
  \/ \E p \in Procs : Step(p)
  \/ EditPack \/ EditDocument \/ EditLock \/ SaveApproval \/ AlterApproval

Spec == Init /\ [][Next]_vars
(***************************************************************************)
(* Properties.                                                             *)
(***************************************************************************)
Evaluating == {"check", "host", "report"}
Evaluated(p) ==
  /\ procs[p].request.command \in Evaluating /\ procs[p].verdict \in {"passed", "failed"}
  /\ procs[p].composition # None
PassedUnder(p) == Evaluated(p) /\ procs[p].verdict = "passed"

\* The packs are read one by one and the lock twice, while others edit them: nevertheless a command
\* that passes has evaluated exactly the packs of one lock that was there while it ran, or there was
\* a moment without a lock and no pack is an organisation's (compose_governance, verify_lock).
CheckedUnderLock ==
  \A p \in Procs : PassedUnder(p) =>
    LET s == procs[p]
    IN \/ \E l \in s.seen \ {Absent} : ~ l.link /\ l.entries = LockForPacks(s.composition.selected)
       \/ Absent \in s.seen /\ \A q \in s.composition.selected : q.tier # "org"

\* Whatever the commands do, and wherever one dies, the lock is replaced as a whole: a step of a
\* command that changes it leaves the packs of one composition, all resolved by that command
\* (write_lock).
LockReplacedWhole ==
  [][lock' # lock /\ edits' = edits =>
       \E p \in Procs : /\ procs[p].request.command = "lock" /\ procs[p].pc = "replace"
                        /\ lock'.entries = LockForPacks(procs[p].composition.selected)
                        /\ procs[p].composition.selected \subseteq procs[p].registry.packs]_vars

\* What an effective approval keeps of what one pack declares.
Keeps(e, declared) ==
  /\ declared.required \subseteq e.required /\ declared.evidence \subseteq e.evidence
  /\ declared.actions \subseteq e.actions /\ declared.invalidation \subseteq e.invalidation
  /\ declared.deniedActors \cup declared.deniedSurfaces \subseteq e.deniedActors \cup e.deniedSurfaces
  /\ declared.eligible # {} => e.eligible \subseteq declared.eligible
  /\ declared.exact => e.exact
  /\ \A f \in ScalarFields : declared[f] \in {None, "unspecified", e[f]}

\* No composition c of the selected packs gives up anything that one of them declares.
Tightens(c) ==
  /\ \A q \in c.selected : \A i \in DOMAIN q.payload.approvals :
       \E e \in c.approvals :
         /\ e.id = PackApproval(q.payload, i).id /\ Keeps(e, PackApproval(q.payload, i))
         /\ \A f \in c.approvals \ {e} : f.id # e.id
  /\ \A e \in c.approvals : /\ e.required \subseteq e.eligible
                          /\ e.eligible \cap (e.deniedActors \cup e.deniedSurfaces \cup NonHuman) = {}
  /\ \A q \in c.selected : \A i \in DOMAIN q.payload.policies :
       \E m \in c.policies : /\ m.id = q.payload.policies[i].id
                            /\ q.payload.policies[i].deny \subseteq m.deny
                            /\ q.payload.policies[i].require \subseteq m.require
  /\ \A q \in c.selected : \A r \in Elements(q.payload.rules) :
       \E m \in c.rules : m = [r EXCEPT !.id = <<q.payload.id, r.id>>]
  /\ \A q \in c.selected : \A x \in q.payload.requires :
       \E m \in c.selected : m.payload.kind = "module" /\ x \in Tokens(m)

KeepsCatalog(q) == \A b \in Elements(Builtins) : Tokens(q) \cap {b.id, b.name} # {} => q.payload = b

\* Composition only tightens: of every approval, policy and rule that a selected pack declares all is
\* demanded; whoever any layer requires is accepted by every layer and denied by none; no selected
\* module is without what it needs (compose_governance), and no pack stands in for one of the catalog.
ComposedIsStrictest ==
  \A p \in Procs : Evaluated(p) =>
    Tightens(procs[p].composition) /\ \A q \in procs[p].composition.selected : KeepsCatalog(q)

\* The findings of a rule are those its meaning, element by element, asks for
\* (evaluate_rules; appendix_RULE_COLLECTION_SEMANTICS.md).
RulesPerElement ==
  \A p \in Procs : Evaluated(p) =>
    \A r \in procs[p].composition.rules :
      {f \in procs[p].findings : f.rule = r.id} = Meaning(procs[p].document.tree, r)

\* A value of the wrong type never hides what a rule finds: if a rule is violated in a document that
\* it can read, it has a finding in every document that differs in the type of one value (the
\* structural errors of evaluate_rules fail closed).  Conditions that look for a member are left
\* out, for there a member of another type is legal and only differs, and so are requirements that
\* the odd value itself would meet.
RulesNeverSilenced ==
  \A p \in Procs : Evaluated(p) =>
    \A r \in procs[p].composition.rules :
      LET tree == procs[p].document.tree
          found == {f.code : f \in {g \in procs[p].findings : g.rule = r.id}}
      IN /\ found # {} /\ found \subseteq {"RULE_REQUIREMENT_FAILED", "RULE_PATH_MISSING", "RULE_EMPTY_COLLECTION"}
         /\ \A w \in Elements(r.when) : w.operator \notin MemberOperators
         /\ \A q \in Elements(r.requirements) : Discerns(tree, q)
         => \A damaged \in Damaged(tree) : EvaluateRule(damaged, r) # {}

\* A saved approval that is trusted says nothing more lenient than the packs it names as they are
\* now: each leaf is the very entry of a pack of the registry, and it is what these entries compose
\* to (trusted_effective_approval).
TrustedMeansCurrent ==
  \A p \in Procs : procs[p].request.command = "verify" /\ procs[p].verdict = "passed" =>
    LET e == procs[p].verified
        entries(q) == {i \in DOMAIN q.payload.approvals :
                         \E l \in e.leaves : l.provenance.id = q.payload.id /\ l.provenance.index = i}
        named == UNION {{<<q, i>> : i \in entries(q)} : q \in procs[p].registry.packs \cup BuiltinRegistry.packs}
    IN /\ \A l \in e.leaves : \E n \in named : l.approval = PackApproval(n[1].payload, n[2]) /\ n[1].payload = l.provenance.hash
       /\ \A n \in named : Keeps(e, PackApproval(n[1].payload, n[2]))
===============================================================================
