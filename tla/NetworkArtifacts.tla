-------------------------- MODULE NetworkArtifacts --------------------------
(***************************************************************************)
(* The declaration artifacts of an agentic network and the lock that binds *)
(* them to the contract.  A hash is modelled by what it is the hash of; a  *)
(* list whose order the code sorts away is a set.                          *)
(***************************************************************************)
EXTENDS NetworkDelegation

CONSTANT Absent  \* no such file

CurrentVersion == "1.1"                \* RUNTIME_EVENTS_SCHEMA_VERSION
SupportedVersions == {"1.0", "1.1"}

\* The files in the order of their names.  The first stands for all those
\* that hold nothing but declarations of the contract.
ArtifactOrder == <<"a2a_declaration", "agentic_generation_manifest", "network_manifest", "runtime_evidence_contract">>

\* What may be in their directory: one more file.
DirectoryOrder == Append(ArtifactOrder, "unlisted")

(***************************************************************************)
(* Content.                                                                *)
(***************************************************************************)
KeyedCollections == {"identities", "capabilities", "approvals"}
KeyedNetworkCollections ==
  {"zones", "memberships", "protocols", "gates", "revocations", "delegations", "handoffs", "relations"}

Unordered(record, fields) ==
  [f \in DOMAIN record |->
     IF f \in fields /\ record[f] \notin {None, IllTyped} THEN Elements(record[f]) ELSE record[f]]

\* _canonical_contract_view, which contract_digest is the hash of.
View(document) ==
  [Unordered(document, KeyedCollections) EXCEPT
     !.network = IF @ = None THEN None ELSE Unordered(@, KeyedNetworkCollections),
     !.evidence = IF @ = None THEN None ELSE Unordered(@, {"records"})]

\* _composition_summary
Summary(composition) == [modules |-> composition.modules, checks |-> composition.checks]

\* Every artifact names the contract; the manifest of the generation holds the hashes of the others.
Artifact(name, view, summary, version) ==
  LET covers(n) == name \in {n, "agentic_generation_manifest"}
  IN [name |-> name, view |-> view,
      summary |-> IF covers("network_manifest") THEN summary ELSE None,
      version |-> IF covers("runtime_evidence_contract") THEN version ELSE None]
ArtifactsOf(view, summary, version) == [name \in Elements(ArtifactOrder) |-> Artifact(name, view, summary, version)]
Render(document, composition, version) == ArtifactsOf(View(document), Summary(composition), version)

\* The collections whose records are copied whole into artifacts; transport
\* says in which there are addresses, credentials or commands.
CopiedCollections ==
  {"identities", "capabilities", "zones", "gates", "delegations", "handoffs", "relations", "revocations"}

BuildErrors(document) ==
  IF document.network = None THEN {"AN_ARTIFACT_NETWORK_MISSING"}
  ELSE When(document.network.transport \cap CopiedCollections # {}, "AN_ARTIFACT_FORBIDDEN")
LockErrors(document) ==
  BuildErrors(document)
  \cup When(document.network # None /\ document.network.revision \notin Immutable, "AN_LOCK_REVISION_MUTABLE")

(***************************************************************************)
(* The lock.                                                               *)
(***************************************************************************)
\* source_contract_digest and summary bind what the digests of single records repeat.
LockOf(document, composition, version, view) ==
  [network |-> document.network.id, revision |-> document.network.revision, version |-> version,
   source |-> view, summary |-> Summary(composition),
   records |-> [c \in KeyedNetworkCollections |-> view.network[c]],
   approvals |-> {a.id : a \in composition.approvals}, evidence |-> {e.id : e \in composition.evidence},
   artifacts |-> LET content == ArtifactsOf(view, Summary(composition), version)
                 IN [i \in DOMAIN ArtifactOrder |-> [path |-> ArtifactOrder[i], hash |-> content[ArtifactOrder[i]]]]]
BuildLock(document, composition, version) == LockOf(document, composition, version, View(document))

FieldCodes ==
  [network |-> "AN_LOCK_NETWORK_MISMATCH", revision |-> "AN_LOCK_REVISION_MISMATCH", source |-> "AN_LOCK_SOURCE_STALE",
   summary |-> "AN_LOCK_MODULE_MISMATCH", version |-> "AN_LOCK_SCHEMA_MISMATCH", records |-> "AN_LOCK_RECORD_MISMATCH",
   approvals |-> "AN_LOCK_APPROVAL_MISMATCH", evidence |-> "AN_LOCK_EVIDENCE_MISMATCH",
   artifacts |-> "AN_LOCK_ARTIFACT_MISMATCH"]

\* A lock of an earlier supported version is compared with what that version gives.
ExpectedVersion(lock) == IF lock.version \in SupportedVersions THEN lock.version ELSE CurrentVersion
Expected(lock, document, composition) == BuildLock(document, composition, ExpectedVersion(lock))

\* The artifacts of a lock are a list, of which a mapping from path to hash is made: a path may be
\* there again, and then its last entry counts.
LockedArtifacts(lock) ==
  LET list == lock.artifacts
      last(path) == CHOOSE i \in DOMAIN list : list[i].path = path /\ \A j \in DOMAIN list : list[j].path = path => j <= i
  IN [path \in {list[i].path : i \in DOMAIN list} |-> list[last(path)].hash]
AsRead(lock) == [lock EXCEPT !.artifacts = LockedArtifacts(lock)]

CompareFindings(lock, expected) ==
  {FieldCodes[f] : f \in {g \in DOMAIN FieldCodes : AsRead(lock)[g] # AsRead(expected)[g]}}

\* Mutant of FileFindings: a file is only looked for.
FilePresent(file, content) == When(file = Absent, "AN_LOCK_ARTIFACT_MISSING")

\* A file in the directory of artifacts is Absent or [kind, content].
FileFindings(file, content) ==
  CASE file = Absent -> {"AN_LOCK_ARTIFACT_MISSING"}
    [] file.kind # "file" -> {"AN_LOCK_ARTIFACT_MISMATCH"}
    [] OTHER -> When(file.content # content, "AN_LOCK_ARTIFACT_MISMATCH")

\* A link to a file counts as a file here, a directory does not.
UnexpectedFiles(lock, files) ==
  When(\E name \in DOMAIN files \ DOMAIN LockedArtifacts(lock) : files[name] # Absent /\ files[name].kind # "directory",
       "AN_LOCK_ARTIFACT_UNEXPECTED")
===============================================================================
