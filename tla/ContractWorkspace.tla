------------------------- MODULE ContractWorkspace -------------------------
(***************************************************************************)
(* A contract with an agentic network, the evidence it refers to, the      *)
(* directory of its generated artifacts and its network lock, and the      *)
(* processes that check it, generate the artifacts, lock them and compare  *)
(* them with the lock, while files are edited.  No command excludes        *)
(* another one: every file is read and written by itself.                  *)
(***************************************************************************)
EXTENDS NetworkArtifacts, Integers

CONSTANTS
  Procs,
  Torn,      \* the content of a file that a writer has cut off or two have mixed
  Scenarios  \* how a history may begin and what may happen in it: [document, composition, disk, artifacts, lock],
             \* the requests, what may be put into each, and as bounds commands and edits

Commands == {"check", "generate", "lock", "lock-check"}

\* What may be found under the name of an artifact, and of the lock: a lock that is read at all
\* has the fields of its schema, which does not ask that the paths it lists be different.
IsArtifact(file) == file = Absent \/ file = [kind |-> file.kind, content |-> file.content]
IsLock(lock) ==
  lock # Absent =>
    /\ lock = [kind |-> lock.kind, payload |-> lock.payload]
    /\ lock.kind = "file" =>
         /\ lock.payload = [f \in DOMAIN FieldCodes |-> lock.payload[f]]
         /\ lock.payload.artifacts \in Seq(Elements(lock.payload.artifacts)) \ {<< >>}
         /\ \A entry \in Elements(lock.payload.artifacts) : entry = [path |-> entry.path, hash |-> entry.hash]

ASSUME ScenariosAssumption ==
  \A s \in Scenarios :
    /\ \A request \in s.requests : request.command \in Commands
    /\ DOMAIN s.artifacts = Elements(DirectoryOrder)
    /\ \A name \in DOMAIN s.artifacts : IsArtifact(s.artifacts[name])
    /\ \A file \in s.contents : IsArtifact(file)
    /\ \A lock \in s.locks \cup {s.lock} : IsLock(lock)

\* A network as it is loaded: collections are lists, a delegation has an id, times and depths are
\* numbers where they are not malformed, and what can be revoked is not an absent target.
IsList(list) == list \in Seq(Elements(list))
IsNetwork(document, network) ==
  /\ \A list \in {document.identities, document.capabilities, network.memberships, network.revocations,
                   Listed(network.delegations), Listed(network.handoffs)} : IsList(list)
  /\ \A x \in Elements(Listed(network.delegations)) :
       x.id # None /\ {x.depth, x.maxDepth, x.from, x.until} \subseteq Int \cup {None, IllTyped}
  /\ \A c \in Elements(document.capabilities) : c.depth \in Int \cup {None}
  /\ \A r \in Elements(network.revocations) : r.at \in Int \cup {None, IllTyped}
  /\ None \notin RevocationTargets(document, network, IndexNetwork(document, network))

\* Evidence, approvals and exceptions as they are loaded: a time is a number, or a value that is none.
IsGoverned(c) ==
  /\ IsList(Records(c)) /\ (c.exceptions # None => IsList(c.exceptions))
  /\ \A r \in Elements(Records(c)) : {r.generated, r.expires} \subseteq Int \cup {None, IllTyped}
  /\ \A g \in Gates(c) : g.expiresAt \in Int \cup {None, BadTime}
  /\ \A e \in Items(c.exceptions) : e.id # None /\ {e.starts, e.expires} \subseteq Int \cup {None, IllTyped}

ASSUME ContractsAssumption ==
  \A s \in Scenarios :
    /\ \A request \in s.requests : request.asOf \in Int \cup {None, BadTime}
    /\ \A c \in s.documents \cup {s.document} : IsGoverned(c) /\ (c.network # None => IsNetwork(c, c.network))

VARIABLES
  document,     \* the contract
  composition,  \* what the installed packs give for it
  disk,         \* the artifacts of its evidence: path -> hash, or None without a document root
  artifacts,    \* the generated files: name -> Absent or [kind, content]
  networkLock,  \* Absent or [kind, payload]
  procs,        \* what each process is doing and what its last command found
  started,      \* how many commands have been started
  edits,        \* how many edits may still be made
  scenario

files == <<document, composition, disk, artifacts, networkLock>>
vars == <<files, procs, started, edits, scenario>>

File(content) == [kind |-> "file", content |-> content]
StoredLock(payload) == [kind |-> "file", payload |-> payload]
Requested(command, asOf) == [command |-> command, asOf |-> asOf]

\* accepted: its checks found nothing in what it had read.  calm: nothing
\* else has changed a file since the command started.
Idle ==
  [pc |-> "idle", request |-> Requested("none", None), document |-> None, composition |-> None, disk |-> None,
   accepted |-> FALSE, findings |-> {}, verdict |-> "none", lock |-> None, todo |-> {}, calm |-> TRUE]

Init ==
  /\ scenario \in Scenarios
  /\ document = scenario.document /\ composition = scenario.composition /\ disk = scenario.disk
  /\ artifacts = scenario.artifacts /\ networkLock = scenario.lock
  /\ procs = [p \in Procs |-> Idle] /\ started = 0 /\ edits = scenario.edits

Running(p) == procs[p].pc # "idle"

(***************************************************************************)
(* Steps.  A process that only reads disturbs nobody; whatever writes      *)
(* disturbs every other process.                                           *)
(***************************************************************************)
Disturbed(others) == [p \in Procs |-> IF p \in others THEN [procs[p] EXCEPT !.calm = FALSE] ELSE procs[p]]
Becomes(p, record) == procs' = [procs EXCEPT ![p] = record]
Writes(p, record) == procs' = [Disturbed(Procs \ {p}) EXCEPT ![p] = record]
Ended(record, verdict) == [record EXCEPT !.pc = "idle", !.verdict = verdict]
Reads == UNCHANGED <<files, started, edits, scenario>>

\* The packs are read first, the contract after them.
Start(p) ==
  /\ ~ Running(p) /\ started < scenario.commands
  /\ \E request \in scenario.requests :
       Becomes(p, [Idle EXCEPT !.pc = "load", !.request = request, !.composition = composition])
  /\ started' = started + 1
  /\ UNCHANGED <<files, edits, scenario>>

LoadContract(p) ==
  /\ procs[p].pc = "load"
  /\ Becomes(p, [procs[p] EXCEPT !.pc = "check", !.document = document])
  /\ Reads

\* The files left to do are done in the order of their names.
First(names) ==
  DirectoryOrder[CHOOSE i \in DOMAIN DirectoryOrder :
                   DirectoryOrder[i] \in names /\ \A j \in 1..(i - 1) : DirectoryOrder[j] \notin names]

\* The files that a lock names are inspected.
Inspecting(record) ==
  [record EXCEPT !.pc = "inspect", !.todo = Elements(DirectoryOrder) \cap DOMAIN LockedArtifacts(record.lock)]

\* What a contract that was accepted is used for.
Proceed(record, errors) ==
  IF errors # {} THEN Ended([record EXCEPT !.findings = errors], "refused")
  ELSE CASE record.request.command = "check" -> Ended(record, "passed")
         [] record.request.command = "generate" -> [record EXCEPT !.pc = "open", !.todo = Elements(ArtifactOrder)]
         [] record.request.command = "lock" ->
              Inspecting([record EXCEPT !.lock = BuildLock(record.document, record.composition, CurrentVersion)])
         [] record.request.command = "lock-check" -> [record EXCEPT !.pc = "load_lock"]

CommandErrors(record) ==
  (IF record.request.command = "generate" THEN BuildErrors(record.document) ELSE {})
  \cup (IF record.request.command = "lock" THEN LockErrors(record.document) ELSE {})

Checked(record, found) ==
  IF found # {} THEN Ended([record EXCEPT !.findings = found, !.disk = disk], "refused")
  ELSE Proceed([record EXCEPT !.accepted = TRUE, !.disk = disk], CommandErrors(record))

CheckContract(p) ==
  /\ procs[p].pc = "check"
  /\ \E found \in {StructuralFindings(procs[p].document, procs[p].composition, procs[p].request.asOf, disk)} :
       Becomes(p, Checked(procs[p], found))
  /\ Reads

(***************************************************************************)
(* The lock is read and compared, then the files one after the other.      *)
(***************************************************************************)
Compared(record, payload) ==
  Inspecting([record EXCEPT !.lock = payload,
                            !.findings = CompareFindings(payload, Expected(payload, record.document, record.composition))])

LoadLock(p) ==
  /\ procs[p].pc = "load_lock"
  /\ \E errors \in {IF networkLock = Absent \/ networkLock.kind # "file" THEN {"AN_LOCK_MALFORMED"} ELSE LockErrors(procs[p].document)} :
       Becomes(p, IF errors # {} THEN Ended([procs[p] EXCEPT !.findings = errors], "refused")
                  ELSE Compared(procs[p], networkLock.payload))
  /\ Reads

Inspected(record, name) ==
  [record EXCEPT !.todo = @ \ {name}, !.findings = @ \cup FileFindings(artifacts[name], LockedArtifacts(record.lock)[name])]

InspectArtifact(p) ==
  /\ procs[p].pc = "inspect" /\ procs[p].todo # {}
  /\ Becomes(p, Inspected(procs[p], First(procs[p].todo)))
  /\ Reads

Concluded(record, found) ==
  IF found # {} THEN Ended([record EXCEPT !.findings = found], "refused")
  ELSE IF record.request.command = "lock" THEN [record EXCEPT !.pc = "write_lock"]
  ELSE Ended(record, "passed")

ListDirectory(p) ==
  /\ procs[p].pc = "inspect" /\ procs[p].todo = {}
  /\ Becomes(p, Concluded(procs[p], procs[p].findings \cup UnexpectedFiles(procs[p].lock, artifacts)))
  /\ Reads

\* A new file takes the place of the lock, or nothing is written.
WriteLock(p) ==
  /\ procs[p].pc = "write_lock"
  /\ \/ /\ networkLock # Absent => networkLock.kind # "link"
        /\ networkLock' = StoredLock(procs[p].lock)
        /\ Writes(p, Ended(procs[p], "passed"))
     \/ /\ Becomes(p, Ended([procs[p] EXCEPT !.findings = {"AN_LOCK_WRITE_ERROR"}], "refused"))
        /\ UNCHANGED networkLock
  /\ UNCHANGED <<document, composition, disk, artifacts, started, edits, scenario>>

(***************************************************************************)
(* The artifacts are written in place, one after the other.                *)
(***************************************************************************)
OpenArtifact(p) ==
  /\ procs[p].pc = "open"
  /\ LET name == First(procs[p].todo)
     IN IF artifacts[name] = Absent \/ artifacts[name].kind = "file"
        THEN /\ artifacts' = [artifacts EXCEPT ![name] = File(Torn)]
             /\ Writes(p, [procs[p] EXCEPT !.pc = "fill"])
        ELSE /\ Becomes(p, Ended([procs[p] EXCEPT !.findings = {"AN_ARTIFACT_OUTPUT_INVALID"}], "refused"))
             /\ UNCHANGED artifacts
  /\ UNCHANGED <<document, composition, disk, networkLock, started, edits, scenario>>

\* Over what another writer has put there since, a shorter content leaves the rest of a longer one.
Results(file, content) ==
  IF file \in {File(Torn), File(content)} THEN {content} ELSE {content, Torn}

FillArtifact(p) ==
  /\ procs[p].pc = "fill"
  /\ LET name == First(procs[p].todo)
         content == Render(procs[p].document, procs[p].composition, CurrentVersion)[name]
         rest == [procs[p] EXCEPT !.pc = "open", !.todo = @ \ {name}]
     IN /\ \E result \in Results(artifacts[name], content) : artifacts' = [artifacts EXCEPT ![name] = File(result)]
        /\ Writes(p, IF rest.todo = {} THEN Ended(rest, "passed") ELSE rest)
  /\ UNCHANGED <<document, composition, disk, networkLock, started, edits, scenario>>

Crash(p) ==
  /\ Running(p) /\ scenario.crashes
  /\ Becomes(p, Ended(procs[p], "crashed"))
  /\ Reads

(***************************************************************************)
(* Edits.                                                                  *)
(***************************************************************************)
Edited ==
  /\ edits > 0 /\ edits' = edits - 1
  /\ procs' = Disturbed(Procs)
  /\ UNCHANGED <<started, scenario>>

EditContract ==
  /\ Edited /\ document' \in scenario.documents \ {document}
  /\ UNCHANGED <<composition, disk, artifacts, networkLock>>
EditPacks ==
  /\ Edited /\ composition' \in scenario.compositions \ {composition}
  /\ UNCHANGED <<document, disk, artifacts, networkLock>>
EditEvidence ==
  /\ Edited /\ disk' \in scenario.disks \ {disk}
  /\ UNCHANGED <<document, composition, artifacts, networkLock>>
EditArtifact ==
  /\ Edited
  /\ \E name \in DOMAIN artifacts : \E file \in scenario.contents \ {artifacts[name]} :
       artifacts' = [artifacts EXCEPT ![name] = file]
  /\ UNCHANGED <<document, composition, disk, networkLock>>
EditLock ==
  /\ Edited /\ networkLock' \in scenario.locks \ {networkLock}
  /\ UNCHANGED <<document, composition, disk, artifacts>>

Step(p) ==
  \/ Start(p) \/ LoadContract(p) \/ CheckContract(p)
  \/ LoadLock(p) \/ InspectArtifact(p) \/ ListDirectory(p) \/ WriteLock(p)
  \/ OpenArtifact(p) \/ FillArtifact(p) \/ Crash(p)

Next ==
  \/ \E p \in Procs : Step(p)
  \/ EditContract \/ EditPacks \/ EditEvidence \/ EditArtifact \/ EditLock

Spec == Init /\ [][Next]_vars
===============================================================================
