------------------------ MODULE ContractSemantics_proofs ------------------------
(***************************************************************************)
(* Proofs about ContractWorkspace, for any number of processes, contracts, *)
(* packs, evidence, artifacts and locks and any history of edits.          *)
(***************************************************************************)
EXTENDS ContractSemantics, SequenceTheorems, WellFoundedInduction, FiniteSetTheorems, TLAPS

(***************************************************************************)
(* The files that a command that passes has established.                   *)
(***************************************************************************)
Fields == {"pc", "request", "document", "composition", "disk", "accepted", "findings", "verdict", "lock", "todo", "calm"}
Places == {"idle", "load", "check", "load_lock", "inspect", "write_lock", "open", "fill"}
Directory == Elements(DirectoryOrder)

\* The artifacts of a lock are on disk, those still to be inspected left aside.
OnDisk(lock, todo) ==
  LET locked == LockedArtifacts(lock)
  IN \A name \in (Directory \cap DOMAIN locked) \ todo : artifacts[name] = File(locked[name])

Intact(lock) == Stored(LockedArtifacts(lock))

\* A lock as its schema has it.
IsPayload(payload) ==
  /\ payload = [f \in DOMAIN FieldCodes |-> payload[f]]
  /\ payload.artifacts \in Seq(Elements(payload.artifacts)) \ {<< >>}
  /\ \A entry \in Elements(payload.artifacts) : entry = [path |-> entry.path, hash |-> entry.hash]

\* The lock that a process holds is, as it is read, the one of the contract that it has read.
LockIsOwn(r) ==
  /\ LockErrors(r.document) = {} /\ IsPayload(r.lock)
  /\ AsRead(r.lock) = AsRead(BuildLock(r.document, r.composition, r.lock.version))
  /\ r.request.command = "lock" => r.lock = BuildLock(r.document, r.composition, CurrentVersion)

\* What is so of a process whatever others do.
Static(r) ==
  /\ DOMAIN r = Fields /\ r.pc \in Places
  /\ r.pc # "idle" => r.request.command \in Commands /\ r.verdict # "passed"
  /\ r.pc \in {"open", "fill"} =>
       r.request.command = "generate" /\ r.todo \subseteq Elements(ArtifactOrder) /\ r.todo # {}
  /\ r.pc = "load_lock" => r.request.command = "lock-check"
  /\ r.pc = "inspect" => r.request.command \in {"lock", "lock-check"} /\ r.todo \subseteq Directory
  /\ r.pc = "write_lock" => r.request.command = "lock" /\ r.findings = {}
  /\ r.pc \in {"inspect", "write_lock"} /\ r.findings = {} => LockIsOwn(r)
  /\ r.verdict = "passed" /\ r.request.command \in {"lock", "lock-check"} => LockIsOwn(r)

\* What is so of a process as long as nobody else changes a file.
Undisturbed(r) ==
  LET current == Render(document, composition, CurrentVersion)
  IN /\ r.pc # "idle" \/ r.verdict = "passed" => r.composition = composition
     /\ r.pc \notin {"idle", "load"} \/ r.verdict = "passed" => r.document = document
     /\ r.pc \in {"open", "fill"} =>
          \A name \in Elements(ArtifactOrder) \ r.todo : artifacts[name] = File(current[name])
     /\ r.pc = "fill" => artifacts[First(r.todo)] = File(Torn)
     /\ r.pc = "inspect" /\ r.findings = {} =>
          /\ OnDisk(r.lock, r.todo)
          /\ r.request.command = "lock-check" => networkLock = StoredLock(r.lock)
     /\ r.pc = "write_lock" => Intact(r.lock)
     /\ r.verdict = "passed" /\ r.request.command = "generate" =>
          \A name \in DOMAIN current : artifacts[name] = File(current[name])
     /\ r.verdict = "passed" /\ r.request.command \in {"lock", "lock-check"} =>
          networkLock = StoredLock(r.lock) /\ Intact(r.lock)

\* What is in the files, and may be put there.
FilesInv ==
  /\ scenario \in Scenarios
  /\ DOMAIN artifacts = Directory /\ \A name \in Directory : IsArtifact(artifacts[name])
  /\ IsLock(networkLock)

ProcessInv(r) == Static(r) /\ (r.calm => Undisturbed(r))
FileInv == FilesInv /\ DOMAIN procs = Procs /\ \A p \in Procs : ProcessInv(procs[p])

\* A step of a process that leaves the files alone.
LEMMA Moves ==
  ASSUME FileInv, NEW p \in Procs, NEW record, Becomes(p, record), UNCHANGED <<files, scenario>>,
         Static(record), record.calm => Undisturbed(record)
  PROVE  FileInv'
<1>1. FilesInv'
  BY DEF FileInv, FilesInv, files
<1>2. DOMAIN procs' = Procs /\ \A q \in Procs : procs'[q] = IF q = p THEN record ELSE procs[q]
  BY DEF Becomes, FileInv
<1>3. ASSUME NEW q \in Procs PROVE ProcessInv(procs[q])'
  <2>1. Static(procs'[q]) /\ (procs'[q].calm => Undisturbed(procs'[q]))
    BY <1>2 DEF FileInv, ProcessInv
  <2> QED BY <2>1 DEF ProcessInv, Static, Undisturbed, OnDisk, Intact, Stored, LockIsOwn, files
<1> QED BY <1>1, <1>2, <1>3 DEF FileInv

\* A step that changes a file disturbs every process but the one that takes it.
LEMMA Disturbs ==
  ASSUME FileInv, FilesInv', NEW others \in SUBSET Procs, DOMAIN procs' = Procs,
         \A q \in others : procs'[q] = [procs[q] EXCEPT !.calm = FALSE],
         \A q \in Procs \ others : Static(procs'[q]) /\ (procs'[q].calm => Undisturbed(procs[q])')
  PROVE  FileInv'
<1>1. ASSUME NEW q \in others PROVE ProcessInv(procs[q])'
  <2>1. Static(procs[q]) /\ procs'[q] = [procs[q] EXCEPT !.calm = FALSE]
    BY DEF FileInv, ProcessInv
  <2>2. DOMAIN procs[q] = Fields
    BY <2>1 DEF Static
  <2>3. ~ procs'[q].calm
    BY <2>1, <2>2 DEF Fields
  <2>4. Static(procs'[q])
    BY <2>1, <2>2 DEF Static, Fields, LockIsOwn
  <2> QED BY <2>3, <2>4 DEF ProcessInv, Static, LockIsOwn
<1>2. ASSUME NEW q \in Procs \ others PROVE ProcessInv(procs[q])'
  BY <1>2 DEF ProcessInv, Static, LockIsOwn
<1> QED BY <1>1, <1>2 DEF FileInv

\* The file to be done next is one of those left to do.
LEMMA FirstIsLeft ==
  ASSUME NEW names, names \subseteq Directory, names # {}
  PROVE  First(names) \in names
<1> DEFINE D == DirectoryOrder
           P(i) == D[i] \in names /\ \A j \in 1..(i - 1) : D[j] \notin names
<1>1. DOMAIN D = 1..5 /\ \A name \in names : \E i \in 1..5 : D[i] = name
  BY DEF Directory, DirectoryOrder, ArtifactOrder, Elements
<1>2. PICK k \in 1..5 : D[k] \in names
  BY <1>1
<1> HIDE DEF D
<1>3. \E i \in 1..5 : P(i)
  <2>1. CASE D[1] \in names
    BY <2>1
  <2>2. CASE D[1] \notin names /\ D[2] \in names
    BY <2>2
  <2>3. CASE D[1] \notin names /\ D[2] \notin names /\ D[3] \in names
    BY <2>3
  <2>4. CASE D[1] \notin names /\ D[2] \notin names /\ D[3] \notin names /\ D[4] \in names
    BY <2>4
  <2>5. CASE D[1] \notin names /\ D[2] \notin names /\ D[3] \notin names /\ D[4] \notin names /\ D[5] \in names
    BY <2>5
  <2> QED BY <1>2, <2>1, <2>2, <2>3, <2>4, <2>5
<1>4. D[CHOOSE i \in DOMAIN D : P(i)] \in names
  BY <1>1, <1>3
<1> QED BY <1>4 DEF First, D

\* A command that did not pass has established nothing.
LEMMA Fails ==
  ASSUME NEW record, DOMAIN record = Fields, NEW verdict, verdict # "passed"
  PROVE  Static(Ended(record, verdict)) /\ Undisturbed(Ended(record, verdict))
<1> DEFINE e == Ended(record, verdict)
<1>1. DOMAIN e = Fields /\ e.pc = "idle" /\ e.verdict = verdict
  BY DEF Ended, Fields
<1> HIDE DEF e
<1>2. Static(e)
  BY <1>1 DEF Static, Places
<1>3. Undisturbed(e)
  BY <1>1 DEF Undisturbed
<1> QED BY <1>2, <1>3 DEF e

LEMMA StartKeeps ==
  ASSUME FileInv, NEW p \in Procs, Start(p)
  PROVE  FileInv'
<1>1. PICK request \in scenario.requests :
        Becomes(p, [Idle EXCEPT !.pc = "load", !.request = request, !.composition = composition])
  BY DEF Start
<1> DEFINE record == [Idle EXCEPT !.pc = "load", !.request = request, !.composition = composition]
<1>2. request.command \in Commands
  BY ScenariosAssumption DEF FileInv, FilesInv
<1>3. /\ DOMAIN record = Fields /\ record.pc = "load" /\ record.request = request
      /\ record.composition = composition /\ record.verdict = "none"
  BY DEF Idle, Fields
<1> HIDE DEF record
<1>4. Static(record)
  BY <1>2, <1>3 DEF Static, Places
<1>5. Undisturbed(record)
  BY <1>3 DEF Undisturbed
<1>6. UNCHANGED <<files, scenario>>
  BY DEF Start
<1> QED BY <1>1, <1>4, <1>5, <1>6, Moves DEF record

LEMMA LoadContractKeeps ==
  ASSUME FileInv, NEW p \in Procs, LoadContract(p)
  PROVE  FileInv'
<1> DEFINE r == procs[p]
           record == [r EXCEPT !.pc = "check", !.document = document]
<1>1. Static(r) /\ (r.calm => Undisturbed(r)) /\ r.pc = "load"
  BY DEF FileInv, ProcessInv, LoadContract
<1>2. DOMAIN r = Fields
  BY <1>1 DEF Static
<1>3. /\ DOMAIN record = Fields /\ record.pc = "check" /\ record.request = r.request /\ record.document = document
      /\ record.composition = r.composition /\ record.verdict = r.verdict /\ record.calm = r.calm
  BY <1>2 DEF Fields
<1>4. Becomes(p, record) /\ UNCHANGED <<files, scenario>>
  BY DEF LoadContract, Reads
<1> HIDE DEF record, r
<1>5. Static(record)
  BY <1>1, <1>3 DEF Static, Places
<1>6. record.calm => Undisturbed(record)
  BY <1>1, <1>3, <1>5 DEF Undisturbed, Static
<1> QED BY <1>4, <1>5, <1>6, Moves

LEMMA CrashKeeps ==
  ASSUME FileInv, NEW p \in Procs, Crash(p)
  PROVE  FileInv'
<1>1. DOMAIN procs[p] = Fields
  BY DEF FileInv, ProcessInv, Static
<1>2. Becomes(p, Ended(procs[p], "crashed")) /\ UNCHANGED <<files, scenario>>
  BY DEF Crash, Reads
<1> QED BY <1>1, <1>2, Fails, Moves

Begun(record) == Static(record) /\ (record.calm => Undisturbed(record))

\* A lock that is built is as its schema has it.
LEMMA BuiltIsPayload ==
  ASSUME NEW contract, NEW packs, NEW version
  PROVE  IsPayload(BuildLock(contract, packs, version))
<1> DEFINE lock == BuildLock(contract, packs, version)
           content == Render(contract, packs, version)
<1>1. lock = [f \in DOMAIN FieldCodes |-> lock[f]]
  BY DEF BuildLock, LockOf, FieldCodes
<1>2. lock.artifacts = [i \in 1..4 |-> [path |-> ArtifactOrder[i], hash |-> content[ArtifactOrder[i]]]]
  BY DEF BuildLock, LockOf, Render, ArtifactOrder
<1> HIDE DEF lock, content
<1>3. DOMAIN lock.artifacts = 1..4 /\ \A i \in 1..4 : lock.artifacts[i] \in Elements(lock.artifacts)
  BY <1>2 DEF Elements
<1>4. lock.artifacts \in Seq(Elements(lock.artifacts)) \ {<< >>}
  <2>1. lock.artifacts \in [1..4 -> Elements(lock.artifacts)] /\ 4 \in Nat /\ lock.artifacts # << >>
    BY <1>2, <1>3
  <2> DEFINE entries == Elements(lock.artifacts)
             list == lock.artifacts
  <2>2. list \in [1..4 -> entries] /\ 4 \in Nat
    BY <2>1
  <2> HIDE DEF entries, list
  <2>3. list \in Seq(entries)
    BY <2>2, SeqDef, Zenon
  <2> QED BY <2>1, <2>3 DEF entries, list
<1>5. \A entry \in Elements(lock.artifacts) : entry = [path |-> entry.path, hash |-> entry.hash]
  BY <1>2 DEF Elements
<1> QED BY <1>1, <1>4, <1>5 DEF IsPayload, lock

\* What an accepted contract is used for begins well.
LEMMA ProceedHolds ==
  ASSUME NEW r, DOMAIN r = Fields, r.request.command \in Commands, r.verdict # "passed",
         r.calm => r.composition = composition /\ r.document = document
  PROVE  Begun(Proceed(r, CommandErrors(r)))
<1> DEFINE errors == CommandErrors(r)
           record == Proceed(r, errors)
<1> SUFFICES Begun(record)
  OBVIOUS
<1>1. CASE r.request.command = "check"
  <2>1. errors = {}
    BY <1>1 DEF CommandErrors
  <2>2. record = Ended(r, "passed")
    BY <1>1, <2>1 DEF Proceed
  <2>3. /\ DOMAIN record = Fields /\ record.pc = "idle" /\ record.request = r.request /\ record.calm = r.calm
        /\ record.composition = r.composition /\ record.document = r.document
    BY <2>2 DEF Ended, Fields
  <2> HIDE DEF record
  <2>4. Static(record)
    BY <1>1, <2>3 DEF Static, Places
  <2>5. record.calm => Undisturbed(record)
    BY <1>1, <2>3 DEF Undisturbed
  <2> QED BY <2>4, <2>5 DEF Begun
<1>2. CASE errors # {}
  <2>1. record = Ended([r EXCEPT !.findings = errors], "refused")
    BY <1>2 DEF Proceed
  <2>2. DOMAIN [r EXCEPT !.findings = errors] = Fields
    BY DEF Fields
  <2> QED BY <2>1, <2>2, Fails DEF Begun
<1>3. CASE r.request.command = "generate" /\ errors = {}
  <2>1. record = [r EXCEPT !.pc = "open", !.todo = Elements(ArtifactOrder)]
    BY <1>3 DEF Proceed
  <2>2. /\ DOMAIN record = Fields /\ record.pc = "open" /\ record.request = r.request /\ record.calm = r.calm
        /\ record.composition = r.composition /\ record.document = r.document /\ record.todo = Elements(ArtifactOrder)
        /\ record.verdict = r.verdict
    BY <2>1 DEF Fields
  <2>3. Elements(ArtifactOrder) # {}
    BY DEF Elements, ArtifactOrder
  <2> HIDE DEF record
  <2>4. Static(record)
    BY <1>3, <2>2, <2>3 DEF Static, Places
  <2>5. record.calm => Undisturbed(record)
    BY <1>3, <2>2 DEF Undisturbed
  <2> QED BY <2>4, <2>5 DEF Begun
<1>4. CASE r.request.command = "lock" /\ errors = {}
  <2> DEFINE lock == BuildLock(r.document, r.composition, CurrentVersion)
  <2>1. record = Inspecting([r EXCEPT !.lock = lock])
    BY <1>4 DEF Proceed
  <2>2. /\ DOMAIN record = Fields /\ record.pc = "inspect" /\ record.request = r.request /\ record.calm = r.calm
        /\ record.composition = r.composition /\ record.document = r.document /\ record.lock = lock
        /\ record.todo = Directory \cap DOMAIN LockedArtifacts(lock) /\ record.verdict = r.verdict
    BY <2>1 DEF Fields, Inspecting, Directory
  <2>3. LockErrors(r.document) = {} /\ lock.version = CurrentVersion
    BY <1>4 DEF CommandErrors, BuildLock, LockOf
  <2> HIDE DEF record
  <2>4. LockIsOwn(record)
    BY <2>2, <2>3, BuiltIsPayload DEF LockIsOwn
  <2> HIDE DEF lock
  <2>6. Static(record)
    BY <1>4, <2>2, <2>4 DEF Static, Places
  <2>5. record.calm => Undisturbed(record)
    BY <1>4, <2>2 DEF Undisturbed, OnDisk
  <2> QED BY <2>5, <2>6 DEF Begun
<1>5. CASE r.request.command = "lock-check" /\ errors = {}
  <2>1. record = [r EXCEPT !.pc = "load_lock"]
    BY <1>5 DEF Proceed
  <2>2. /\ DOMAIN record = Fields /\ record.pc = "load_lock" /\ record.request = r.request /\ record.calm = r.calm
        /\ record.composition = r.composition /\ record.document = r.document /\ record.verdict = r.verdict
    BY <2>1 DEF Fields
  <2> HIDE DEF record
  <2>3. Static(record)
    BY <1>5, <2>2 DEF Static, Places
  <2>4. record.calm => Undisturbed(record)
    BY <1>5, <2>2 DEF Undisturbed
  <2> QED BY <2>3, <2>4 DEF Begun
<1> QED BY <1>1, <1>2, <1>3, <1>4, <1>5 DEF Commands

LEMMA CheckContractKeeps ==
  ASSUME FileInv, NEW p \in Procs, CheckContract(p)
  PROVE  FileInv'
<1> DEFINE r == procs[p]
           found == StructuralFindings(r.document, r.composition, r.request.asOf, disk)
           taken == [r EXCEPT !.accepted = TRUE, !.disk = disk]
           refused == [r EXCEPT !.findings = found, !.disk = disk]
<1>1. Static(r) /\ (r.calm => Undisturbed(r)) /\ r.pc = "check"
  BY DEF FileInv, ProcessInv, CheckContract
<1>2. Becomes(p, Checked(r, found)) /\ UNCHANGED <<files, scenario>>
  BY DEF CheckContract, Reads
<1> HIDE DEF found
<1>3. DOMAIN r = Fields
  BY <1>1 DEF Static
<1>4. /\ DOMAIN taken = Fields /\ taken.request = r.request /\ taken.calm = r.calm /\ taken.verdict = r.verdict
      /\ taken.composition = r.composition /\ taken.document = r.document /\ DOMAIN refused = Fields
  BY <1>3 DEF Fields
<1>5. CommandErrors(r) = CommandErrors(taken)
  BY <1>4 DEF CommandErrors
<1>6. CASE found # {}
  <2>1. Becomes(p, Ended(refused, "refused"))
    BY <1>2, <1>6 DEF Checked
  <2> QED BY <1>2, <1>4, <2>1, Fails, Moves
<1>7. CASE found = {}
  <2>1. Becomes(p, Proceed(taken, CommandErrors(taken)))
    BY <1>2, <1>5, <1>7 DEF Checked
  <2>2. /\ r.request.command \in Commands /\ r.verdict # "passed"
        /\ r.calm => r.composition = composition /\ r.document = document
    BY <1>1 DEF Static, Undisturbed
  <2> HIDE DEF taken, r
  <2>3. Begun(Proceed(taken, CommandErrors(taken)))
    BY <1>4, <2>2, ProceedHolds
  <2> QED BY <1>2, <2>1, <2>3, Moves DEF Begun
<1> QED BY <1>6, <1>7

(***************************************************************************)
(* Comparing the lock.                                                     *)
(***************************************************************************)
\* A lock in which no field differs is, as it is read, the expected one.
LEMMA ComparisonIsExact ==
  ASSUME NEW payload, IsPayload(payload),
         NEW contract, NEW packs, CompareFindings(payload, Expected(payload, contract, packs)) = {}
  PROVE  AsRead(payload) = AsRead(BuildLock(contract, packs, payload.version))
<1> DEFINE lock == Expected(payload, contract, packs)
<1>1. \A f \in DOMAIN FieldCodes : AsRead(payload)[f] = AsRead(lock)[f]
  BY DEF CompareFindings
<1>2. IsPayload(lock) /\ lock = BuildLock(contract, packs, ExpectedVersion(payload)) /\ lock.version = ExpectedVersion(payload)
  BY BuiltIsPayload DEF Expected, BuildLock, LockOf
<1> HIDE DEF lock
<1>3. AsRead(payload) = AsRead(lock)
  BY <1>1, <1>2 DEF AsRead, IsPayload
<1>4. payload.version = lock.version
  BY <1>1, <1>2 DEF AsRead, IsPayload, FieldCodes
<1> QED BY <1>2, <1>3, <1>4

LEMMA LoadLockKeeps ==
  ASSUME FileInv, NEW p \in Procs, LoadLock(p)
  PROVE  FileInv'
<1> DEFINE r == procs[p]
           errors == IF networkLock = Absent \/ networkLock.kind # "file" THEN {"AN_LOCK_MALFORMED"} ELSE LockErrors(r.document)
           refused == [r EXCEPT !.findings = errors]
           payload == networkLock.payload
           found == CompareFindings(payload, Expected(payload, r.document, r.composition))
           record == Inspecting([r EXCEPT !.lock = payload, !.findings = found])
<1>1. Static(r) /\ (r.calm => Undisturbed(r)) /\ r.pc = "load_lock"
  BY DEF FileInv, ProcessInv, LoadLock
<1>2. UNCHANGED <<files, scenario>> /\ Becomes(p, IF errors # {} THEN Ended(refused, "refused") ELSE record)
  BY DEF LoadLock, Reads, Compared
<1>3. DOMAIN r = Fields /\ r.request.command = "lock-check" /\ r.request.command \in Commands /\ r.verdict # "passed"
  BY <1>1 DEF Static
<1>4. CASE errors # {}
  <2>1. DOMAIN refused = Fields
    BY <1>3 DEF Fields
  <2> QED BY <1>2, <1>4, <2>1, Fails, Moves
<1>5. CASE errors = {}
  <2>1. networkLock = StoredLock(payload) /\ IsPayload(payload) /\ LockErrors(r.document) = {}
    <3>1. networkLock # Absent /\ networkLock.kind = "file" /\ LockErrors(r.document) = {}
      BY <1>5
    <3>2. IsLock(networkLock)
      BY DEF FileInv, FilesInv
    <3> QED BY <3>1, <3>2 DEF IsLock, IsPayload, StoredLock
  <2>2. found = {} => AsRead(payload) = AsRead(BuildLock(r.document, r.composition, payload.version))
    BY <2>1, ComparisonIsExact
  <2> HIDE DEF found
  <2>3. /\ DOMAIN record = Fields /\ record.pc = "inspect" /\ record.request = r.request /\ record.calm = r.calm
        /\ record.composition = r.composition /\ record.document = r.document /\ record.verdict = r.verdict
        /\ record.lock = payload /\ record.findings = found /\ record.todo = Directory \cap DOMAIN LockedArtifacts(payload)
    BY <1>3 DEF Fields, Inspecting, Directory
  <2> HIDE DEF record, r, payload
  <2>4. Static(record)
    BY <1>3, <2>1, <2>2, <2>3 DEF Static, Places, LockIsOwn
  <2>5. record.calm => Undisturbed(record)
    BY <1>1, <1>3, <2>1, <2>3 DEF Undisturbed, OnDisk
  <2> QED BY <1>2, <1>5, <2>4, <2>5, Moves
<1> QED BY <1>4, <1>5

\* A file in which nothing is found is the one of the lock.
LEMMA FileIsExact ==
  ASSUME NEW file, IsArtifact(file), NEW content, FileFindings(file, content) = {}
  PROVE  file = File(content)
BY DEF IsArtifact, FileFindings, File, When

LEMMA InspectArtifactKeeps ==
  ASSUME FileInv, NEW p \in Procs, InspectArtifact(p)
  PROVE  FileInv'
<1> DEFINE r == procs[p]
           name == First(r.todo)
           found == FileFindings(artifacts[name], LockedArtifacts(r.lock)[name])
           record == [r EXCEPT !.todo = r.todo \ {name}, !.findings = r.findings \cup found]
<1>1. Static(r) /\ (r.calm => Undisturbed(r)) /\ r.pc = "inspect" /\ r.todo # {}
  BY DEF FileInv, ProcessInv, InspectArtifact
<1>2. UNCHANGED <<files, scenario>> /\ Becomes(p, record)
  BY DEF InspectArtifact, Reads, Inspected
<1>3. /\ DOMAIN r = Fields /\ r.request.command \in {"lock", "lock-check"} /\ r.verdict # "passed"
      /\ r.todo \subseteq Directory /\ name \in r.todo
  BY <1>1, FirstIsLeft DEF Static
<1>4. found = {} => artifacts[name] = File(LockedArtifacts(r.lock)[name])
  BY <1>3, FileIsExact DEF FileInv, FilesInv
<1> HIDE DEF found, name
<1>5. /\ DOMAIN record = Fields /\ record.pc = "inspect" /\ record.request = r.request /\ record.calm = r.calm
      /\ record.composition = r.composition /\ record.document = r.document /\ record.verdict = r.verdict
      /\ record.lock = r.lock /\ record.findings = r.findings \cup found /\ record.todo = r.todo \ {name}
  BY <1>1, <1>3 DEF Fields
<1> HIDE DEF record, r
<1>6. Static(record)
  BY <1>1, <1>3, <1>5 DEF Static, Places, LockIsOwn
<1>7. record.calm => Undisturbed(record)
  BY <1>1, <1>3, <1>4, <1>5 DEF Undisturbed, OnDisk
<1> QED BY <1>2, <1>6, <1>7, Moves

LEMMA ListDirectoryKeeps ==
  ASSUME FileInv, NEW p \in Procs, ListDirectory(p)
  PROVE  FileInv'
<1> DEFINE r == procs[p]
           found == r.findings \cup UnexpectedFiles(r.lock, artifacts)
           refused == [r EXCEPT !.findings = found]
<1>1. Static(r) /\ (r.calm => Undisturbed(r)) /\ r.pc = "inspect" /\ r.todo = {}
  BY DEF FileInv, ProcessInv, ListDirectory
<1>2. UNCHANGED <<files, scenario>> /\ Becomes(p, Concluded(r, found))
  BY DEF ListDirectory, Reads
<1>3. DOMAIN r = Fields /\ r.request.command \in {"lock", "lock-check"} /\ r.verdict # "passed"
  BY <1>1 DEF Static
<1>4. CASE found # {}
  <2>1. DOMAIN refused = Fields
    BY <1>3 DEF Fields
  <2>2. Becomes(p, Ended(refused, "refused"))
    BY <1>2, <1>4 DEF Concluded
  <2> QED BY <1>2, <2>1, <2>2, Fails, Moves
<1>5. CASE found = {}
  <2>1. r.findings = {} /\ LockIsOwn(r)
    BY <1>1, <1>5 DEF Static
  <2>2. \A name \in DOMAIN artifacts \ DOMAIN LockedArtifacts(r.lock) : artifacts[name] = Absent \/ artifacts[name].kind = "directory"
    BY <1>5 DEF UnexpectedFiles, When
  <2>3. DOMAIN artifacts = Directory
    BY DEF FileInv, FilesInv
  <2>4. r.calm => Intact(r.lock)
    BY <1>1, <2>1, <2>2, <2>3 DEF Undisturbed, OnDisk, Intact, Stored
  <2>5. CASE r.request.command = "lock"
    <3> DEFINE record == [r EXCEPT !.pc = "write_lock"]
    <3>1. Becomes(p, record)
      BY <1>2, <1>5, <2>5 DEF Concluded
    <3>2. /\ DOMAIN record = Fields /\ record.pc = "write_lock" /\ record.request = r.request /\ record.calm = r.calm
          /\ record.composition = r.composition /\ record.document = r.document /\ record.verdict = r.verdict
          /\ record.lock = r.lock /\ record.findings = r.findings
      BY <1>3 DEF Fields
    <3> HIDE DEF record, r
    <3>3. Static(record)
      BY <1>1, <1>3, <2>1, <2>5, <3>2 DEF Static, Places, LockIsOwn
    <3>4. record.calm => Undisturbed(record)
      BY <1>1, <1>3, <2>4, <3>2 DEF Undisturbed
    <3> QED BY <1>2, <3>1, <3>3, <3>4, Moves
  <2>6. CASE r.request.command = "lock-check"
    <3> DEFINE record == Ended(r, "passed")
    <3>1. Becomes(p, record)
      BY <1>2, <1>5, <2>6 DEF Concluded
    <3>2. /\ DOMAIN record = Fields /\ record.pc = "idle" /\ record.request = r.request /\ record.calm = r.calm
          /\ record.composition = r.composition /\ record.document = r.document /\ record.verdict = "passed"
          /\ record.lock = r.lock /\ record.findings = r.findings
      BY <1>3 DEF Fields, Ended
    <3> HIDE DEF record, r
    <3>3. Static(record)
      BY <1>1, <2>1, <3>2 DEF Static, Places, LockIsOwn
    <3>4. record.calm => Undisturbed(record)
      BY <1>1, <2>1, <2>4, <2>6, <3>2 DEF Undisturbed
    <3> QED BY <1>2, <3>1, <3>3, <3>4, Moves
  <2> QED BY <1>3, <2>5, <2>6
<1> QED BY <1>4, <1>5

(***************************************************************************)
(* Steps that write.                                                       *)
(***************************************************************************)
LEMMA WritesDisturbs ==
  ASSUME NEW p \in Procs, NEW record, DOMAIN procs = Procs, Writes(p, record)
  PROVE  /\ DOMAIN procs' = Procs /\ procs'[p] = record
         /\ \A q \in Procs \ {p} : procs'[q] = [procs[q] EXCEPT !.calm = FALSE]
BY DEF Writes, Disturbed

LEMMA WriteLockKeeps ==
  ASSUME FileInv, NEW p \in Procs, WriteLock(p)
  PROVE  FileInv'
<1> DEFINE r == procs[p]
           refused == [r EXCEPT !.findings = {"AN_LOCK_WRITE_ERROR"}]
           record == Ended(r, "passed")
<1>1. Static(r) /\ (r.calm => Undisturbed(r)) /\ r.pc = "write_lock"
  BY DEF FileInv, ProcessInv, WriteLock
<1>2. DOMAIN r = Fields /\ r.request.command = "lock" /\ r.findings = {} /\ LockIsOwn(r)
  BY <1>1 DEF Static
<1>3. UNCHANGED <<document, composition, disk, artifacts, scenario>>
  BY DEF WriteLock
<1>4. CASE Becomes(p, Ended(refused, "refused")) /\ UNCHANGED networkLock
  <2>1. DOMAIN refused = Fields
    BY <1>2 DEF Fields
  <2>2. UNCHANGED <<files, scenario>>
    BY <1>3, <1>4 DEF files
  <2> QED BY <1>4, <2>1, <2>2, Fails, Moves
<1>5. CASE networkLock' = StoredLock(r.lock) /\ Writes(p, record)
  <2>1. /\ DOMAIN record = Fields /\ record.pc = "idle" /\ record.request = r.request /\ record.calm = r.calm
        /\ record.composition = r.composition /\ record.document = r.document /\ record.verdict = "passed"
        /\ record.lock = r.lock /\ record.findings = r.findings
    BY <1>2 DEF Fields, Ended
  <2>2. /\ DOMAIN procs' = Procs /\ procs'[p] = record
        /\ \A q \in Procs \ {p} : procs'[q] = [procs[q] EXCEPT !.calm = FALSE]
    BY <1>5, WritesDisturbs DEF FileInv
  <2>3. FilesInv'
    <3>1. IsPayload(r.lock)
      BY <1>2 DEF LockIsOwn
    <3>2. IsLock(networkLock)'
      BY <1>5, <3>1 DEF IsLock, IsPayload, StoredLock
    <3> QED BY <1>3, <3>2 DEF FileInv, FilesInv
  <2> HIDE DEF record, r
  <2>4. Static(record)
    BY <1>1, <1>2, <2>1 DEF Static, Places, LockIsOwn
  <2>5. /\ procs'[p].pc = "idle" /\ procs'[p].request = r.request /\ procs'[p].calm = r.calm /\ procs'[p].lock = r.lock
        /\ procs'[p].composition = r.composition /\ procs'[p].document = r.document /\ procs'[p].verdict = "passed"
    BY <2>1, <2>2
  <2>6. procs'[p].calm => Undisturbed(procs[p])'
    BY <1>1, <1>2, <1>3, <1>5, <2>5 DEF Undisturbed, Intact, Stored
  <2>7. \A q \in Procs \ (Procs \ {p}) : Static(procs'[q]) /\ (procs'[q].calm => Undisturbed(procs[q])')
    BY <2>2, <2>4, <2>6
  <2> QED BY <2>2, <2>3, <2>7, Disturbs
<1> QED BY <1>4, <1>5 DEF WriteLock

LEMMA OpenArtifactKeeps ==
  ASSUME FileInv, NEW p \in Procs, OpenArtifact(p)
  PROVE  FileInv'
<1> DEFINE r == procs[p]
           name == First(r.todo)
           refused == [r EXCEPT !.findings = {"AN_ARTIFACT_OUTPUT_INVALID"}]
           record == [r EXCEPT !.pc = "fill"]
<1>1. Static(r) /\ (r.calm => Undisturbed(r)) /\ r.pc = "open"
  BY DEF FileInv, ProcessInv, OpenArtifact
<1>2. /\ DOMAIN r = Fields /\ r.request.command = "generate" /\ r.request.command \in Commands /\ r.verdict # "passed"
      /\ r.todo \subseteq Elements(ArtifactOrder) /\ r.todo # {}
  BY <1>1 DEF Static
<1>3. UNCHANGED <<document, composition, disk, networkLock, scenario>>
  BY DEF OpenArtifact
<1>4. name \in r.todo /\ name \in Directory
  BY <1>2, FirstIsLeft DEF Directory, DirectoryOrder, ArtifactOrder, Elements
<1>5. CASE Becomes(p, Ended(refused, "refused")) /\ UNCHANGED artifacts
  <2>1. DOMAIN refused = Fields
    BY <1>2 DEF Fields
  <2>2. UNCHANGED <<files, scenario>>
    BY <1>3, <1>5 DEF files
  <2> QED BY <1>5, <2>1, <2>2, Fails, Moves
<1>6. CASE artifacts' = [artifacts EXCEPT ![name] = File(Torn)] /\ Writes(p, record)
  <2>1. /\ DOMAIN record = Fields /\ record.pc = "fill" /\ record.request = r.request /\ record.calm = r.calm
        /\ record.composition = r.composition /\ record.document = r.document /\ record.verdict = r.verdict
        /\ record.todo = r.todo
    BY <1>2 DEF Fields
  <2>2. /\ DOMAIN procs' = Procs /\ procs'[p] = record
        /\ \A q \in Procs \ {p} : procs'[q] = [procs[q] EXCEPT !.calm = FALSE]
    BY <1>6, WritesDisturbs DEF FileInv
  <2>3. DOMAIN artifacts = Directory
    BY DEF FileInv, FilesInv
  <2> HIDE DEF name
  <2>4. FilesInv'
    <3>1. IsArtifact(File(Torn))
      BY DEF IsArtifact, File
    <3>2. \A n \in Directory : IsArtifact(artifacts'[n])
      BY <1>6, <2>3, <3>1 DEF FileInv, FilesInv
    <3>3. DOMAIN artifacts' = Directory
      BY <1>6, <2>3
    <3> QED BY <1>3, <3>2, <3>3 DEF FileInv, FilesInv, IsArtifact
  <2> HIDE DEF record, r
  <2>5. Static(record)
    BY <1>1, <1>2, <2>1 DEF Static, Places, LockIsOwn
  <2>6. /\ procs'[p].pc = "fill" /\ procs'[p].request = r.request /\ procs'[p].calm = r.calm /\ procs'[p].todo = r.todo
        /\ procs'[p].composition = r.composition /\ procs'[p].document = r.document /\ procs'[p].verdict = r.verdict
    BY <2>1, <2>2
  <2>7. procs'[p].calm => Undisturbed(procs[p])'
    <3> SUFFICES ASSUME r.calm PROVE Undisturbed(procs[p])'
      BY <2>6
    <3>1. artifacts'[name] = File(Torn) /\ \A n \in Directory \ {name} : artifacts'[n] = artifacts[n]
      BY <1>4, <1>6, <2>3
    <3>2. Elements(ArtifactOrder) \subseteq Directory
      BY DEF Directory, DirectoryOrder, ArtifactOrder, Elements
    <3>3. \A n \in Elements(ArtifactOrder) \ r.todo :
            artifacts[n] = File(Render(document, composition, CurrentVersion)[n])
      BY <1>1 DEF Undisturbed
    <3>4. First(r.todo) = name
      BY DEF name
    <3>5. r.composition = composition /\ r.document = document
      BY <1>1 DEF Undisturbed
    <3> QED BY <1>2, <1>3, <1>4, <2>6, <3>1, <3>2, <3>3, <3>4, <3>5 DEF Undisturbed
  <2>8. \A q \in Procs \ (Procs \ {p}) : Static(procs'[q]) /\ (procs'[q].calm => Undisturbed(procs[q])')
    BY <2>2, <2>5, <2>7
  <2> QED BY <2>2, <2>4, <2>8, Disturbs
<1> QED BY <1>5, <1>6 DEF OpenArtifact

LEMMA FillArtifactKeeps ==
  ASSUME FileInv, NEW p \in Procs, FillArtifact(p)
  PROVE  FileInv'
<1> DEFINE r == procs[p]
           name == First(r.todo)
           content == Render(r.document, r.composition, CurrentVersion)[name]
           rest == [r EXCEPT !.pc = "open", !.todo = r.todo \ {name}]
           record == IF rest.todo = {} THEN Ended(rest, "passed") ELSE rest
<1>1. Static(r) /\ (r.calm => Undisturbed(r)) /\ r.pc = "fill"
  BY DEF FileInv, ProcessInv, FillArtifact
<1>2. /\ DOMAIN r = Fields /\ r.request.command = "generate" /\ r.request.command \in Commands /\ r.verdict # "passed"
      /\ r.todo \subseteq Elements(ArtifactOrder) /\ r.todo # {}
  BY <1>1 DEF Static
<1>3. UNCHANGED <<document, composition, disk, networkLock, scenario>>
  BY DEF FillArtifact
<1>4. name \in r.todo /\ Elements(ArtifactOrder) \subseteq Directory
  BY <1>2, FirstIsLeft DEF Directory, DirectoryOrder, ArtifactOrder, Elements
<1>5. PICK result \in Results(artifacts[name], content) : artifacts' = [artifacts EXCEPT ![name] = File(result)]
  BY DEF FillArtifact
<1>6. Writes(p, record)
  BY DEF FillArtifact
<1>7. rest.todo = r.todo \ {name} /\ DOMAIN rest = Fields
  BY <1>2 DEF Fields
<1>8. /\ DOMAIN record = Fields /\ record.request = r.request /\ record.calm = r.calm
      /\ record.composition = r.composition /\ record.document = r.document /\ record.todo = r.todo \ {name}
      /\ \/ record.todo # {} /\ record.pc = "open" /\ record.verdict = r.verdict
         \/ record.todo = {} /\ record.pc = "idle" /\ record.verdict = "passed"
  <2>1. CASE r.todo \ {name} = {}
    <3>1. record = [r EXCEPT !.pc = "idle", !.todo = r.todo \ {name}, !.verdict = "passed"]
      BY <1>2, <1>7, <2>1 DEF Ended, Fields
    <3> HIDE DEF record
    <3> QED BY <1>2, <2>1, <3>1 DEF Fields
  <2>2. CASE r.todo \ {name} # {}
    <3>1. record = [r EXCEPT !.pc = "open", !.todo = r.todo \ {name}]
      BY <1>7, <2>2
    <3> HIDE DEF record
    <3> QED BY <1>2, <2>2, <3>1 DEF Fields
  <2> QED BY <2>1, <2>2
<1> HIDE DEF record, rest
<1>9. /\ DOMAIN procs' = Procs /\ procs'[p] = record
      /\ \A q \in Procs \ {p} : procs'[q] = [procs[q] EXCEPT !.calm = FALSE]
  BY <1>6, WritesDisturbs DEF FileInv
<1>10. DOMAIN artifacts = Directory
  BY DEF FileInv, FilesInv
<1>11. r.calm => artifacts[name] = File(Torn)
  BY <1>1 DEF Undisturbed
<1> HIDE DEF name, content
<1>12. FilesInv'
  <2>1. IsArtifact(File(result))
    BY DEF IsArtifact, File
  <2>2. \A n \in Directory : IsArtifact(artifacts'[n])
    BY <1>5, <1>10, <2>1 DEF FileInv, FilesInv
  <2>3. DOMAIN artifacts' = Directory
    BY <1>5, <1>10
  <2> QED BY <1>3, <2>2, <2>3 DEF FileInv, FilesInv, IsArtifact
<1> HIDE DEF r
<1>13. Static(record)
  BY <1>1, <1>2, <1>8 DEF Static, Places, LockIsOwn
<1>14. /\ procs'[p].request = r.request /\ procs'[p].calm = r.calm /\ procs'[p].todo = r.todo \ {name}
       /\ procs'[p].composition = r.composition /\ procs'[p].document = r.document
       /\ \/ procs'[p].todo # {} /\ procs'[p].pc = "open" /\ procs'[p].verdict = r.verdict
          \/ procs'[p].todo = {} /\ procs'[p].pc = "idle" /\ procs'[p].verdict = "passed"
  BY <1>8, <1>9
<1>15. procs'[p].calm => Undisturbed(procs[p])'
  <2> SUFFICES ASSUME r.calm PROVE Undisturbed(procs[p])'
    BY <1>14
  <2>1. r.composition = composition /\ r.document = document
    BY <1>1 DEF Undisturbed
  <2>2. result = content
    BY <1>5, <1>11 DEF Results, File
  <2>3. artifacts'[name] = File(content) /\ \A n \in Directory \ {name} : artifacts'[n] = artifacts[n]
    BY <1>4, <1>5, <1>2, <1>10, <2>2
  <2>4. content = Render(document, composition, CurrentVersion)[name]
    BY <2>1 DEF content
  <2>5. \A n \in Elements(ArtifactOrder) \ r.todo : artifacts[n] = File(Render(document, composition, CurrentVersion)[n])
    BY <1>1 DEF Undisturbed
  <2>6. \A n \in Elements(ArtifactOrder) \ (r.todo \ {name}) :
          artifacts'[n] = File(Render(document, composition, CurrentVersion)[n])
    BY <1>4, <2>3, <2>4, <2>5
  <2>7. DOMAIN Render(document, composition, CurrentVersion) = Elements(ArtifactOrder)
    BY DEF Render, ArtifactsOf
  <2> QED BY <1>2, <1>3, <1>14, <2>1, <2>6, <2>7 DEF Undisturbed
<1>16. \A q \in Procs \ (Procs \ {p}) : Static(procs'[q]) /\ (procs'[q].calm => Undisturbed(procs[q])')
  <2>1. Static(procs'[p])
    BY <1>9, <1>13
  <2> QED BY <1>15, <2>1
<1> QED BY <1>9, <1>12, <1>16, Disturbs

\* Nobody relies on a file after an edit.
LEMMA EditsKeep ==
  ASSUME FileInv, EditContract \/ EditPacks \/ EditEvidence \/ EditArtifact \/ EditLock
  PROVE  FileInv'
<1>1. Edited
  BY DEF EditContract, EditPacks, EditEvidence, EditArtifact, EditLock
<1>2. DOMAIN procs' = Procs /\ \A q \in Procs : procs'[q] = [procs[q] EXCEPT !.calm = FALSE]
  BY <1>1 DEF Edited, Disturbed, FileInv
<1>3. scenario' = scenario /\ scenario \in Scenarios
  BY <1>1 DEF Edited, FileInv, FilesInv
<1>4. DOMAIN artifacts' = Directory /\ \A name \in Directory : IsArtifact(artifacts'[name])
  <2>1. CASE EditArtifact
    <3>1. PICK name \in DOMAIN artifacts, file \in scenario.contents : artifacts' = [artifacts EXCEPT ![name] = file]
      BY <2>1 DEF EditArtifact
    <3>2. IsArtifact(file)
      BY <1>3, ScenariosAssumption
    <3> QED BY <3>1, <3>2 DEF FileInv, FilesInv
  <2>2. CASE UNCHANGED artifacts
    BY <2>2 DEF FileInv, FilesInv
  <2> QED BY <2>1, <2>2 DEF EditContract, EditPacks, EditEvidence, EditLock
<1>5. IsLock(networkLock')
  <2>1. CASE EditLock
    <3>1. networkLock' \in scenario.locks
      BY <2>1 DEF EditLock
    <3> QED BY <1>3, <3>1, ScenariosAssumption
  <2>2. CASE UNCHANGED networkLock
    BY <2>2 DEF FileInv, FilesInv
  <2> QED BY <2>1, <2>2 DEF EditContract, EditPacks, EditEvidence, EditArtifact
<1>6. FilesInv'
  BY <1>3, <1>4, <1>5 DEF FilesInv, IsLock, IsArtifact
<1> QED BY <1>2, <1>6, Disturbs

(***************************************************************************)
(* The invariant.                                                          *)
(***************************************************************************)
LEMMA FilesBegin ==
  ASSUME Init
  PROVE  FileInv
<1>1. FilesInv
  BY ScenariosAssumption DEF Init, FilesInv, Directory
<1>2. DOMAIN Idle = Fields /\ Idle.pc = "idle" /\ Idle.verdict = "none"
  BY DEF Idle, Fields
<1>3. Static(Idle)
  BY <1>2 DEF Static, Places
<1>4. Undisturbed(Idle)
  BY <1>2 DEF Undisturbed
<1> QED BY <1>1, <1>3, <1>4 DEF Init, FileInv, ProcessInv

LEMMA FilesStep ==
  ASSUME FileInv, [Next]_vars
  PROVE  FileInv'
<1>1. ASSUME NEW p \in Procs, Step(p) PROVE FileInv'
  BY <1>1, StartKeeps, LoadContractKeeps, CheckContractKeeps, LoadLockKeeps, InspectArtifactKeeps, ListDirectoryKeeps,
     WriteLockKeeps, OpenArtifactKeeps, FillArtifactKeeps, CrashKeeps DEF Step
<1>2. CASE UNCHANGED vars
  BY <1>2 DEF vars, files, FileInv, FilesInv, ProcessInv, Static, Undisturbed, OnDisk, Intact, Stored, LockIsOwn
<1> QED BY <1>1, <1>2, EditsKeep DEF Next

\* Each process has read what it says, and as long as nobody else changes a
\* file, what it has written or compared is what is on disk.
THEOREM FilesInvariant == Spec => []FileInv
<1>1. Init => FileInv
  BY FilesBegin
<1>2. FileInv /\ [Next]_vars => FileInv'
  BY FilesStep
<1> QED BY <1>1, <1>2, PTL DEF Spec

\* Where no entry that follows has its path, an entry is the one that counts.
LEMMA LastEntryCounts ==
  ASSUME NEW lock, IsPayload(lock), NEW i \in DOMAIN lock.artifacts,
         \A j \in (i + 1)..Len(lock.artifacts) : lock.artifacts[j].path # lock.artifacts[i].path
  PROVE  LockedArtifacts(lock)[lock.artifacts[i].path] = lock.artifacts[i].hash
<1> DEFINE list == lock.artifacts
           path == list[i].path
           Last(k) == list[k].path = path /\ \A j \in DOMAIN list : list[j].path = path => j <= k
           last == CHOOSE k \in DOMAIN list : Last(k)
<1>1. DOMAIN list = 1..Len(list) /\ Len(list) \in Nat
  BY DEF IsPayload
<1>2. LockedArtifacts(lock)[path] = list[last].hash
  BY DEF LockedArtifacts
<1> HIDE DEF list
<1>3. Last(i) /\ i \in DOMAIN list
  BY <1>1 DEF list
<1>4. last \in DOMAIN list /\ Last(last)
  <2> HIDE DEF Last
  <2> QED BY <1>3
<1>5. last = i
  <2> HIDE DEF last
  <2> QED BY <1>1, <1>3, <1>4
<1> QED BY <1>2, <1>5 DEF list

\* A lock that is built lists each artifact once.
LEMMA BuiltArtifacts ==
  ASSUME NEW contract, NEW packs, NEW version
  PROVE  LockedArtifacts(BuildLock(contract, packs, version)) = Render(contract, packs, version)
<1> DEFINE lock == BuildLock(contract, packs, version)
           content == Render(contract, packs, version)
<1>1. lock.artifacts = [i \in 1..4 |-> [path |-> ArtifactOrder[i], hash |-> content[ArtifactOrder[i]]]]
  BY DEF BuildLock, LockOf, Render, ArtifactOrder
<1>2. content = [name \in Elements(ArtifactOrder) |-> content[name]]
  BY DEF Render, ArtifactsOf
<1>3. IsPayload(lock)
  BY BuiltIsPayload
<1>4. DOMAIN LockedArtifacts(lock) = {lock.artifacts[i].path : i \in DOMAIN lock.artifacts}
  BY DEF LockedArtifacts
<1>5. LockedArtifacts(lock) = [path \in DOMAIN LockedArtifacts(lock) |-> LockedArtifacts(lock)[path]]
  BY DEF LockedArtifacts
<1> HIDE DEF lock, content
<1>6. DOMAIN LockedArtifacts(lock) = Elements(ArtifactOrder)
  BY <1>1, <1>4 DEF Elements, ArtifactOrder
<1>7. ASSUME NEW i \in 1..4 PROVE LockedArtifacts(lock)[ArtifactOrder[i]] = content[ArtifactOrder[i]]
  <2>1. DOMAIN lock.artifacts = 1..4 /\ Len(lock.artifacts) = 4
    <3>1. DOMAIN lock.artifacts = 1..4
      BY <1>1
    <3>2. DOMAIN lock.artifacts = 1..Len(lock.artifacts) /\ Len(lock.artifacts) \in Nat
      BY <1>3 DEF IsPayload
    <3> DEFINE n == Len(lock.artifacts)
    <3>3. 1..4 = 1..n /\ n \in Nat
      BY <3>1, <3>2
    <3> HIDE DEF n
    <3>4. n = 4
      <4>1. 4 \in 1..n /\ \A k \in 1..n : k \in 1..4
        BY <3>3
      <4> QED BY <3>3, <4>1
    <3> QED BY <3>1, <3>4 DEF n
  <2>2. \A j \in (i + 1)..4 : ArtifactOrder[j] # ArtifactOrder[i]
    BY DEF ArtifactOrder
  <2>3. \A j \in (i + 1)..4 : lock.artifacts[j].path # lock.artifacts[i].path
    BY <1>1, <2>2
  <2>4. i \in DOMAIN lock.artifacts /\ \A j \in (i + 1)..Len(lock.artifacts) : lock.artifacts[j].path # lock.artifacts[i].path
    BY <2>1, <2>3
  <2>5. LockedArtifacts(lock)[lock.artifacts[i].path] = lock.artifacts[i].hash
    BY <1>3, <2>4, LastEntryCounts
  <2> QED BY <1>1, <2>5
<1>8. \A name \in Elements(ArtifactOrder) : LockedArtifacts(lock)[name] = content[name]
  BY <1>7 DEF Elements, ArtifactOrder
<1> QED BY <1>2, <1>5, <1>6, <1>8 DEF lock, content

\* A lock that is as good as the one that is built is one of the contract.
LEMMA OwnIsOfContract ==
  ASSUME NEW lock, IsPayload(lock), NEW contract, NEW packs,
         AsRead(lock) = AsRead(BuildLock(contract, packs, lock.version))
  PROVE  IsLockOf(lock, contract, packs) /\ LockedArtifacts(lock) = Render(contract, packs, lock.version)
<1> DEFINE own == BuildLock(contract, packs, lock.version)
           content == Render(contract, packs, lock.version)
           list == lock.artifacts
<1>1. IsPayload(own) /\ LockedArtifacts(own) = content
  BY BuiltIsPayload, BuiltArtifacts
<1>2. DOMAIN LockedArtifacts(lock) = {list[i].path : i \in DOMAIN list}
  BY DEF LockedArtifacts
<1> HIDE DEF own, content
<1>3. lock = [own EXCEPT !.artifacts = list]
  BY <1>1 DEF AsRead, IsPayload, FieldCodes, own
<1>4. LockedArtifacts(lock) = content
  BY <1>1 DEF AsRead, IsPayload, FieldCodes, own
<1>5. ASSUME NEW i \in DOMAIN list, \A j \in (i + 1)..Len(list) : list[j].path # list[i].path
      PROVE  list[i].hash = content[list[i].path]
  BY <1>4, <1>5, LastEntryCounts
<1>6. DOMAIN content = {list[i].path : i \in DOMAIN list}
  BY <1>2, <1>4
<1> QED BY <1>3, <1>4, <1>5, <1>6 DEF IsLockOf, own, content

LEMMA CurrentFollows ==
  ASSUME FileInv
  PROVE  PassedMeansCurrent
<1> SUFFICES ASSUME NEW p \in Procs, procs[p].verdict = "passed"
             PROVE  LET r == procs[p]
                        current == Render(document, composition, CurrentVersion)
                    IN /\ r.request.command = "generate" /\ r.calm
                            => \A name \in DOMAIN current : artifacts[name] = File(current[name])
                       /\ r.request.command \in {"lock", "lock-check"}
                            => /\ IsLockOf(r.lock, r.document, r.composition) /\ r.lock.revision \in Immutable
                               /\ r.calm => /\ networkLock = StoredLock(r.lock) /\ IsLockOf(r.lock, document, composition)
                                            /\ Stored(Render(document, composition, r.lock.version))
                       /\ r.request.command = "lock" => r.lock = BuildLock(r.document, r.composition, CurrentVersion)
  BY DEF PassedMeansCurrent
<1> DEFINE r == procs[p]
<1>1. Static(r) /\ (r.calm => Undisturbed(r))
  BY DEF FileInv, ProcessInv
<1>2. ASSUME r.request.command \in {"lock", "lock-check"}
      PROVE  /\ IsLockOf(r.lock, r.document, r.composition) /\ r.lock.revision \in Immutable
             /\ r.calm => /\ networkLock = StoredLock(r.lock) /\ IsLockOf(r.lock, document, composition)
                          /\ Stored(Render(document, composition, r.lock.version))
             /\ r.request.command = "lock" => r.lock = BuildLock(r.document, r.composition, CurrentVersion)
  <2>1. LockIsOwn(r)
    BY <1>1, <1>2 DEF Static
  <2>2. IsLockOf(r.lock, r.document, r.composition) /\ LockedArtifacts(r.lock) = Render(r.document, r.composition, r.lock.version)
    BY <2>1, OwnIsOfContract DEF LockIsOwn
  <2>3. r.lock.revision = r.document.network.revision
    BY <2>2 DEF IsLockOf, BuildLock, LockOf
  <2>4. r.document.network.revision \in Immutable
    BY <2>1 DEF LockIsOwn, LockErrors, BuildErrors, When
  <2>5. r.calm => r.composition = composition /\ r.document = document /\ networkLock = StoredLock(r.lock) /\ Intact(r.lock)
    BY <1>1, <1>2 DEF Undisturbed
  <2> QED BY <2>1, <2>2, <2>3, <2>4, <2>5 DEF LockIsOwn, Intact
<1>3. r.request.command = "generate" /\ r.calm =>
        LET current == Render(document, composition, CurrentVersion)
        IN \A name \in DOMAIN current : artifacts[name] = File(current[name])
  BY <1>1 DEF Undisturbed
<1> QED BY <1>2, <1>3

\* A command that passed undisturbed leaves, or has found, the artifacts and
\* the lock of the contract as it is, whatever was on disk before, whichever
\* command it was and however the commands of others were interleaved with it.
THEOREM PassedIsCurrent == Spec => []PassedMeansCurrent
BY FilesInvariant, CurrentFollows, PTL

(***************************************************************************)
(* What a process that accepted a contract has read.                       *)
(***************************************************************************)
Contracts == scenario.documents \cup {scenario.document}

HasRead(r) ==
  /\ r.pc \notin {"idle", "load"} \/ r.accepted => r.document \in Contracts
  /\ r.pc # "idle" \/ r.accepted => r.request \in scenario.requests
  /\ r.pc \in {"load", "check"} => ~ r.accepted
  /\ r.accepted => StructuralFindings(r.document, r.composition, r.request.asOf, r.disk) = {}

ReadInv == document \in Contracts /\ \A p \in Procs : HasRead(procs[p])

\* Nothing that a contract was accepted for is read again.
SameReading(r, s) ==
  /\ s.request = r.request /\ s.document = r.document /\ s.composition = r.composition /\ s.disk = r.disk
  /\ s.accepted = r.accepted

LEMMA Rests ==
  ASSUME NEW r, HasRead(r), NEW s, SameReading(r, s),
         s.pc \in {"idle", r.pc} \/ (r.pc \notin {"idle", "load"} /\ s.pc \notin {"load", "check"})
  PROVE  HasRead(s)
BY DEF HasRead, SameReading

\* The other processes, when one takes a step or a file is edited.
LEMMA OthersRest ==
  ASSUME FileInv, ReadInv, scenario' = scenario, NEW others \in SUBSET Procs, document' \in Contracts,
         \A q \in others : procs'[q] \in {procs[q], [procs[q] EXCEPT !.calm = FALSE]},
         \A q \in Procs \ others : HasRead(procs'[q])
  PROVE  ReadInv'
<1>1. ASSUME NEW q \in others PROVE HasRead(procs'[q])
  <2>1. DOMAIN procs[q] = Fields /\ HasRead(procs[q])
    BY DEF FileInv, ProcessInv, Static, ReadInv
  <2> DEFINE r == procs[q]
             s == procs'[q]
  <2>2. SameReading(r, s) /\ s.pc = r.pc
    BY <2>1 DEF SameReading, Fields
  <2> HIDE DEF r, s
  <2>3. HasRead(r)
    BY <2>1 DEF r
  <2>4. HasRead(s)
    BY <2>2, <2>3, Rests
  <2> QED BY <2>4 DEF s
<1>2. \A q \in Procs : HasRead(procs'[q])
  BY <1>1
<1> QED BY <1>2 DEF ReadInv, HasRead, Contracts

LEMMA OneReads ==
  ASSUME FileInv, ReadInv, NEW p \in Procs, NEW record, Becomes(p, record) \/ Writes(p, record),
         UNCHANGED <<document, scenario>>, HasRead(record)
  PROVE  ReadInv'
<1> DEFINE others == Procs \ {p}
<1>1. /\ procs'[p] = record
      /\ \A q \in others : procs'[q] \in {procs[q], [procs[q] EXCEPT !.calm = FALSE]}
  <2>1. CASE Becomes(p, record)
    BY <2>1 DEF Becomes, FileInv
  <2>2. CASE Writes(p, record)
    BY <2>2, WritesDisturbs DEF FileInv
  <2> QED BY <2>1, <2>2
<1>2. \A q \in Procs \ others : HasRead(procs'[q])
  BY <1>1
<1>3. document' \in Contracts
  BY DEF ReadInv
<1> HIDE DEF others
<1>4. others \in SUBSET Procs
  BY DEF others
<1> QED BY <1>1, <1>2, <1>3, <1>4, OthersRest

\* An action that goes on from what was read.
LEMMA OneRests ==
  ASSUME FileInv, ReadInv, NEW p \in Procs, NEW record, Becomes(p, record) \/ Writes(p, record),
         UNCHANGED <<document, scenario>>, SameReading(procs[p], record),
         record.pc \in {"idle", procs[p].pc} \/ (procs[p].pc \notin {"idle", "load"} /\ record.pc \notin {"load", "check"})
  PROVE  ReadInv'
<1>1. HasRead(procs[p])
  BY DEF ReadInv
<1>2. HasRead(record)
  BY <1>1, Rests
<1> QED BY <1>2, OneReads

LEMMA StartReads ==
  ASSUME FileInv, ReadInv, NEW p \in Procs, Start(p)
  PROVE  ReadInv'
<1>1. PICK request \in scenario.requests :
        Becomes(p, [Idle EXCEPT !.pc = "load", !.request = request, !.composition = composition])
  BY DEF Start
<1> DEFINE record == [Idle EXCEPT !.pc = "load", !.request = request, !.composition = composition]
<1>2. record.pc = "load" /\ record.request = request /\ record.accepted = FALSE
  BY DEF Idle
<1> HIDE DEF record
<1>3. HasRead(record)
  BY <1>2 DEF HasRead
<1> QED BY <1>1, <1>3, OneReads DEF Start, files, record

LEMMA LoadContractReads ==
  ASSUME FileInv, ReadInv, NEW p \in Procs, LoadContract(p)
  PROVE  ReadInv'
<1> DEFINE r == procs[p]
           record == [r EXCEPT !.pc = "check", !.document = document]
<1>1. DOMAIN r = Fields /\ HasRead(r) /\ document \in Contracts /\ r.pc = "load"
  BY DEF FileInv, ProcessInv, Static, ReadInv, LoadContract
<1>2. record.pc = "check" /\ record.request = r.request /\ record.accepted = r.accepted /\ record.document = document
  BY <1>1 DEF Fields
<1>3. Becomes(p, record)
  BY DEF LoadContract
<1> HIDE DEF record, r
<1>4. HasRead(record)
  BY <1>1, <1>2 DEF HasRead
<1> QED BY <1>3, <1>4, OneReads DEF LoadContract, Reads, files

LEMMA ProceedRests ==
  ASSUME NEW r, DOMAIN r = Fields, r.request.command \in Commands, NEW errors
  PROVE  SameReading(r, Proceed(r, errors)) /\ Proceed(r, errors).pc \notin {"load", "check"}
<1> DEFINE record == Proceed(r, errors)
<1> SUFFICES SameReading(r, record) /\ record.pc \notin {"load", "check"}
  OBVIOUS
<1>1. CASE errors # {}
  <2>1. record = Ended([r EXCEPT !.findings = errors], "refused")
    BY <1>1 DEF Proceed
  <2> QED BY <2>1 DEF Ended, SameReading, Fields
<1>2. CASE errors = {} /\ r.request.command = "check"
  <2>1. record = Ended(r, "passed")
    BY <1>2 DEF Proceed
  <2> QED BY <2>1 DEF Ended, SameReading, Fields
<1>3. CASE errors = {} /\ r.request.command = "generate"
  <2>1. record = [r EXCEPT !.pc = "open", !.todo = Elements(ArtifactOrder)]
    BY <1>3 DEF Proceed
  <2> QED BY <2>1 DEF SameReading, Fields
<1>4. CASE errors = {} /\ r.request.command = "lock"
  <2>1. record = Inspecting([r EXCEPT !.lock = BuildLock(r.document, r.composition, CurrentVersion)])
    BY <1>4 DEF Proceed
  <2> QED BY <2>1 DEF Inspecting, SameReading, Fields
<1>5. CASE errors = {} /\ r.request.command = "lock-check"
  <2>1. record = [r EXCEPT !.pc = "load_lock"]
    BY <1>5 DEF Proceed
  <2> QED BY <2>1 DEF SameReading, Fields
<1> QED BY <1>1, <1>2, <1>3, <1>4, <1>5 DEF Commands

LEMMA CheckContractReads ==
  ASSUME FileInv, ReadInv, NEW p \in Procs, CheckContract(p)
  PROVE  ReadInv'
<1> DEFINE r == procs[p]
           found == StructuralFindings(r.document, r.composition, r.request.asOf, disk)
           taken == [r EXCEPT !.accepted = TRUE, !.disk = disk]
           refused == Ended([r EXCEPT !.findings = found, !.disk = disk], "refused")
<1>1. DOMAIN r = Fields /\ HasRead(r) /\ r.pc = "check" /\ r.request.command \in Commands
  BY DEF FileInv, ProcessInv, Static, ReadInv, CheckContract
<1>2. Becomes(p, Checked(r, found)) /\ UNCHANGED <<document, scenario>>
  BY DEF CheckContract, Reads, files
<1>3. /\ DOMAIN taken = Fields /\ taken.request = r.request /\ taken.composition = r.composition
      /\ taken.document = r.document /\ taken.accepted = TRUE /\ taken.disk = disk
  BY <1>1 DEF Fields
<1>4. refused.pc = "idle" /\ refused.accepted = r.accepted
  BY <1>1 DEF Fields, Ended
<1>5. CASE found # {}
  <2>1. Becomes(p, refused)
    BY <1>2, <1>5 DEF Checked
  <2> HIDE DEF refused, r
  <2>2. HasRead(refused)
    BY <1>1, <1>4 DEF HasRead
  <2> QED BY <1>2, <2>1, <2>2, OneReads
<1>6. CASE found = {}
  <2> DEFINE record == Proceed(taken, CommandErrors(r))
  <2>1. Becomes(p, record)
    <3>1. CommandErrors(taken) = CommandErrors(r)
      BY <1>3 DEF CommandErrors
    <3> QED BY <1>2, <1>6, <3>1 DEF Checked
  <2>2. StructuralFindings(taken.document, taken.composition, taken.request.asOf, taken.disk) = {}
    BY <1>3, <1>6
  <2>3. taken.document \in Contracts /\ taken.request \in scenario.requests
    BY <1>1, <1>3 DEF HasRead
  <2> HIDE DEF taken, r, found
  <2>4. SameReading(taken, record) /\ record.pc \notin {"load", "check"}
    BY <1>1, <1>3, ProceedRests
  <2> HIDE DEF record
  <2>5. HasRead(record)
    BY <1>3, <2>2, <2>3, <2>4 DEF HasRead, SameReading
  <2> QED BY <1>2, <2>1, <2>5, OneReads
<1> QED BY <1>5, <1>6

LEMMA ReadsRest ==
  ASSUME FileInv, ReadInv, NEW p \in Procs, LoadLock(p) \/ InspectArtifact(p) \/ ListDirectory(p) \/ Crash(p)
  PROVE  ReadInv'
<1> DEFINE r == procs[p]
<1>1. DOMAIN r = Fields /\ UNCHANGED <<document, scenario>>
  BY DEF FileInv, ProcessInv, Static, LoadLock, InspectArtifact, ListDirectory, Crash, Reads, files
<1>2. CASE LoadLock(p)
  <2>1. r.pc = "load_lock"
    BY <1>2 DEF LoadLock
  <2>2. PICK record : Becomes(p, record) /\ SameReading(r, record) /\ record.pc \notin {"load", "check"}
    <3> DEFINE payload == networkLock.payload
               found == CompareFindings(payload, Expected(payload, r.document, r.composition))
    <3>1. \/ \E errors : Becomes(p, Ended([r EXCEPT !.findings = errors], "refused"))
          \/ Becomes(p, Inspecting([r EXCEPT !.lock = payload, !.findings = found]))
      BY <1>2 DEF LoadLock, Compared
    <3> HIDE DEF found, payload
    <3>2. ASSUME NEW errors
          PROVE  LET record == Ended([r EXCEPT !.findings = errors], "refused")
                 IN SameReading(r, record) /\ record.pc \notin {"load", "check"}
      BY <1>1 DEF Ended, SameReading, Fields
    <3>3. LET record == Inspecting([r EXCEPT !.lock = payload, !.findings = found])
          IN SameReading(r, record) /\ record.pc \notin {"load", "check"}
      BY <1>1 DEF Inspecting, SameReading, Fields
    <3> HIDE DEF r
    <3> QED BY <3>1, <3>2, <3>3
  <2> QED BY <1>1, <2>1, <2>2, OneRests
<1>3. CASE InspectArtifact(p)
  <2> DEFINE record == Inspected(r, First(r.todo))
  <2>1. Becomes(p, record)
    BY <1>3 DEF InspectArtifact
  <2>2. SameReading(r, record) /\ record.pc = r.pc
    BY <1>1 DEF Inspected, SameReading, Fields
  <2> QED BY <1>1, <2>1, <2>2, OneRests
<1>4. CASE ListDirectory(p)
  <2> DEFINE found == r.findings \cup UnexpectedFiles(r.lock, artifacts)
             record == Concluded(r, found)
  <2>1. Becomes(p, record) /\ r.pc = "inspect"
    BY <1>4 DEF ListDirectory
  <2> HIDE DEF found
  <2>2. SameReading(r, record) /\ record.pc \notin {"load", "check"}
    BY <1>1 DEF Concluded, Ended, SameReading, Fields
  <2> QED BY <1>1, <2>1, <2>2, OneRests
<1>5. CASE Crash(p)
  <2> DEFINE record == Ended(r, "crashed")
  <2>1. Becomes(p, record)
    BY <1>5 DEF Crash
  <2>2. SameReading(r, record) /\ record.pc = "idle"
    BY <1>1 DEF Ended, SameReading, Fields
  <2> QED BY <1>1, <2>1, <2>2, OneRests
<1> QED BY <1>2, <1>3, <1>4, <1>5

LEMMA WritesRest ==
  ASSUME FileInv, ReadInv, NEW p \in Procs, WriteLock(p) \/ OpenArtifact(p) \/ FillArtifact(p)
  PROVE  ReadInv'
<1> DEFINE r == procs[p]
           Goes(record) == SameReading(r, record) /\ record.pc \notin {"load", "check"}
<1>1. DOMAIN r = Fields /\ UNCHANGED <<document, scenario>> /\ r.pc \in {"write_lock", "open", "fill"}
  BY DEF FileInv, ProcessInv, Static, WriteLock, OpenArtifact, FillArtifact
<1>2. \A found : Goes(Ended([r EXCEPT !.findings = found], "refused"))
  BY <1>1 DEF Ended, SameReading, Fields
<1>3. Goes(Ended(r, "passed"))
  BY <1>1 DEF Ended, SameReading, Fields
<1>4. Goes([r EXCEPT !.pc = "fill"])
  BY <1>1 DEF SameReading, Fields
<1>5. \A left : Goes([r EXCEPT !.pc = "open", !.todo = left]) /\ Goes(Ended([r EXCEPT !.pc = "open", !.todo = left], "passed"))
  BY <1>1 DEF Ended, SameReading, Fields
<1>6. \E record : (Becomes(p, record) \/ Writes(p, record)) /\ Goes(record)
  <2>1. CASE WriteLock(p)
    <3> HIDE DEF Goes
    <3> QED BY <1>2, <1>3, <2>1 DEF WriteLock
  <2>2. CASE OpenArtifact(p)
    <3> HIDE DEF Goes
    <3> QED BY <1>2, <1>4, <2>2 DEF OpenArtifact
  <2>3. CASE FillArtifact(p)
    <3> DEFINE left == r.todo \ {First(r.todo)}
               rest == [r EXCEPT !.pc = "open", !.todo = left]
    <3>1. Writes(p, IF rest.todo = {} THEN Ended(rest, "passed") ELSE rest)
      BY <2>3 DEF FillArtifact
    <3> HIDE DEF Goes, left
    <3>2. Goes(rest) /\ Goes(Ended(rest, "passed"))
      BY <1>5
    <3> HIDE DEF rest
    <3> QED BY <3>1, <3>2
  <2> QED BY <2>1, <2>2, <2>3
<1> QED BY <1>1, <1>6, OneRests

LEMMA EditsRest ==
  ASSUME FileInv, ReadInv, EditContract \/ EditPacks \/ EditEvidence \/ EditArtifact \/ EditLock
  PROVE  ReadInv'
<1>1. Edited
  BY DEF EditContract, EditPacks, EditEvidence, EditArtifact, EditLock
<1>2. \A q \in Procs : procs'[q] \in {procs[q], [procs[q] EXCEPT !.calm = FALSE]}
  BY <1>1 DEF Edited, Disturbed, FileInv
<1>3. scenario' = scenario
  BY <1>1 DEF Edited
<1>4. document' \in Contracts
  BY DEF EditContract, EditPacks, EditEvidence, EditArtifact, EditLock, ReadInv, Contracts
<1> QED BY <1>2, <1>3, <1>4, OthersRest

LEMMA ReadingBegins ==
  ASSUME Init
  PROVE  ReadInv
<1>1. document \in Contracts
  BY DEF Init, Contracts
<1>2. Idle.pc = "idle" /\ Idle.accepted = FALSE
  BY DEF Idle
<1>3. HasRead(Idle)
  BY <1>2 DEF HasRead
<1> QED BY <1>1, <1>3 DEF Init, ReadInv

LEMMA ReadingStep ==
  ASSUME FileInv, ReadInv, [Next]_vars
  PROVE  ReadInv'
<1>1. ASSUME NEW p \in Procs, Step(p) PROVE ReadInv'
  BY <1>1, StartReads, LoadContractReads, CheckContractReads, ReadsRest, WritesRest DEF Step
<1>2. CASE UNCHANGED vars
  BY <1>2 DEF vars, files, ReadInv, HasRead, Contracts
<1> QED BY <1>1, <1>2, EditsRest DEF Next

\* A contract that a process has accepted is one that it was given, and its
\* checks found nothing in it, at the time it asked for, in the evidence that
\* it read: whatever is edited and whoever runs in between.
THEOREM ReadingInvariant == Spec => []ReadInv
<1>1. Init => ReadInv
  BY ReadingBegins
<1>2. FileInv /\ ReadInv /\ [Next]_vars => ReadInv'
  BY ReadingStep
<1> QED BY <1>1, <1>2, FilesInvariant, PTL DEF Spec

(***************************************************************************)
(* Lists of records.                                                       *)
(***************************************************************************)
\* A step taken again and again.
IsIteration(f, n, S, step, start) ==
  f \in [0..n -> S] /\ \A k \in 0..n : f[k] = IF k = 0 THEN start ELSE step[f[k - 1]]

LEMMA Iterates ==
  ASSUME NEW S, NEW step \in [S -> S], NEW start \in S, NEW n \in Nat
  PROVE  \E f : IsIteration(f, n, S, step, start)
<1> DEFINE Good(m, f) == f \in [0..m -> S] /\ \A k \in 0..m : f[k] = IF k = 0 THEN start ELSE step[f[k - 1]]
           Bad == {m \in Nat : ~ \E f \in [0..m -> S] : Good(m, f)}
<1>1. ASSUME Bad # {} PROVE FALSE
  <2>1. PICK m \in Bad : \A k \in Bad : ~ (<<k, m>> \in OpToRel(<, Nat))
    BY <1>1, WFMin, NatLessThanWellFounded
  <2>2. m \in Nat /\ ~ \E f \in [0..m -> S] : Good(m, f)
    OBVIOUS
  <2>3. \A k \in Nat : k < m => k \notin Bad
    BY <2>1, <2>2 DEF OpToRel
  <2>4. CASE m = 0
    <3> DEFINE f == [k \in 0..0 |-> start]
    <3>1. Good(0, f)
      OBVIOUS
    <3> QED BY <2>2, <2>4, <3>1
  <2>5. CASE m # 0
    <3>1. m - 1 \in Nat /\ m - 1 < m
      BY <2>2, <2>5
    <3>2. PICK f \in [0..(m - 1) -> S] : Good(m - 1, f)
      BY <2>3, <3>1
    <3> DEFINE g == [k \in 0..m |-> IF k = m THEN step[f[m - 1]] ELSE f[k]]
    <3>3. \A k \in 0..(m - 1) : g[k] = f[k] /\ k \in 0..m /\ k # m
      BY <2>2, <2>5
    <3>4. g \in [0..m -> S]
      BY <2>2, <2>5, <3>1, <3>2
    <3>5. ASSUME NEW k \in 0..m PROVE g[k] = IF k = 0 THEN start ELSE step[g[k - 1]]
      <4>1. CASE k = m
        <5>1. g[k] = step[f[m - 1]] /\ m - 1 \in 0..(m - 1)
          BY <4>1, <2>2, <2>5, <3>1
        <5>2. g[m - 1] = f[m - 1]
          BY <3>3, <5>1
        <5> HIDE DEF g
        <5> QED BY <4>1, <5>1, <5>2, <2>5
      <4>2. CASE k # m
        <5>1. k \in 0..(m - 1) /\ (k # 0 => k - 1 \in 0..(m - 1))
          BY <4>2, <2>2, <2>5
        <5>2. g[k] = f[k] /\ (k # 0 => g[k - 1] = f[k - 1])
          BY <3>3, <5>1
        <5>3. f[k] = IF k = 0 THEN start ELSE step[f[k - 1]]
          BY <3>2, <5>1
        <5> HIDE DEF g
        <5> QED BY <5>1, <5>2, <5>3
      <4> QED BY <4>1, <4>2
    <3>6. Good(m, g)
      BY <3>4, <3>5
    <3> QED BY <2>2, <3>4, <3>6
  <2> QED BY <2>4, <2>5
<1> QED BY <1>1 DEF IsIteration

\* What a worklist finds by rounds is an iteration.
LEMMA RoundsIterate ==
  ASSUME NEW S, NEW step \in [S -> S], NEW start \in S, NEW n \in Nat
  PROVE  \E f : IsIteration(f, n, S, step, start) /\ Rounds(step, start, n) = f[n]
<1> DEFINE F(after) == [k \in 0..n |-> IF k = 0 THEN start ELSE step[after[k - 1]]]
           after0 == CHOOSE after : after = F(after)
           Wrong == {k \in 0..n : after0[k] \notin S}
<1>1. Rounds(step, start, n) = after0[n]
  BY DEF Rounds
<1>2. PICK f : IsIteration(f, n, S, step, start)
  BY Iterates
<1>3. f = F(f)
  <2>1. f = [k \in 0..n |-> f[k]] /\ \A k \in 0..n : f[k] = IF k = 0 THEN start ELSE step[f[k - 1]]
    BY <1>2 DEF IsIteration
  <2> QED BY <2>1
<1>4. after0 = F(after0)
  <2> HIDE DEF F
  <2> QED BY <1>3
<1> HIDE DEF after0
<1>5. DOMAIN after0 = 0..n /\ \A k \in 0..n : after0[k] = IF k = 0 THEN start ELSE step[after0[k - 1]]
  <2>1. DOMAIN F(after0) = 0..n /\ \A k \in 0..n : F(after0)[k] = IF k = 0 THEN start ELSE step[after0[k - 1]]
    OBVIOUS
  <2> HIDE DEF F
  <2> QED BY <1>4, <2>1
<1>6. ASSUME Wrong # {} PROVE FALSE
  <2>1. Wrong \subseteq Nat
    OBVIOUS
  <2>2. PICK k \in Wrong : \A j \in Wrong : ~ (<<j, k>> \in OpToRel(<, Nat))
    BY <1>6, <2>1, WFMin, NatLessThanWellFounded
  <2>3. k \in 0..n /\ after0[k] \notin S
    OBVIOUS
  <2>4. k # 0
    BY <1>5, <2>3
  <2>5. k - 1 \in 0..n /\ k - 1 \in Nat /\ k - 1 < k /\ k \in Nat
    BY <2>3, <2>4
  <2>6. k - 1 \notin Wrong
    <3> HIDE DEF Wrong
    <3> QED BY <2>2, <2>5 DEF OpToRel
  <2>7. after0[k - 1] \in S
    BY <2>5, <2>6
  <2> QED BY <1>5, <2>3, <2>4, <2>7
<1>7. after0 \in [0..n -> S]
  <2>1. after0 = [k \in 0..n |-> after0[k]]
    <3>1. F(after0) = [k \in 0..n |-> F(after0)[k]]
      OBVIOUS
    <3> HIDE DEF F
    <3> QED BY <1>4, <3>1
  <2>2. \A k \in 0..n : after0[k] \in S
    BY <1>6
  <2> QED BY <2>1, <2>2
<1> QED BY <1>1, <1>5, <1>7 DEF IsIteration

\* What a step adds to the sets that hold some records settles within as many
\* rounds as there are records, at the least set that the step adds nothing to.
Growing(D, step, start) ==
  /\ IsFiniteSet(D) /\ step \in [SUBSET D -> SUBSET D] /\ start \in SUBSET D /\ start \subseteq step[start]
  /\ \A T, U \in SUBSET D : T \subseteq U => step[T] \subseteq step[U]

Round(T, n, D, step, start) ==
  /\ T \in SUBSET D /\ start \subseteq T /\ T \subseteq step[T]
  /\ n <= Cardinality(T) \/ step[T] = T
  /\ \A U \in SUBSET D : start \subseteq U /\ step[U] \subseteq U => T \subseteq U

LEMMA NextRound ==
  ASSUME NEW D, NEW step, NEW start, Growing(D, step, start), NEW T, NEW n \in Nat, Round(T, n, D, step, start)
  PROVE  Round(step[T], n + 1, D, step, start)
<1>1. T \in SUBSET D /\ step[T] \in SUBSET D /\ T \subseteq step[T] /\ start \subseteq step[T]
  BY DEF Growing, Round
<1>2. step[T] \subseteq step[step[T]]
  BY <1>1 DEF Growing
<1>3. n + 1 <= Cardinality(step[T]) \/ step[step[T]] = step[T]
  <2>1. CASE step[T] = T
    BY <2>1
  <2>2. CASE step[T] # T
    <3>1. IsFiniteSet(D)
      BY DEF Growing
    <3>2. IsFiniteSet(step[T])
      BY <1>1, <3>1, FS_Subset
    <3>3. IsFiniteSet(T) /\ Cardinality(T) <= Cardinality(step[T]) /\ Cardinality(T) # Cardinality(step[T])
      BY <1>1, <2>2, <3>2, FS_Subset
    <3>4. Cardinality(T) \in Nat /\ Cardinality(step[T]) \in Nat
      BY <3>2, <3>3, FS_CardinalityType
    <3>5. n <= Cardinality(T)
      BY <2>2 DEF Round
    <3> QED BY <3>3, <3>4, <3>5
  <2> QED BY <2>1, <2>2
<1>4. ASSUME NEW U \in SUBSET D, start \subseteq U, step[U] \subseteq U
      PROVE  step[T] \subseteq U
  <2>1. T \subseteq U
    BY <1>4 DEF Round
  <2>2. step[T] \subseteq step[U]
    BY <1>1, <2>1 DEF Growing
  <2> QED BY <1>4, <2>2
<1> QED BY <1>1, <1>2, <1>3, <1>4 DEF Round

LEMMA RoundsSettle ==
  ASSUME NEW D, NEW step, NEW start, Growing(D, step, start)
  PROVE  LET settled == Rounds(step, start, Cardinality(D))
         IN /\ settled \in SUBSET D /\ start \subseteq settled /\ step[settled] = settled
            /\ \A U \in SUBSET D : start \subseteq U /\ step[U] \subseteq U => settled \subseteq U
<1> DEFINE N == Cardinality(D)
           S == SUBSET D
<1>1. IsFiniteSet(D) /\ N \in Nat /\ step \in [S -> S] /\ start \in S
  BY FS_CardinalityType DEF Growing
<1> HIDE DEF N
<1>2. PICK f : IsIteration(f, N, S, step, start) /\ Rounds(step, start, N) = f[N]
  <2> HIDE DEF S
  <2> QED BY <1>1, RoundsIterate
<1>3. \A k \in 0..N : f[k] = IF k = 0 THEN start ELSE step[f[k - 1]]
  BY <1>2 DEF IsIteration
<1> DEFINE Bad == {k \in 0..N : ~ Round(f[k], k, D, step, start)}
<1>4. ASSUME Bad # {} PROVE FALSE
  <2>1. Bad \subseteq Nat
    OBVIOUS
  <2>2. PICK k \in Bad : \A j \in Bad : ~ (<<j, k>> \in OpToRel(<, Nat))
    BY <1>4, <2>1, WFMin, NatLessThanWellFounded
  <2>3. k \in 0..N /\ ~ Round(f[k], k, D, step, start)
    OBVIOUS
  <2>4. CASE k = 0
    <3>1. f[k] = start
      BY <1>3, <2>3, <2>4
    <3>2. 0 <= Cardinality(start)
      <4>1. IsFiniteSet(start)
        BY <1>1, FS_Subset
      <4>2. Cardinality(start) \in Nat
        BY <4>1, FS_CardinalityType
      <4> QED BY <4>2
    <3> QED BY <2>3, <2>4, <3>1, <3>2 DEF Growing, Round
  <2>5. CASE k # 0
    <3>1. k - 1 \in 0..N /\ k - 1 \in Nat /\ k - 1 < k /\ k \in Nat /\ (k - 1) + 1 = k
      BY <1>1, <2>3, <2>5
    <3>2. k - 1 \notin Bad
      <4> HIDE DEF Bad
      <4> QED BY <2>2, <3>1 DEF OpToRel
    <3>3. Round(f[k - 1], k - 1, D, step, start)
      BY <3>1, <3>2
    <3>4. Round(step[f[k - 1]], (k - 1) + 1, D, step, start)
      BY <3>1, <3>3, NextRound
    <3>5. f[k] = step[f[k - 1]]
      BY <1>3, <2>3, <2>5
    <3> QED BY <2>3, <3>1, <3>4, <3>5
  <2> QED BY <2>4, <2>5
<1> DEFINE T == f[N]
<1>5. Round(T, N, D, step, start)
  <2>1. N \in 0..N
    BY <1>1
  <2> QED BY <1>4, <2>1
<1> HIDE DEF T
<1>6. step[T] = T
  <2>1. CASE N <= Cardinality(T)
    <3>1. T \in SUBSET D /\ T \subseteq step[T] /\ step[T] \in SUBSET D
      BY <1>1, <1>5 DEF Round
    <3>2. Cardinality(T) <= Cardinality(D) /\ (Cardinality(T) = Cardinality(D) => T = D)
      BY <1>1, <3>1, FS_Subset
    <3>3. Cardinality(T) \in Nat
      BY <1>1, <3>1, FS_Subset, FS_CardinalityType
    <3>4. T = D
      BY <1>1, <2>1, <3>2, <3>3 DEF N
    <3> QED BY <3>1, <3>4
  <2>2. CASE step[T] = T
    BY <2>2
  <2> QED BY <1>5, <2>1, <2>2 DEF Round
<1> QED BY <1>2, <1>5, <1>6 DEF Round, N, T

\* What each step leaves stays.
LEMMA RoundsKeep ==
  ASSUME NEW D, IsFiniteSet(D), NEW step \in [SUBSET D -> SUBSET D], NEW T, T \subseteq D,
         \A U \in SUBSET D : T \subseteq U => T \subseteq step[U]
  PROVE  T \subseteq Rounds(step, D, Cardinality(D))
<1> DEFINE N == Cardinality(D)
           S == SUBSET D
<1>1. N \in Nat /\ D \in S /\ step \in [S -> S]
  BY FS_CardinalityType
<1> HIDE DEF N
<1>2. PICK f : IsIteration(f, N, S, step, D) /\ Rounds(step, D, N) = f[N]
  <2> HIDE DEF S
  <2> QED BY <1>1, RoundsIterate
<1>3. f \in [0..N -> S] /\ \A k \in 0..N : f[k] = IF k = 0 THEN D ELSE step[f[k - 1]]
  BY <1>2 DEF IsIteration
<1> DEFINE Bad == {k \in 0..N : ~ (T \subseteq f[k])}
<1>4. ASSUME Bad # {} PROVE FALSE
  <2>1. Bad \subseteq Nat
    OBVIOUS
  <2>2. PICK k \in Bad : \A j \in Bad : ~ (<<j, k>> \in OpToRel(<, Nat))
    BY <1>4, <2>1, WFMin, NatLessThanWellFounded
  <2>3. k \in 0..N /\ ~ (T \subseteq f[k])
    OBVIOUS
  <2>4. k # 0
    BY <1>3, <2>3
  <2>5. k - 1 \in 0..N /\ k - 1 \in Nat /\ k - 1 < k /\ k \in Nat
    BY <1>1, <2>3, <2>4
  <2>6. k - 1 \notin Bad
    <3> HIDE DEF Bad
    <3> QED BY <2>2, <2>5 DEF OpToRel
  <2>7. T \subseteq f[k - 1] /\ f[k - 1] \in SUBSET D
    BY <1>3, <2>5, <2>6
  <2> QED BY <1>3, <2>3, <2>4, <2>7
<1>5. N \in 0..N
  BY <1>1
<1> QED BY <1>2, <1>4, <1>5 DEF N

\* The records of a list are finitely many.
LEMMA ListsAreFinite ==
  ASSUME NEW list, IsList(list)
  PROVE  /\ DOMAIN list = 1..Len(list) /\ Len(list) \in Nat
         /\ IsFiniteSet(Elements(list)) /\ Cardinality(Elements(list)) \in Nat
<1>1. DOMAIN list = 1..Len(list) /\ Len(list) \in Nat
  BY DEF IsList
<1>2. IsFiniteSet(1..Len(list))
  BY <1>1, FS_Interval
<1>3. list \in Surjection(1..Len(list), Elements(list))
  BY <1>1 DEF IsList, Elements, Surjection
<1>4. IsFiniteSet(Elements(list))
  BY <1>2, <1>3, FS_Surjection
<1> QED BY <1>1, <1>4, FS_CardinalityType

\* Without duplicates an identity is that of one record, the first and the last of its name.
LEMMA IdsAreUnique ==
  ASSUME NEW list, IsList(list), NEW code, Duplicates(list, code) = {}
  PROVE  \A i, j \in DOMAIN list : list[i].id = list[j].id => i = j
<1> DEFINE f == [i \in 1..Len(list) |-> list[i].id]
<1>1. DOMAIN list = 1..Len(list) /\ Len(list) \in Nat
  BY ListsAreFinite
<1>2. IsFiniteSet(1..Len(list)) /\ Cardinality(1..Len(list)) = Len(list)
  <2>1. IsFiniteSet(1..Len(list)) /\ Cardinality(1..Len(list)) = IF 1 > Len(list) THEN 0 ELSE Len(list) - 1 + 1
    BY <1>1, FS_Interval
  <2> QED BY <1>1, <2>1
<1>3. f \in Surjection(1..Len(list), Ids(list))
  BY <1>1 DEF Surjection, Ids, Elements
<1>4. Cardinality(Ids(list)) = Len(list)
  BY DEF Duplicates, When
<1>5. f \in Injection(1..Len(list), Ids(list))
  BY <1>2, <1>3, <1>4, FS_SurjSameCardinalityImpliesInj
<1>6. \A i, j \in 1..Len(list) : f[i] = f[j] => i = j
  BY <1>5 DEF Injection, IsInjective
<1> QED BY <1>1, <1>6

LEMMA IndexFinds ==
  ASSUME NEW list, IsList(list), NEW code, Duplicates(list, code) = {}
  PROVE  /\ DOMAIN Index(list) = Ids(list) /\ DOMAIN LastIndex(list) = Ids(list)
         /\ \A r \in Elements(list) : Index(list)[r.id] = r /\ LastIndex(list)[r.id] = r
         /\ \A id \in Ids(list) : \E r \in Elements(list) : r.id = id /\ Index(list)[id] = r /\ LastIndex(list)[id] = r
<1>1. DOMAIN list = 1..Len(list) /\ Len(list) \in Nat
  BY ListsAreFinite
<1>2. \A i, j \in DOMAIN list : list[i].id = list[j].id => i = j
  BY IdsAreUnique
<1>3. ASSUME NEW k \in DOMAIN list
      PROVE  Index(list)[list[k].id] = list[k] /\ LastIndex(list)[list[k].id] = list[k]
  <2> DEFINE id == list[k].id
             First1(i) == list[i].id = id /\ \A j \in 1..(i - 1) : list[j].id # id
             Last1(i) == list[i].id = id /\ \A j \in (i + 1)..Len(list) : list[j].id # id
  <2>1. id \in Ids(list)
    BY DEF Ids, Elements
  <2>2. \A j \in 1..(k - 1) : j \in DOMAIN list /\ j # k
    BY <1>1
  <2>3. \A j \in (k + 1)..Len(list) : j \in DOMAIN list /\ j # k
    BY <1>1
  <2>4. First1(k) /\ Last1(k)
    BY <1>2, <2>2, <2>3
  <2>5. \A i \in DOMAIN list : First1(i) \/ Last1(i) => i = k
    BY <1>2
  <2>6. (CHOOSE i \in DOMAIN list : First1(i)) = k /\ (CHOOSE i \in DOMAIN list : Last1(i)) = k
    BY <2>4, <2>5
  <2>7. Index(list)[id] = list[CHOOSE i \in DOMAIN list : First1(i)]
    BY <2>1 DEF Index
  <2>8. LastIndex(list)[id] = list[CHOOSE i \in DOMAIN list : Last1(i)]
    BY <2>1 DEF LastIndex
  <2> QED BY <2>6, <2>7, <2>8
<1>4. DOMAIN Index(list) = Ids(list) /\ DOMAIN LastIndex(list) = Ids(list)
  BY DEF Index, LastIndex
<1>5. \A r \in Elements(list) : Index(list)[r.id] = r /\ LastIndex(list)[r.id] = r
  BY <1>3 DEF Elements
<1>6. \A id \in Ids(list) : \E r \in Elements(list) : r.id = id
  BY DEF Ids
<1> QED BY <1>4, <1>5, <1>6

(***************************************************************************)
(* What it says of a network that nothing was found in it.                 *)
(***************************************************************************)
\* The records that x and h stand for, what is revoked, and what the two checks rely on.
Revocable(contract, network, asOf) == Revoked(network, AllTargets(network), asOf)
Indexed(contract) == IndexRecords(contract, contract.network)
Delegated(contract) == Elements(Listed(contract.network.delegations))
Handed(contract) == Elements(Listed(contract.network.handoffs))

NetworkChecked(contract, packs, asOf) ==
  /\ contract.network # None /\ IsNetwork(contract, contract.network) /\ asOf \in Int \cup {None}
  /\ DelegationsOf(contract, packs, contract.network, Indexed(contract), asOf) = {}
  /\ FoundationIn(contract, packs, contract.network, IndexNetwork(contract, contract.network), asOf) = {}

LEMMA NothingFoundInNetwork ==
  ASSUME NEW contract, NEW packs, NEW asOf, asOf \in Int \cup {None, BadTime}, NEW evidence,
         NetworkChecks \subseteq packs.checks, contract.network # None, IsNetwork(contract, contract.network),
         StructuralFindings(contract, packs, asOf, evidence) = {}
  PROVE  NetworkChecked(contract, packs, asOf)
<1>1. asOf # BadTime /\ SelectedFindings(contract, packs, Gates(contract), UsableRecords(contract), asOf, evidence) = {}
  BY DEF StructuralFindings
<1>2. \A c \in packs.checks \cap KnownChecks :
        FindingsOf(c, contract, packs, Gates(contract), UsableRecords(contract), asOf, evidence) = {}
  BY <1>1 DEF SelectedFindings
<1>3. {DelegationCheck, FoundationCheck} \subseteq packs.checks \cap KnownChecks
  BY DEF NetworkChecks, KnownChecks
<1>4. AgenticNetworkDelegation(contract, packs, asOf) = {}
  BY <1>2, <1>3 DEF FindingsOf, DelegationCheck, FoundationCheck
<1>5. AgenticNetworkFoundation(contract, packs, asOf) = {}
  BY <1>2, <1>3 DEF FindingsOf, DelegationCheck, FoundationCheck
<1> QED BY <1>1, <1>4, <1>5 DEF NetworkChecked, AgenticNetworkDelegation, AgenticNetworkFoundation, Indexed

\* Each record alone.
LEMMA EachIsClean ==
  ASSUME NEW contract, NEW packs, NEW asOf, NetworkChecked(contract, packs, asOf)
  PROVE  LET network == contract.network
             known == KnownReferences(contract, packs)
             revoked == Revocable(contract, network, asOf)
         IN /\ \A x \in Delegated(contract) : DelegationFindings(x, network, Indexed(contract), known, revoked, asOf) = {}
            /\ \A h \in Handed(contract) :
                 HandoffFindings(h, contract.names.missions, network, Indexed(contract), known, revoked, asOf) = {}
            /\ Duplicates(Listed(network.delegations), "AN_DELEGATION_DUPLICATE") = {}
<1>1. CheckedRecords(contract, packs, contract.network, Indexed(contract), KnownReferences(contract, packs), asOf) = {}
  BY DEF NetworkChecked, DelegationsOf
<1>2. Duplicates(Listed(contract.network.delegations), "AN_DELEGATION_DUPLICATE") = {}
  BY DEF NetworkChecked, DelegationsOf
<1> QED BY <1>1, <1>2 DEF CheckedRecords, AllRecords, Revocable, Delegated, Handed

LEMMA FoundationIsClean ==
  ASSUME NEW contract, NEW packs, NEW asOf, NetworkChecked(contract, packs, asOf)
  PROVE  LET network == contract.network
             n == IndexNetwork(contract, network)
             targets == RevocationTargets(contract, network, n)
         IN /\ Duplicates(contract.identities, "AN_IDENTITY_DUPLICATE") = {}
            /\ Duplicates(contract.capabilities, "AN_CAPABILITY_DUPLICATE") = {}
            /\ RevocationFindings(network, n, KnownReferences(contract, packs), targets, Revoked(network, targets, asOf)) = {}
<1> DEFINE network == contract.network
           n == IndexNetwork(contract, network)
           targets == RevocationTargets(contract, network, n)
<1>1. FoundationOf(contract, packs, network, n, KnownReferences(contract, packs), targets, Revoked(network, targets, asOf), asOf) = {}
  BY DEF NetworkChecked, FoundationIn, FoundationFindings
<1> HIDE DEF n, targets
<1>2. DuplicateFindings(contract, network) = {}
  BY <1>1 DEF FoundationOf
<1>3. RevocationFindings(network, n, KnownReferences(contract, packs), targets, Revoked(network, targets, asOf)) = {}
  BY <1>1 DEF FoundationOf
<1>4. Duplicates(contract.identities, "AN_IDENTITY_DUPLICATE") = {} /\ Duplicates(contract.capabilities, "AN_CAPABILITY_DUPLICATE") = {}
  BY <1>2 DEF DuplicateFindings
<1> QED BY <1>3, <1>4 DEF n, targets

\* A revocation has a time and a target; one of an assignment is never in effect.
LEMMA RevocationsAreSettled ==
  ASSUME NEW contract, NEW packs, NEW asOf, NetworkChecked(contract, packs, asOf), asOf # None
  PROVE  /\ \A target : Lifted(contract.network, target, asOf) => target \in Revocable(contract, contract.network, asOf)
         /\ \A kind, principal, capability : ~ Lifted(contract.network, Assignment(kind, principal, capability), asOf)
<1> DEFINE network == contract.network
           n == IndexNetwork(contract, network)
           targets == RevocationTargets(contract, network, n)
           revoked == Revoked(network, targets, asOf)
<1>1. RevocationFindings(network, n, KnownReferences(contract, packs), targets, revoked) = {}
  BY FoundationIsClean
<1>2. None \notin targets /\ \A r \in Elements(network.revocations) : r.at \in Int \cup {None, IllTyped}
  BY DEF NetworkChecked, IsNetwork
<1>3. asOf \in Int
  BY DEF NetworkChecked
<1> HIDE DEF n, targets
<1>4. ASSUME NEW r \in Elements(network.revocations)
      PROVE  r.target \in targets /\ IsTime(r.at)
  BY <1>1 DEF RevocationFindings, When
<1>5. ~ \E t \in revoked : t[1] \in {"capability_assignment", "protocol_target"}
  BY <1>1 DEF RevocationFindings, When
<1>6. ASSUME NEW target, Lifted(network, target, asOf)
      PROVE  target \in revoked /\ target \in Revocable(contract, network, asOf)
  <2>1. PICK r \in Elements(network.revocations) : r.target = target /\ r.at <= asOf
    BY <1>6 DEF Lifted
  <2>2. r.target \in targets /\ r.at \in Int /\ IsTime(r.at)
    BY <1>2, <1>4 DEF IsTime
  <2>3. InEffect(r, asOf)
    BY <1>3, <2>1, <2>2 DEF InEffect
  <2>4. r.target \in AllTargets(network)
    BY <1>2, <2>2 DEF AllTargets
  <2> QED BY <2>1, <2>2, <2>3, <2>4 DEF Revoked, Revocable
<1>7. ASSUME NEW kind, NEW principal, NEW capability, Lifted(network, Assignment(kind, principal, capability), asOf)
      PROVE  FALSE
  <2>1. Assignment(kind, principal, capability) \in revoked
    BY <1>6, <1>7
  <2>2. Assignment(kind, principal, capability)[1] = "capability_assignment"
    BY DEF Assignment
  <2> QED BY <1>5, <2>1, <2>2
<1> QED BY <1>6, <1>7

(***************************************************************************)
(* One delegation.                                                         *)
(***************************************************************************)
LEMMA DelegationIsClean ==
  ASSUME NEW contract, NEW packs, NEW asOf, NetworkChecked(contract, packs, asOf), NEW x \in Delegated(contract)
  PROVE  LET d == Indexed(contract)
             revoked == Revocable(contract, contract.network, asOf)
         IN /\ PartyFindings(x.delegator, "DELEGATOR", d, revoked, asOf) = {}
            /\ x.capability \in DOMAIN d.capabilities
            /\ DelegableFindings(x, d.capabilities[x.capability]) = {}
            /\ x.delegator \in DOMAIN d.identities => DelegatorFindings(x, d, revoked, asOf) = {}
            /\ IntervalFindings(x, x.status = "active", asOf) = {}
            /\ DepthFindings(x, d) = {}
            /\ x.status = "active" => <<"delegation", x.id>> \notin revoked
<1> DEFINE d == Indexed(contract)
           revoked == Revocable(contract, contract.network, asOf)
           known == KnownReferences(contract, packs)
<1>1. DelegationFindings(x, contract.network, d, known, revoked, asOf) = {}
  BY EachIsClean
<1> HIDE DEF d, revoked, known
<1>2. /\ PartyFindings(x.delegator, "DELEGATOR", d, revoked, asOf) = {}
      /\ IntervalFindings(x, x.status = "active", asOf) = {}
      /\ DepthFindings(x, d) = {}
  BY <1>1 DEF DelegationFindings
<1>3. When(<<"delegation", x.id>> \in revoked /\ x.status = "active", "AN_DELEGATION_REVOKED") = {}
  BY <1>1 DEF DelegationFindings
<1>4. (IF x.capability \in DOMAIN d.capabilities THEN DelegableFindings(x, d.capabilities[x.capability]) ELSE {"AN_CAPABILITY_UNKNOWN"}) = {}
  BY <1>1 DEF DelegationFindings
<1>5. (IF x.delegator \in DOMAIN d.identities /\ x.capability \in DOMAIN d.capabilities
       THEN DelegatorFindings(x, d, revoked, asOf) ELSE {}) = {}
  BY <1>1 DEF DelegationFindings
<1>6. x.capability \in DOMAIN d.capabilities /\ DelegableFindings(x, d.capabilities[x.capability]) = {}
  BY <1>4
<1>7. x.delegator \in DOMAIN d.identities => DelegatorFindings(x, d, revoked, asOf) = {}
  BY <1>5, <1>6
<1>8. x.status = "active" => <<"delegation", x.id>> \notin revoked
  BY <1>3 DEF When
<1> QED BY <1>2, <1>6, <1>7, <1>8 DEF d, revoked

\* A party is one identity, in force at a time that is known.
LEMMA PartiesAreEffective ==
  ASSUME NEW contract, NEW packs, NEW asOf, NetworkChecked(contract, packs, asOf), NEW ref, NEW role,
         PartyFindings(ref, role, Indexed(contract), Revocable(contract, contract.network, asOf), asOf) = {}
  PROVE  /\ asOf # None /\ asOf \in Int /\ ref \in DOMAIN Indexed(contract).identities
         /\ \E i \in Elements(contract.identities) :
              /\ i.id = ref /\ Indexed(contract).identities[ref] = i
              /\ i.status = "active" /\ Covers(i, asOf)
              /\ ~ Lifted(contract.network, <<"agent_identity", ref>>, asOf)
<1> DEFINE d == Indexed(contract)
           revoked == Revocable(contract, contract.network, asOf)
<1>1. d.identities = LastIndex(contract.identities)
  BY DEF Indexed, IndexRecords
<1>2. IsList(contract.identities) /\ Duplicates(contract.identities, "AN_IDENTITY_DUPLICATE") = {}
  BY FoundationIsClean DEF NetworkChecked, IsNetwork
<1> HIDE DEF d, revoked
<1>3. PartyFindings(ref, role, d, revoked, asOf) = {}
  BY DEF d, revoked
<1>4. ref \in DOMAIN d.identities
  BY <1>3 DEF PartyFindings
<1>5. EffectiveAt(d.identities[ref], "active", asOf) /\ <<"agent_identity", ref>> \notin revoked
  BY <1>3, <1>4 DEF PartyFindings, When
<1>6. asOf # None /\ asOf \in Int
  BY <1>5 DEF EffectiveAt, NetworkChecked
<1>7. ref \in Ids(contract.identities)
  BY <1>1, <1>2, <1>4, IndexFinds
<1>8. PICK i \in Elements(contract.identities) : i.id = ref /\ d.identities[ref] = i
  BY <1>1, <1>2, <1>7, IndexFinds
<1>9. ~ Lifted(contract.network, <<"agent_identity", ref>>, asOf)
  BY <1>5, <1>6, RevocationsAreSettled DEF revoked
<1> QED BY <1>4, <1>5, <1>6, <1>8, <1>9 DEF EffectiveAt, d

\* So is a membership of it.
LEMMA MembersAreEffective ==
  ASSUME NEW contract, NEW packs, NEW asOf, NetworkChecked(contract, packs, asOf), asOf # None, NEW identity, NEW zone,
         NEW m \in MembersOf(identity, zone, Indexed(contract), Revocable(contract, contract.network, asOf), asOf)
  PROVE  /\ m \in Elements(contract.network.memberships) /\ m.identity = identity /\ m.zone = zone
         /\ m.status = "authorized" /\ Covers(m, asOf)
         /\ ~ Lifted(contract.network, <<"membership", m.id>>, asOf)
<1>1. m \in Elements(contract.network.memberships)
  BY DEF MembersOf, Indexed, IndexRecords
<1>2. m.identity = identity /\ m.zone = zone /\ EffectiveAt(m, "authorized", asOf)
  BY DEF MembersOf
<1>3. <<"membership", m.id>> \notin Revocable(contract, contract.network, asOf)
  BY DEF MembersOf
<1> QED BY <1>1, <1>2, <1>3, RevocationsAreSettled DEF EffectiveAt

LEMMA DelegatorsHave ==
  ASSUME NEW contract, NEW packs, NEW asOf, NetworkChecked(contract, packs, asOf), NEW x \in Delegated(contract)
  PROVE  asOf # None /\ asOf \in Int /\ Has(contract, x.delegator, x.capability, x.source, asOf)
<1> DEFINE d == Indexed(contract)
           revoked == Revocable(contract, contract.network, asOf)
<1>1. /\ PartyFindings(x.delegator, "DELEGATOR", d, revoked, asOf) = {}
      /\ x.delegator \in DOMAIN d.identities => DelegatorFindings(x, d, revoked, asOf) = {}
  BY DelegationIsClean
<1>2. /\ asOf # None /\ asOf \in Int /\ x.delegator \in DOMAIN d.identities
      /\ \E i \in Elements(contract.identities) :
           /\ i.id = x.delegator /\ d.identities[x.delegator] = i
           /\ i.status = "active" /\ Covers(i, asOf)
           /\ ~ Lifted(contract.network, <<"agent_identity", x.delegator>>, asOf)
  BY <1>1, PartiesAreEffective
<1>3. PICK i \in Elements(contract.identities) :
           /\ i.id = x.delegator /\ d.identities[x.delegator] = i
           /\ i.status = "active" /\ Covers(i, asOf)
           /\ ~ Lifted(contract.network, <<"agent_identity", x.delegator>>, asOf)
  BY <1>2
<1> DEFINE assigned == {m \in MembersOf(x.delegator, x.source, d, revoked, asOf) : x.capability \in m.capabilities}
<1>4. x.capability \in i.capabilities /\ assigned # {}
  <2> HIDE DEF d, revoked
  <2>1. DelegatorFindings(x, d, revoked, asOf) = {}
    BY <1>1, <1>2
  <2>2. x.capability \in d.identities[x.delegator].capabilities
    BY <2>1 DEF DelegatorFindings
  <2>3. assigned # {}
    BY <2>1, <2>2 DEF DelegatorFindings, When
  <2> QED BY <1>3, <2>2, <2>3
<1>5. PICK m \in MembersOf(x.delegator, x.source, d, revoked, asOf) : x.capability \in m.capabilities
  BY <1>4
<1>6. /\ m \in Elements(contract.network.memberships) /\ m.identity = x.delegator /\ m.zone = x.source
      /\ m.status = "authorized" /\ Covers(m, asOf)
      /\ ~ Lifted(contract.network, <<"membership", m.id>>, asOf)
  BY <1>2, <1>5, MembersAreEffective
<1>7. \A kind, principal, capability : ~ Lifted(contract.network, Assignment(kind, principal, capability), asOf)
  BY <1>2, RevocationsAreSettled
<1> QED BY <1>2, <1>3, <1>4, <1>5, <1>6, <1>7 DEF Has

LEMMA ActiveIsInForce ==
  ASSUME NEW contract, NEW packs, NEW asOf, NetworkChecked(contract, packs, asOf), NEW x \in Delegated(contract)
  PROVE  /\ Proper(x) /\ x.from \in Int /\ x.until \in Int
         /\ x.status = "active" => InForceNow(x, contract.network, asOf)
<1>1. /\ IntervalFindings(x, x.status = "active", asOf) = {}
      /\ x.status = "active" => <<"delegation", x.id>> \notin Revocable(contract, contract.network, asOf)
  BY DelegationIsClean
<1>2. asOf # None /\ asOf \in Int
  BY DelegatorsHave
<1>3. Proper(x)
  BY <1>1 DEF IntervalFindings
<1>4. x.from \in Int /\ x.until \in Int
  BY <1>3 DEF Proper, IsTime, NetworkChecked, IsNetwork, Delegated
<1>5. x.status = "active" => Covers(x, asOf)
  BY <1>1, <1>2, <1>3, <1>4 DEF IntervalFindings, When, Covers
<1>6. x.status = "active" => ~ Lifted(contract.network, <<"delegation", x.id>>, asOf)
  BY <1>1, <1>2, RevocationsAreSettled
<1> QED BY <1>3, <1>4, <1>5, <1>6 DEF InForceNow

\* Within what the capability allows.
LEMMA CapabilityAllows ==
  ASSUME NEW contract, NEW packs, NEW asOf, NetworkChecked(contract, packs, asOf), NEW x \in Delegated(contract),
         DepthsValid(x), NEW c \in Elements(contract.capabilities), c.id = x.capability
  PROVE  /\ c.delegable = TRUE /\ x.actions \subseteq c.actions /\ x.scopes \subseteq Elements(c.scopes)
         /\ x.depth < (IF c.depth = None THEN DefaultDepth ELSE c.depth)
<1> DEFINE d == Indexed(contract)
<1>1. x.capability \in DOMAIN d.capabilities /\ DelegableFindings(x, d.capabilities[x.capability]) = {} /\ DepthFindings(x, d) = {}
  BY DelegationIsClean
<1>2. d.capabilities = LastIndex(contract.capabilities)
  BY DEF Indexed, IndexRecords
<1>3. IsList(contract.capabilities) /\ Duplicates(contract.capabilities, "AN_CAPABILITY_DUPLICATE") = {}
  BY FoundationIsClean DEF NetworkChecked, IsNetwork
<1>4. d.capabilities[x.capability] = c
  BY <1>2, <1>3, IndexFinds
<1> HIDE DEF d
<1>5. DelegableFindings(x, c) = {}
  BY <1>1, <1>4
<1>6. c.delegable = TRUE /\ x.actions \subseteq c.actions /\ x.scopes \subseteq Canonical(c.scopes)
  BY <1>5 DEF DelegableFindings, When
<1>7. IsDepth(x.maxDepth) /\ x.depth \in Int /\ x.maxDepth \in Int
  BY DEF DepthsValid, IsDepth, NetworkChecked, IsNetwork, Delegated
<1>8. c.depth \in Int \cup {None}
  BY DEF NetworkChecked, IsNetwork
<1>9. ~ (x.maxDepth > (IF c.depth = None THEN DefaultDepth ELSE c.depth))
  BY <1>5, <1>7 DEF DelegableFindings, When
<1>10. ~ (x.depth >= x.maxDepth)
  BY <1>1 DEF DepthFindings, When
<1>11. x.depth < (IF c.depth = None THEN DefaultDepth ELSE c.depth)
  BY <1>7, <1>8, <1>9, <1>10 DEF DefaultDepth
<1> QED BY <1>6, <1>11 DEF Canonical

(***************************************************************************)
(* Chains of delegations.                                                  *)
(***************************************************************************)
Rooted(D) ==
  /\ IsFiniteSet(D)
  /\ \A x \in D : x.id # None /\ {x.depth, x.maxDepth, x.from, x.until} \subseteq Int
  /\ \A x, y \in D : x.id = y.id => x = y
  /\ \A x \in D : x.parent = None => x.depth = 0
  /\ \A x \in D : x.parent # None => \E y \in D : y.id = x.parent /\ x.depth = y.depth + 1 /\ Within(x, y)

LEMMA WithinIsTransitive ==
  ASSUME NEW D, Rooted(D), NEW x \in D, NEW y \in D, NEW z \in D, Within(x, y), Within(y, z)
  PROVE  Within(x, z)
<1>1. \A u \in D : u.depth \in Int /\ u.maxDepth \in Int /\ u.from \in Int /\ u.until \in Int
  BY DEF Rooted
<1> QED BY <1>1 DEF Within

\* Some delegation is the least deep: of sets without one, none has the least cardinality.
LEMMA SomeIsShallowest ==
  ASSUME NEW D, Rooted(D), D # {}
  PROVE  \E y \in D : \A z \in D : y.depth <= z.depth
<1> DEFINE Endless(T) == T # {} /\ \A s \in T : \E t \in T : t.depth < s.depth
           Bad == {k \in Nat : \E T \in SUBSET D : Cardinality(T) = k /\ Endless(T)}
<1>1. \A u \in D : u.depth \in Int
  BY DEF Rooted
<1>2. \A T \in SUBSET D : IsFiniteSet(T) /\ Cardinality(T) \in Nat
  BY FS_Subset, FS_CardinalityType DEF Rooted
<1>3. ASSUME Bad # {} PROVE FALSE
  <2>1. PICK k \in Bad : \A j \in Bad : ~ (<<j, k>> \in OpToRel(<, Nat))
    BY <1>3, WFMin, NatLessThanWellFounded
  <2>2. k \in Nat /\ \A j \in Nat : j < k => j \notin Bad
    BY <2>1 DEF OpToRel
  <2>3. PICK T \in SUBSET D : Cardinality(T) = k /\ Endless(T)
    OBVIOUS
  <2>4. PICK s \in T : TRUE
    BY <2>3
  <2> DEFINE U == {t \in T : t.depth < s.depth}
  <2>5. U \subseteq T /\ s \notin U /\ U # {}
    BY <1>1, <2>3, <2>4
  <2>6. \A u \in U : \E t \in U : t.depth < u.depth
    BY <1>1, <2>3, <2>4
  <2>7. U \in SUBSET D
    BY <2>5
  <2>8. IsFiniteSet(T) /\ Cardinality(U) <= Cardinality(T) /\ Cardinality(U) # Cardinality(T)
    <3>1. IsFiniteSet(T)
      BY <1>2
    <3> HIDE DEF U
    <3>2. U \in SUBSET T /\ U # T
      BY <2>4, <2>5
    <3> QED BY <3>1, <3>2, FS_Subset
  <2> HIDE DEF U
  <2>9. Cardinality(U) \in Nat /\ Cardinality(U) < k
    BY <1>2, <2>2, <2>3, <2>7, <2>8
  <2>10. Cardinality(U) \in Bad
    BY <2>5, <2>6, <2>7, <2>9
  <2> QED BY <2>2, <2>9, <2>10
<1>4. ~ Endless(D)
  BY <1>2, <1>3
<1>5. PICK y \in D : \A z \in D : ~ (z.depth < y.depth)
  BY <1>4
<1>6. \A z \in D : y.depth <= z.depth
  BY <1>1, <1>5
<1> QED BY <1>6

\* The least deep has no parent.
LEMMA DepthsAreNatural ==
  ASSUME NEW D, Rooted(D), NEW x \in D
  PROVE  x.depth \in Nat
<1>1. \A u \in D : u.depth \in Int
  BY DEF Rooted
<1>2. PICK y \in D : \A z \in D : y.depth <= z.depth
  BY SomeIsShallowest
<1>3. y.parent = None
  BY <1>1, <1>2 DEF Rooted
<1>4. y.depth = 0
  BY <1>3 DEF Rooted
<1> QED BY <1>1, <1>2, <1>4

\* The delegations that x rests on, one generation after the other.
AreGenerations(f, N, D, x) ==
  f[0] = {} /\ \A n \in 1..N : f[n] = {y \in D : \E z \in f[n - 1] \cup {x} : z.parent = y.id}

LEMMA AboveEquations ==
  ASSUME NEW D, IsFiniteSet(D), NEW x
  PROVE  /\ Cardinality(D) \in Nat
         /\ \E f \in [0..Cardinality(D) -> SUBSET D] :
              Above(D, x) = f[Cardinality(D)] /\ AreGenerations(f, Cardinality(D), D, x)
<1> DEFINE N == Cardinality(D)
           S == SUBSET D
           step == [T \in SUBSET D |-> {y \in D : \E z \in T \cup {x} : z.parent = y.id}]
<1>1. N \in Nat /\ step \in [S -> S] /\ {} \in S
  BY FS_CardinalityType
<1> HIDE DEF N
<1>2. PICK f : IsIteration(f, N, S, step, {}) /\ Rounds(step, {}, N) = f[N]
  <2> HIDE DEF S, step
  <2> QED BY <1>1, RoundsIterate
<1>3. f \in [0..N -> S] /\ \A k \in 0..N : f[k] = IF k = 0 THEN {} ELSE step[f[k - 1]]
  BY <1>2 DEF IsIteration
<1>4. f[0] = {}
  <2>1. 0 \in 0..N
    BY <1>1
  <2> HIDE DEF step
  <2> QED BY <1>3, <2>1
<1>5. ASSUME NEW k \in 1..N
      PROVE  f[k] = {y \in D : \E z \in f[k - 1] \cup {x} : z.parent = y.id}
  <2>1. k \in 0..N /\ k # 0 /\ k - 1 \in 0..N
    BY <1>1
  <2>2. f[k - 1] \in SUBSET D /\ f[k] = step[f[k - 1]]
    BY <1>3, <2>1
  <2> QED BY <2>2
<1>6. Above(D, x) = f[N]
  BY <1>2 DEF Above, N
<1> QED BY <1>1, <1>3, <1>4, <1>5, <1>6 DEF N, AreGenerations

\* After n generations: one delegation of each depth down to n less than that of x, each wider than x.
Generation(T, n, x) ==
  /\ \A y \in T : Within(x, y) /\ y.depth < x.depth /\ x.depth - n <= y.depth
  /\ \A y, z \in T : y.depth = z.depth => y = z
  /\ \A j \in Nat : x.depth - n <= j /\ j < x.depth => \E y \in T : y.depth = j

LEMMA NextGeneration ==
  ASSUME NEW D, Rooted(D), NEW x \in D, NEW T \in SUBSET D, NEW n \in Nat, Generation(T, n, x)
  PROVE  Generation({y \in D : \E z \in T \cup {x} : z.parent = y.id}, n + 1, x)
<1> DEFINE U == {y \in D : \E z \in T \cup {x} : z.parent = y.id}
<1>1. \A u \in D : u.depth \in Nat
  BY DepthsAreNatural
<1>2. \A z \in T : z \in D /\ Within(x, z) /\ z.depth < x.depth /\ x.depth - n <= z.depth
  BY DEF Generation
<1>3. \A y, z \in T \cup {x} : y.depth = z.depth => y = z
  BY <1>1, <1>2 DEF Generation
<1>4. ASSUME NEW z \in T \cup {x}, NEW y \in D, z.parent = y.id
      PROVE  y.depth = z.depth - 1 /\ Within(x, y)
  <2>1. z \in D /\ (z = x \/ Within(x, z))
    BY <1>2
  <2>2. z.parent # None
    BY <1>4 DEF Rooted
  <2>3. PICK w \in D : w.id = z.parent /\ z.depth = w.depth + 1 /\ Within(z, w)
    BY <2>1, <2>2 DEF Rooted
  <2>4. w = y
    BY <1>4, <2>3 DEF Rooted
  <2>5. Within(x, y)
    BY <2>1, <2>3, <2>4, WithinIsTransitive
  <2> QED BY <1>1, <2>1, <2>3, <2>4, <2>5
<1>5. ASSUME NEW y \in U
      PROVE  Within(x, y) /\ y.depth < x.depth /\ x.depth - (n + 1) <= y.depth
  <2>1. PICK z \in T \cup {x} : z.parent = y.id
    OBVIOUS
  <2>2. y.depth = z.depth - 1 /\ Within(x, y)
    BY <1>4, <2>1
  <2>3. z.depth \in Nat /\ x.depth \in Nat /\ z.depth <= x.depth /\ x.depth - n <= z.depth
    BY <1>1, <1>2
  <2> QED BY <2>2, <2>3
<1>6. ASSUME NEW y \in U, NEW w \in U, y.depth = w.depth
      PROVE  y = w
  <2>1. PICK z \in T \cup {x} : z.parent = y.id
    OBVIOUS
  <2>2. PICK v \in T \cup {x} : v.parent = w.id
    OBVIOUS
  <2>3. y.depth = z.depth - 1 /\ w.depth = v.depth - 1
    BY <1>4, <2>1, <2>2
  <2>4. z.depth = v.depth
    <3>1. z.depth \in Nat /\ v.depth \in Nat
      BY <1>1, <1>2
    <3>2. z.depth - 1 = v.depth - 1
      BY <1>6, <2>3
    <3> QED BY ONLY <3>1, <3>2
  <2>5. y.id = w.id
    BY <1>3, <2>1, <2>2, <2>4
  <2> QED BY <2>5 DEF Rooted
<1>7. ASSUME NEW j \in Nat, x.depth - (n + 1) <= j, j < x.depth
      PROVE  \E y \in U : y.depth = j
  <2>1. PICK z \in T \cup {x} : z.depth = j + 1
    <3>1. CASE j + 1 = x.depth
      BY <3>1
    <3>2. CASE j + 1 # x.depth
      <4>1. j + 1 \in Nat /\ x.depth - n <= j + 1 /\ j + 1 < x.depth
        BY <1>1, <1>7, <3>2
      <4> QED BY <4>1 DEF Generation
    <3> QED BY <3>1, <3>2
  <2>2. z \in D /\ z.depth # 0
    BY <1>2, <2>1
  <2>3. PICK y \in D : y.id = z.parent
    BY <2>2 DEF Rooted
  <2>4. y \in U /\ y.depth = z.depth - 1
    BY <1>4, <2>3
  <2> QED BY <2>1, <2>4
<1> HIDE DEF U
<1> QED BY <1>5, <1>6, <1>7 DEF Generation, U

LEMMA GenerationsAreComplete ==
  ASSUME NEW D, Rooted(D), NEW x \in D, NEW N \in Nat, NEW f \in [0..N -> SUBSET D], AreGenerations(f, N, D, x)
  PROVE  Generation(f[N], N, x)
<1> DEFINE Bad == {n \in 0..N : ~ Generation(f[n], n, x)}
<1>1. x.depth \in Nat
  BY DepthsAreNatural
<1>2. ASSUME Bad # {} PROVE FALSE
  <2>1. Bad \subseteq Nat
    OBVIOUS
  <2>2. PICK k \in Bad : \A j \in Bad : ~ (<<j, k>> \in OpToRel(<, Nat))
    BY <1>2, <2>1, WFMin, NatLessThanWellFounded
  <2>3. k \in 0..N /\ ~ Generation(f[k], k, x)
    OBVIOUS
  <2>4. \A j \in Nat : j < k => j \notin Bad
    <3>1. k \in Nat
      BY <2>3
    <3> HIDE DEF Bad
    <3> QED BY <2>2, <3>1 DEF OpToRel
  <2>5. CASE k = 0
    BY <1>1, <2>3, <2>5 DEF Generation, AreGenerations
  <2>6. CASE k # 0
    <3>1. k - 1 \in Nat /\ k - 1 \in 0..N /\ k \in 1..N /\ k - 1 < k /\ (k - 1) + 1 = k
      BY <2>3, <2>6
    <3>2. Generation(f[k - 1], k - 1, x) /\ f[k - 1] \in SUBSET D
      <4>1. Generation(f[k - 1], k - 1, x)
        BY <2>4, <3>1
      <4> QED BY <3>1, <4>1
    <3>3. Generation({y \in D : \E z \in f[k - 1] \cup {x} : z.parent = y.id}, (k - 1) + 1, x)
      BY <3>1, <3>2, NextGeneration
    <3>4. f[k] = {y \in D : \E z \in f[k - 1] \cup {x} : z.parent = y.id}
      BY <3>1 DEF AreGenerations
    <3> QED BY <2>3, <3>1, <3>3, <3>4
  <2> QED BY <2>5, <2>6
<1>3. N \in 0..N
  OBVIOUS
<1> QED BY <1>2, <1>3

\* A delegation rests on as many as it is deep, and each gives what it gives.
LEMMA ChainsAreComplete ==
  ASSUME NEW D, Rooted(D), NEW x \in D
  PROVE  (\A y \in Above(D, x) : Within(x, y)) /\ Cardinality(Above(D, x)) = x.depth
<1> DEFINE N == Cardinality(D)
           T == Above(D, x)
           lo == IF x.depth < N THEN 0 ELSE x.depth - N
           h == [y \in T |-> y.depth]
<1>1. IsFiniteSet(D)
  BY DEF Rooted
<1>2. N \in Nat
  BY <1>1, FS_CardinalityType
<1>3. PICK f \in [0..N -> SUBSET D] : T = f[N] /\ AreGenerations(f, N, D, x)
  BY <1>1, AboveEquations
<1> HIDE DEF N, T
<1>4. Generation(T, N, x)
  BY <1>2, <1>3, GenerationsAreComplete
<1>5. T \in SUBSET D /\ IsFiniteSet(T)
  <2>1. N \in 0..N
    BY <1>2
  <2>2. T \in SUBSET D
    BY <1>3, <2>1
  <2> QED BY <1>1, <2>2, FS_Subset
<1>6. x.depth \in Nat /\ \A y \in T : y.depth \in Nat
  BY <1>5, DepthsAreNatural
<1>7. lo \in Nat /\ lo <= x.depth /\ lo \in Int /\ x.depth - 1 \in Int
  BY <1>2, <1>6
<1>8. h \in Surjection(T, lo..(x.depth - 1)) /\ h \in Injection(T, lo..(x.depth - 1))
  <2>1. \A y \in T : h[y] \in lo..(x.depth - 1)
    BY <1>2, <1>4, <1>6 DEF Generation
  <2>2. \A j \in lo..(x.depth - 1) : \E y \in T : h[y] = j
    <3>1. \A j \in lo..(x.depth - 1) : j \in Nat /\ x.depth - N <= j /\ j < x.depth
      BY <1>2, <1>6
    <3> QED BY <1>4, <3>1 DEF Generation
  <2>3. \A y, z \in T : h[y] = h[z] => y = z
    BY <1>4 DEF Generation
  <2>4. h \in [T -> lo..(x.depth - 1)]
    BY <2>1
  <2> HIDE DEF h, lo
  <2> QED BY <2>2, <2>3, <2>4 DEF Surjection, Injection, IsInjective
<1>9. Cardinality(T) = x.depth - lo
  <2>1. Cardinality(lo..(x.depth - 1)) = IF lo > x.depth - 1 THEN 0 ELSE x.depth - 1 - lo + 1
    BY <1>7, FS_Interval
  <2> HIDE DEF h, lo
  <2>2. Cardinality(lo..(x.depth - 1)) = Cardinality(T)
    BY <1>5, <1>8, FS_Surjection
  <2> QED BY <1>6, <1>7, <2>1, <2>2
<1>10. x \notin T
  BY <1>4, <1>6 DEF Generation
<1>11. T \cup {x} \in SUBSET D
  BY <1>5
<1>12. Cardinality(T \cup {x}) = Cardinality(T) + 1 /\ Cardinality(T \cup {x}) <= N
  <2>1. Cardinality(T \cup {x}) = Cardinality(T) + 1
    BY <1>5, <1>10, FS_AddElement
  <2>2. Cardinality(T \cup {x}) <= N
    BY <1>1, <1>11, FS_Subset DEF N
  <2> QED BY <2>1, <2>2
<1>13. Cardinality(T) = x.depth
  BY <1>2, <1>6, <1>9, <1>12
<1>14. \A y \in T : Within(x, y)
  BY <1>4 DEF Generation
<1> QED BY <1>13, <1>14 DEF T

(***************************************************************************)
(* The delegations and the handoffs of a network in which nothing is found.*)
(***************************************************************************)
LEMMA DelegationsAreListed ==
  ASSUME NEW contract, NEW packs, NEW asOf, NetworkChecked(contract, packs, asOf)
  PROVE  LET d == Indexed(contract)
         IN /\ IsFiniteSet(Delegated(contract))
            /\ \A x, y \in Delegated(contract) : x.id = y.id => x = y
            /\ DOMAIN d.delegations = {x.id : x \in Delegated(contract)}
            /\ \A x \in Delegated(contract) : d.delegations[x.id] = x
<1> DEFINE list == Listed(contract.network.delegations)
<1>1. IsList(list) /\ Duplicates(list, "AN_DELEGATION_DUPLICATE") = {}
  BY EachIsClean DEF NetworkChecked, IsNetwork
<1>2. Indexed(contract).delegations = Index(list)
  BY DEF Indexed, IndexRecords
<1> HIDE DEF list
<1>3. IsFiniteSet(Elements(list))
  BY <1>1, ListsAreFinite
<1>4. \A x, y \in Elements(list) : x.id = y.id => x = y
  BY <1>1, IdsAreUnique DEF Elements
<1>5. DOMAIN Index(list) = {x.id : x \in Elements(list)} /\ \A x \in Elements(list) : Index(list)[x.id] = x
  BY <1>1, IndexFinds DEF Ids
<1> QED BY <1>2, <1>3, <1>4, <1>5 DEF Delegated, list

LEMMA ParentsGiveAsMuch ==
  ASSUME NEW contract, NEW packs, NEW asOf, NetworkChecked(contract, packs, asOf),
         \A x \in Delegated(contract) : DepthsValid(x),
         NEW x \in Delegated(contract), x.parent # None
  PROVE  \E y \in Delegated(contract) :
           y.id = x.parent /\ x.depth = y.depth + 1 /\ Within(x, y) /\ y.delegate = x.delegator
<1> DEFINE d == Indexed(contract)
<1>1. DepthFindings(x, d) = {}
  BY DelegationIsClean
<1>2. DOMAIN d.delegations = {y.id : y \in Delegated(contract)} /\ \A y \in Delegated(contract) : d.delegations[y.id] = y
  BY DelegationsAreListed
<1> HIDE DEF d
<1>3. x.parent \in DOMAIN d.delegations /\ ParentFindings(x, d.delegations[x.parent]) = {}
  BY <1>1 DEF DepthFindings
<1>4. PICK y \in Delegated(contract) : y.id = x.parent
  BY <1>2, <1>3
<1>5. ParentFindings(x, y) = {}
  BY <1>2, <1>3, <1>4
<1>6. DelegableFindings(y, Indexed(contract).capabilities[y.capability]) = {}
  BY DelegationIsClean
<1>7. y.actions # {} /\ y.scopes # {}
  BY <1>6 DEF DelegableFindings, When
<1>8. /\ x.depth \in Int /\ x.maxDepth \in Int /\ y.depth \in Int /\ y.maxDepth \in Int
      /\ IsDepth(x.depth) /\ IsDepth(x.maxDepth) /\ IsDepth(y.depth) /\ IsDepth(y.maxDepth)
  BY DEF DepthsValid, IsDepth, NetworkChecked, IsNetwork, Delegated
<1>9. /\ x.from \in Int /\ x.until \in Int /\ y.from \in Int /\ y.until \in Int /\ Proper(x) /\ Proper(y)
  BY ActiveIsInForce
<1>10. x.actions \subseteq y.actions /\ x.scopes \subseteq y.scopes
  BY <1>5, <1>7 DEF ParentFindings, WideningFindings, WidenedActions, WidenedScopes, When
<1>11. x.capability = y.capability /\ y.delegate = x.delegator
  BY <1>5 DEF ParentFindings, When
<1>12. x.depth = y.depth + 1 /\ x.maxDepth <= y.maxDepth
  BY <1>5, <1>8 DEF ParentFindings, DepthsValid, When
<1>13. y.from <= x.from /\ x.until <= y.until
  BY <1>5, <1>9 DEF ParentFindings, Proper, When
<1>14. y.depth < x.depth
  BY <1>8, <1>12
<1> QED BY <1>4, <1>10, <1>11, <1>12, <1>13, <1>14 DEF Within

LEMMA DelegationsAreRooted ==
  ASSUME NEW contract, NEW packs, NEW asOf, NetworkChecked(contract, packs, asOf),
         \A x \in Delegated(contract) : DepthsValid(x)
  PROVE  Rooted(Delegated(contract))
<1>1. IsFiniteSet(Delegated(contract)) /\ \A x, y \in Delegated(contract) : x.id = y.id => x = y
  BY DelegationsAreListed
<1>2. ASSUME NEW x \in Delegated(contract)
      PROVE  x.id # None /\ {x.depth, x.maxDepth, x.from, x.until} \subseteq Int
  <2>1. x.id # None /\ x.depth \in Int /\ x.maxDepth \in Int
    BY DEF DepthsValid, IsDepth, NetworkChecked, IsNetwork, Delegated
  <2>2. x.from \in Int /\ x.until \in Int
    BY ActiveIsInForce
  <2> QED BY <2>1, <2>2
<1>3. ASSUME NEW x \in Delegated(contract), x.parent = None
      PROVE  x.depth = 0
  <2>1. DepthFindings(x, Indexed(contract)) = {}
    BY DelegationIsClean
  <2> QED BY <1>3, <2>1 DEF DepthFindings, When
<1>4. ASSUME NEW x \in Delegated(contract), x.parent # None
      PROVE  \E y \in Delegated(contract) : y.id = x.parent /\ x.depth = y.depth + 1 /\ Within(x, y)
  BY <1>4, ParentsGiveAsMuch
<1> QED BY <1>1, <1>2, <1>3, <1>4 DEF Rooted

LEMMA DelegationsAttenuate ==
  ASSUME NEW contract, NEW packs, NEW asOf, NetworkChecked(contract, packs, asOf),
         \A x \in Delegated(contract) : DepthsValid(x),
         NEW x \in Delegated(contract)
  PROVE  Attenuates(x, Delegated(contract), contract, asOf)
<1> DEFINE D == Delegated(contract)
<1>1. Rooted(D)
  BY DelegationsAreRooted
<1>2. (\A y \in Above(D, x) : Within(x, y)) /\ Cardinality(Above(D, x)) = x.depth
  BY <1>1, ChainsAreComplete
<1>3. ASSUME NEW y \in D, x.parent = y.id
      PROVE  y.delegate = x.delegator
  <2>1. x.parent # None
    BY <1>1, <1>3 DEF Rooted
  <2>2. PICK z \in D : z.id = x.parent /\ z.delegate = x.delegator
    BY <2>1, ParentsGiveAsMuch
  <2>3. z = y
    BY <1>1, <1>3, <2>2 DEF Rooted
  <2> QED BY <2>2, <2>3
<1>4. x.status = "active" => InForceNow(x, contract.network, asOf)
  BY ActiveIsInForce
<1>5. Has(contract, x.delegator, x.capability, x.source, asOf)
  BY DelegatorsHave
<1>6. \A c \in Elements(contract.capabilities) :
        c.id = x.capability =>
          /\ c.delegable = TRUE /\ x.actions \subseteq c.actions /\ x.scopes \subseteq Elements(c.scopes)
          /\ x.depth < (IF c.depth = None THEN DefaultDepth ELSE c.depth)
  BY CapabilityAllows
<1> QED BY <1>2, <1>3, <1>4, <1>5, <1>6 DEF Attenuates

LEMMA HandoffIsClean ==
  ASSUME NEW contract, NEW packs, NEW asOf, NetworkChecked(contract, packs, asOf), NEW h \in Handed(contract)
  PROVE  LET d == Indexed(contract)
             revoked == Revocable(contract, contract.network, asOf)
         IN PartyFindings(h.target, "HANDOFF_TARGET", d, revoked, asOf) = {} /\ AuthorityHanded(h, d, revoked, asOf) = {}
<1> DEFINE d == Indexed(contract)
           revoked == Revocable(contract, contract.network, asOf)
           known == KnownReferences(contract, packs)
           missions == contract.names.missions
<1>1. HandoffFindings(h, missions, contract.network, d, known, revoked, asOf) = {}
  BY EachIsClean
<1> HIDE DEF d, revoked, known, missions
<1>2. HandoffParties(h, d, revoked, asOf) = {} /\ AuthorityHanded(h, d, revoked, asOf) = {}
  BY <1>1 DEF HandoffFindings
<1>3. PartyFindings(h.target, "HANDOFF_TARGET", d, revoked, asOf) = {}
  BY <1>2 DEF HandoffParties
<1> QED BY <1>2, <1>3 DEF d, revoked

LEMMA HandoffsGrantNothing ==
  ASSUME NEW contract, NEW packs, NEW asOf, NetworkChecked(contract, packs, asOf), NEW h \in Handed(contract)
  PROVE  GrantsNothing(h, Delegated(contract), contract, asOf)
<1> DEFINE d == Indexed(contract)
           revoked == Revocable(contract, contract.network, asOf)
<1>1. PartyFindings(h.target, "HANDOFF_TARGET", d, revoked, asOf) = {} /\ AuthorityHanded(h, d, revoked, asOf) = {}
  BY HandoffIsClean
<1>2. /\ asOf # None /\ asOf \in Int
      /\ \E i \in Elements(contract.identities) :
           /\ i.id = h.target /\ d.identities[h.target] = i
           /\ i.status = "active" /\ Covers(i, asOf)
           /\ ~ Lifted(contract.network, <<"agent_identity", h.target>>, asOf)
  BY <1>1, PartiesAreEffective
<1>3. PICK i \in Elements(contract.identities) :
           /\ i.id = h.target /\ d.identities[h.target] = i
           /\ i.status = "active" /\ Covers(i, asOf)
           /\ ~ Lifted(contract.network, <<"agent_identity", h.target>>, asOf)
  BY <1>2
<1>4. \A kind, principal, capability : ~ Lifted(contract.network, Assignment(kind, principal, capability), asOf)
  BY <1>2, RevocationsAreSettled
<1>5. ASSUME NEW c \in h.capabilities
      PROVE  Holds(h, c, d, revoked, asOf) \/ Receives(h, c, d, revoked, asOf)
  <2> HIDE DEF d, revoked
  <2>1. c \in DOMAIN d.capabilities
    BY <1>1 DEF AuthorityHanded, Unknown, When
  <2> QED BY <1>1, <2>1 DEF AuthorityHanded, When
<1>6. ASSUME NEW c \in h.capabilities, Holds(h, c, d, revoked, asOf)
      PROVE  Has(contract, h.target, c, h.targetZone, asOf)
  <2>1. c \in i.capabilities
    BY <1>3, <1>6 DEF Holds
  <2>2. PICK m \in MembersOf(h.target, h.targetZone, d, revoked, asOf) : c \in m.capabilities
    BY <1>6 DEF Holds
  <2>3. /\ m \in Elements(contract.network.memberships) /\ m.identity = h.target /\ m.zone = h.targetZone
        /\ m.status = "authorized" /\ Covers(m, asOf)
        /\ ~ Lifted(contract.network, <<"membership", m.id>>, asOf)
    BY <1>2, <2>2, MembersAreEffective
  <2> QED BY <1>3, <1>4, <2>1, <2>2, <2>3 DEF Has
<1>7. ASSUME NEW c \in h.capabilities, Receives(h, c, d, revoked, asOf)
      PROVE  \E x \in Delegated(contract) :
               /\ x.id \in h.delegations /\ x.delegate = h.target /\ x.capability = c /\ x.target = h.targetZone
               /\ InForceNow(x, contract.network, asOf)
  <2>1. PICK x \in Supporting(h, d) :
          /\ x.capability = c /\ x.target = h.targetZone
          /\ EffectiveAt(x, "active", asOf) /\ <<"delegation", x.id>> \notin revoked
    BY <1>7 DEF Receives
  <2>2. DOMAIN d.delegations = {y.id : y \in Delegated(contract)} /\ \A y \in Delegated(contract) : d.delegations[y.id] = y
    BY DelegationsAreListed
  <2>3. x \in Delegated(contract) /\ x.id \in h.delegations /\ x.delegate = h.target
    <3> HIDE DEF d, revoked
    <3>1. PICK r \in h.delegations \cap DOMAIN d.delegations : x = d.delegations[r] /\ d.delegations[r].delegate = h.target
      BY DEF Supporting
    <3>2. PICK y \in Delegated(contract) : y.id = r
      BY <2>2, <3>1
    <3> QED BY <2>2, <3>1, <3>2
  <2>4. InForceNow(x, contract.network, asOf)
    BY <1>2, <2>1, RevocationsAreSettled DEF EffectiveAt, InForceNow
  <2> QED BY <2>1, <2>3, <2>4
<1> QED BY <1>5, <1>6, <1>7 DEF GrantsNothing

LEMMA CleanNetworksAttenuate ==
  ASSUME NEW contract, NEW packs, NEW asOf, NetworkChecked(contract, packs, asOf)
  PROVE  AllAttenuate(contract, asOf)
<1>1. \A h \in Handed(contract) : GrantsNothing(h, Delegated(contract), contract, asOf)
  BY HandoffsGrantNothing
<1>2. (\A x \in Delegated(contract) : DepthsValid(x)) => \A x \in Delegated(contract) : Attenuates(x, Delegated(contract), contract, asOf)
  BY DelegationsAttenuate
<1> QED BY <1>1, <1>2 DEF AllAttenuate, Delegated, Handed

LEMMA AuthorityFollows ==
  ASSUME FileInv, ReadInv
  PROVE  AuthorityNeverGrows
<1> SUFFICES ASSUME NEW p \in Procs, procs[p].accepted, Selects(procs[p].composition, NetworkChecks),
                    procs[p].document.network # None
             PROVE  AllAttenuate(procs[p].document, procs[p].request.asOf)
  BY DEF AuthorityNeverGrows
<1> DEFINE r == procs[p]
<1>1. /\ r.document \in Contracts /\ r.request \in scenario.requests /\ scenario \in Scenarios
      /\ StructuralFindings(r.document, r.composition, r.request.asOf, r.disk) = {}
  BY DEF FileInv, FilesInv, ReadInv, HasRead
<1>2. r.request.asOf \in Int \cup {None, BadTime} /\ IsNetwork(r.document, r.document.network)
  BY <1>1, ContractsAssumption DEF Contracts
<1>3. NetworkChecks \subseteq r.composition.checks
  BY DEF Selects
<1>4. NetworkChecked(r.document, r.composition, r.request.asOf)
  BY <1>1, <1>2, <1>3, NothingFoundInNetwork
<1> QED BY <1>4, CleanNetworksAttenuate

\* However a contract's delegations are chained and whatever packs, edits and
\* processes there are, in one that a process has accepted each delegation
\* gives at most what every one it rests on gives, down from one that rests on
\* none, by somebody who has it; and no handoff gives what its target has not.
THEOREM AuthorityIsBounded == Spec => []AuthorityNeverGrows
BY FilesInvariant, ReadingInvariant, AuthorityFollows, PTL

(***************************************************************************)
(* Evidence in which nothing is found: the records that can be used are    *)
(* those that hold together with all that they rest on.                    *)
(***************************************************************************)
LEMMA BeneathIs ==
  ASSUME NEW R, IsFiniteSet(R), NEW A, A \subseteq R
  PROVE  LET B == Beneath(R, A)
         IN /\ B \subseteq R /\ A \subseteq B
            /\ \A s \in B, r \in R : r.id \in Elements(s.deps) => r \in B
            /\ \A C \in SUBSET R : A \subseteq C /\ (\A s \in C, r \in R : r.id \in Elements(s.deps) => r \in C) => B \subseteq C
<1> DEFINE next == [T \in SUBSET R |-> T \cup {r \in R : \E s \in T : r.id \in Elements(s.deps)}]
           B == Rounds(next, A, Cardinality(R))
<1>1. Growing(R, next, A)
  BY DEF Growing
<1>2. /\ B \in SUBSET R /\ A \subseteq B /\ next[B] = B
      /\ \A U \in SUBSET R : A \subseteq U /\ next[U] \subseteq U => B \subseteq U
  <2> HIDE DEF next
  <2> QED BY <1>1, RoundsSettle
<1> HIDE DEF B
<1>3. \A s \in B, r \in R : r.id \in Elements(s.deps) => r \in B
  BY <1>2
<1>4. \A C \in SUBSET R : A \subseteq C /\ (\A s \in C, r \in R : r.id \in Elements(s.deps) => r \in C) => B \subseteq C
  BY <1>2
<1> QED BY <1>2, <1>3, <1>4 DEF Beneath, B

LEMMA SettledIs ==
  ASSUME NEW P, IsFiniteSet(P)
  PROVE  Settled(P) \subseteq P /\ Settled(P) = {r \in P : Elements(r.deps) \subseteq {s.id : s \in Settled(P)}}
<1> DEFINE next == [T \in SUBSET P |-> {r \in P : Elements(r.deps) \subseteq {s.id : s \in T}}]
           B == Rounds(next, {}, Cardinality(P))
<1>1. Growing(P, next, {})
  <2>1. next \in [SUBSET P -> SUBSET P]
    OBVIOUS
  <2>2. ASSUME NEW T \in SUBSET P, NEW U \in SUBSET P, T \subseteq U
        PROVE  next[T] \subseteq next[U]
    <3>1. {s.id : s \in T} \subseteq {s.id : s \in U}
      BY <2>2
    <3> QED BY <3>1
  <2> HIDE DEF next
  <2> QED BY <2>1, <2>2 DEF Growing
<1>2. B \in SUBSET P /\ next[B] = B
  <2> HIDE DEF next
  <2> QED BY <1>1, RoundsSettle
<1> HIDE DEF B
<1> QED BY <1>2 DEF Settled, B

\* The records of a document in which nothing is found: each by a name of its
\* own, on records that are there, in no circle, unchanged and in date.
InOrder(R, revision, asOf, evidence) ==
  /\ IsFiniteSet(R)
  /\ \A r, s \in R : r.id = s.id => r = s
  /\ \A r \in R : r.id # IllTyped /\ ~ Invalid(r.deps) /\ Elements(r.deps) \subseteq {s.id : s \in R}
  /\ \A r \in R : /\ r.revision = revision /\ r.generated <= asOf /\ asOf < r.expires
                  /\ r.artifact \in DOMAIN evidence /\ evidence[r.artifact] = r.hash
  /\ ~ Cyclic(R)

EvidenceChecked(c, packs, asOf, evidence) ==
  /\ IsGoverned(c) /\ asOf \in Int \cup {None}
  /\ EvidenceIntegrity(c, packs.evidence, UsableRecords(c), asOf, evidence) = {}
  /\ HumanApproval(c, Gates(c), References(UsableRecords(c)), asOf) = {}

LEMMA OneRevision ==
  ASSUME NEW c, RevisionFindings(c) = {}
  PROVE  GovernedRevision(c) # None /\ \A r \in RevisionClaims(c) : r = GovernedRevision(c)
<1> DEFINE a == IF c.evidence = None THEN None ELSE c.evidence.revision
           b == c.architecture
<1>1. Anchors(c) \subseteq {a} \cup {b}
  BY DEF Anchors, Anchored
<1> HIDE DEF a, b
<1>2. IsFiniteSet({a} \cup {b})
  BY FS_Singleton, FS_Union
<1>3. IsFiniteSet(Anchors(c)) /\ Cardinality(Anchors(c)) \in Nat
  BY <1>1, <1>2, FS_Subset, FS_CardinalityType
<1>4. Anchors(c) # {} /\ ~ (Cardinality(Anchors(c)) > 1)
  BY DEF RevisionFindings, When
<1>5. Cardinality(Anchors(c)) = 1
  <2>1. Cardinality(Anchors(c)) # 0
    BY <1>3, <1>4, FS_EmptySet
  <2> QED BY <1>3, <1>4, <2>1
<1>6. GovernedRevision(c) \in Anchors(c)
  BY <1>4, <1>5 DEF GovernedRevision
<1>7. GovernedRevision(c) # None
  BY <1>6 DEF Anchors, Anchored
<1> QED BY <1>7 DEF RevisionFindings, When

LEMMA RecordsAreListed ==
  ASSUME NEW c, NEW packs, NEW asOf, NEW evidence, EvidenceChecked(c, packs, asOf, evidence)
  PROVE  LET list == Records(c)
         IN /\ IsFiniteSet(Elements(list))
            /\ \A i \in DOMAIN list : list[i].id # IllTyped /\ ArtifactFindings(list[i], evidence) = {} /\ FreshnessFindings(list[i], asOf) = {}
            /\ \A i, j \in DOMAIN list : list[i].id = list[j].id => i = j
            /\ FirstRecords(list) = Elements(list) /\ UniqueRecords(list) = Elements(list)
            /\ Elements(list) # {} => DependencyFindings(Elements(list)) = {}
<1> DEFINE list == Records(c)
<1>1. IsList(list)
  BY DEF EvidenceChecked, IsGoverned
<1>2. IsFiniteSet(Elements(list)) /\ DOMAIN list = 1..Len(list) /\ Len(list) \in Nat
  BY <1>1, ListsAreFinite
<1>3. CASE c.evidence = None
  <2>1. list = << >>
    BY <1>3 DEF Records
  <2> HIDE DEF list
  <2>2. DOMAIN list = {}
    BY <2>1
  <2> QED BY <1>2, <2>2 DEF list, Elements, FirstRecords, UniqueRecords
<1>4. CASE c.evidence # None
  <2>1. list = c.evidence.records
    BY <1>4 DEF Records
  <2> HIDE DEF list
  <2>2. \A i \in DOMAIN list : ArtifactFindings(list[i], evidence) = {} /\ FreshnessFindings(list[i], asOf) = {}
    <3> DEFINE records == c.evidence.records
    <3>1. (UNION {ArtifactFindings(records[i], evidence) \cup FreshnessFindings(records[i], asOf) : i \in DOMAIN records}) = {}
      BY <1>4 DEF EvidenceChecked, EvidenceIntegrity
    <3>2. \A i \in DOMAIN records : ArtifactFindings(records[i], evidence) \cup FreshnessFindings(records[i], asOf) = {}
      BY <3>1
    <3> QED BY <2>1, <3>2
  <2>3. \A i \in DOMAIN list : list[i].id # IllTyped
    BY <1>4, <2>1 DEF EvidenceChecked, EvidenceIntegrity, When
  <2>4. \A i, j \in DOMAIN list : list[i].id = list[j].id => i = j
    <3>1. ~ \E i, j \in DOMAIN list : i # j /\ list[i].id = list[j].id /\ list[i].id # IllTyped
      BY <1>4, <2>1 DEF EvidenceChecked, EvidenceIntegrity, When
    <3> QED BY <2>3, <3>1
  <2>5. DependencyFindings(FirstRecords(list)) = {}
    BY <1>4, <2>1 DEF EvidenceChecked, EvidenceIntegrity
  <2>6. \A i \in DOMAIN list : \A k \in 1..(i - 1) : k \in DOMAIN list /\ k # i
    BY <1>2
  <2>7. FirstRecords(list) = Elements(list)
    BY <2>3, <2>4, <2>6 DEF FirstRecords, Elements
  <2>8. UniqueRecords(list) = Elements(list)
    BY <2>3, <2>4 DEF UniqueRecords, Elements
  <2> QED BY <1>2, <2>2, <2>3, <2>4, <2>5, <2>7, <2>8 DEF list
<1> QED BY <1>3, <1>4

LEMMA RecordsAreInOrder ==
  ASSUME NEW c, NEW packs, NEW asOf, NEW evidence, EvidenceChecked(c, packs, asOf, evidence)
  PROVE  InOrder(Elements(Records(c)), GovernedRevision(c), asOf, evidence)
<1> DEFINE list == Records(c)
           R == Elements(list)
<1>1. /\ IsFiniteSet(R)
      /\ \A i \in DOMAIN list : list[i].id # IllTyped /\ ArtifactFindings(list[i], evidence) = {} /\ FreshnessFindings(list[i], asOf) = {}
      /\ \A i, j \in DOMAIN list : list[i].id = list[j].id => i = j
      /\ R # {} => DependencyFindings(R) = {}
  BY RecordsAreListed
<1>2. \A r \in R : /\ r.id # IllTyped /\ ArtifactFindings(r, evidence) = {} /\ FreshnessFindings(r, asOf) = {}
                   /\ {r.generated, r.expires} \subseteq Int \cup {None, IllTyped}
                   /\ r.revision = GovernedRevision(c)
  <2>1. RevisionFindings(c) = {}
    BY DEF EvidenceChecked, HumanApproval
  <2>2. \A r \in R : r.revision = GovernedRevision(c)
    BY <2>1, OneRevision DEF RevisionClaims
  <2>3. \A r \in R : {r.generated, r.expires} \subseteq Int \cup {None, IllTyped}
    BY DEF EvidenceChecked, IsGoverned
  <2> HIDE DEF list
  <2> QED BY <1>1, <2>2, <2>3 DEF Elements
<1>3. \A r, s \in R : r.id = s.id => r = s
  <2> HIDE DEF list
  <2> QED BY <1>1 DEF Elements
<1> HIDE DEF list, R
<1>4. ASSUME NEW r \in R
      PROVE  r.generated <= asOf /\ asOf < r.expires
  <2>1. asOf # None /\ IsTime(r.generated) /\ IsTime(r.expires)
    BY <1>2 DEF FreshnessFindings
  <2>2. asOf \in Int /\ r.generated \in Int /\ r.expires \in Int
    BY <1>2, <2>1 DEF IsTime, EvidenceChecked
  <2>3. ~ (r.generated > asOf) /\ ~ (r.expires <= asOf)
    BY <1>2, <2>1 DEF FreshnessFindings, When
  <2> QED BY <2>2, <2>3
<1>5. \A r \in R : r.artifact \in DOMAIN evidence /\ evidence[r.artifact] = r.hash
  BY <1>2 DEF ArtifactFindings, When
<1>6. CASE R = {}
  <2>1. ~ Cyclic(R)
    <3> DEFINE left == [T \in SUBSET R |-> {r \in T : Canonical(r.deps) \cap {s.id : s \in T} # {}}]
               S == SUBSET R
               N == Cardinality(R)
    <3>1. left \in [S -> S] /\ R \in S /\ N \in Nat
      BY <1>1, FS_CardinalityType
    <3> HIDE DEF left, N
    <3>2. PICK f : IsIteration(f, N, S, left, R) /\ Rounds(left, R, N) = f[N]
      <4> HIDE DEF S
      <4> QED BY <3>1, RoundsIterate
    <3>3. f[N] \in S
      BY <3>1, <3>2 DEF IsIteration
    <3> QED BY <1>6, <3>2, <3>3 DEF Cyclic, left, N
  <2> QED BY <1>1, <1>6, <2>1 DEF InOrder, R, list
<1>7. CASE R # {}
  <2>1. ~ Cyclic(R)
    BY <1>1, <1>7 DEF DependencyFindings, When
  <2>2. \A r \in R : ~ Invalid(r.deps) /\ \A d \in Canonical(r.deps) : d \in {s.id : s \in R}
    BY <1>1, <1>7 DEF DependencyFindings, When
  <2>3. \A r \in R : Elements(r.deps) = Canonical(r.deps)
    BY <2>2 DEF Invalid, Canonical
  <2>4. \A r \in R : ~ Invalid(r.deps) /\ Elements(r.deps) \subseteq {s.id : s \in R}
    BY <2>2, <2>3
  <2> QED BY <1>1, <1>2, <1>3, <1>4, <1>5, <2>1, <2>4 DEF InOrder, R, list
<1> QED BY <1>6, <1>7 DEF R, list

\* The records that can be used are those that hold with all that they rest on.
LEMMA UsableAreProven ==
  ASSUME NEW R, NEW revision, NEW asOf, NEW evidence, InOrder(R, revision, asOf, evidence)
  PROVE  Proven(R, revision, asOf, evidence) = Settled(PassingRecords(R))
<1> DEFINE P == PassingRecords(R)
           U == Settled(P)
           V == Proven(R, revision, asOf, evidence)
           M == V \ U
           Under(A) == Beneath(R, A)
<1>1. /\ IsFiniteSet(R)
      /\ \A r, s \in R : r.id = s.id => r = s
      /\ \A r \in R : r.id # IllTyped /\ ~ Invalid(r.deps) /\ Elements(r.deps) \subseteq {s.id : s \in R}
      /\ ~ Cyclic(R)
  BY DEF InOrder
<1>2. P = {r \in R : r.status = "pass"}
  BY <1>1 DEF PassingRecords
<1>3. U \subseteq P /\ U = {r \in P : Elements(r.deps) \subseteq {s.id : s \in U}}
  <2>1. IsFiniteSet(P)
    BY <1>1, <1>2, FS_Subset
  <2> HIDE DEF P
  <2> QED BY <2>1, SettledIs
<1>4. \A r \in R : Elements(r.deps) = Canonical(r.deps)
  BY <1>1 DEF Invalid, Canonical
<1>5. \A r \in R : \A s \in R : s.status = "pass" => Holding(s, R, revision, asOf, evidence)
  BY <1>1 DEF InOrder, Holding
<1> HIDE DEF P, U
<1>6. U \subseteq V
  <2> SUFFICES ASSUME NEW r \in U PROVE r \in V
    OBVIOUS
  <2>1. r \in R /\ {r} \subseteq R /\ {r} \subseteq U /\ U \subseteq R
    BY <1>2, <1>3
  <2>2. ASSUME NEW s \in U, NEW t \in R, t.id \in Elements(s.deps)
        PROVE  t \in U
    <3>1. t.id \in {x.id : x \in U}
      BY <1>3, <2>2
    <3>2. PICK x \in U : x.id = t.id
      BY <3>1
    <3> QED BY <1>1, <2>1, <3>2
  <2>3. Under({r}) \subseteq U
    BY <1>1, <2>1, <2>2, BeneathIs
  <2> QED BY <1>2, <1>3, <1>5, <2>1, <2>3 DEF Proven
<1>7. ASSUME NEW r \in M
      PROVE  \E t \in M : t.id \in Canonical(r.deps)
  <2>1. r \in R /\ {r} \subseteq R /\ \A s \in Under({r}) : Holding(s, R, revision, asOf, evidence)
    BY <1>7 DEF Proven
  <2>2. /\ Under({r}) \subseteq R /\ {r} \subseteq Under({r})
        /\ \A s \in Under({r}), t \in R : t.id \in Elements(s.deps) => t \in Under({r})
    BY <1>1, <2>1, BeneathIs
  <2>3. Holding(r, R, revision, asOf, evidence)
    BY <2>1, <2>2
  <2>4. r \in P
    BY <1>2, <2>1, <2>3 DEF Holding
  <2>5. PICK d \in Elements(r.deps) : d \notin {s.id : s \in U}
    BY <1>3, <1>7, <2>4
  <2>6. PICK t \in R : t.id = d
    BY <1>1, <2>1, <2>5
  <2>7. t \in Under({r})
    BY <2>2, <2>5, <2>6
  <2>8. Under({t}) \subseteq Under({r})
    <3>1. {t} \subseteq Under({r}) /\ {t} \subseteq R /\ Under({r}) \in SUBSET R
      BY <2>2, <2>7
    <3>2. \A C \in SUBSET R : {t} \subseteq C /\ (\A s \in C, u \in R : u.id \in Elements(s.deps) => u \in C) => Under({t}) \subseteq C
      BY <1>1, <3>1, BeneathIs
    <3> QED BY <2>2, <3>1, <3>2
  <2>9. t \in V
    BY <2>1, <2>6, <2>8 DEF Proven
  <2>10. t \notin U
    BY <2>5, <2>6
  <2> QED BY <1>4, <2>1, <2>5, <2>6, <2>9, <2>10
<1>8. M \subseteq R
  BY DEF Proven
<1> HIDE DEF M
<1>9. M = {}
  <2> DEFINE left == [T \in SUBSET R |-> {r \in T : Canonical(r.deps) \cap {s.id : s \in T} # {}}]
  <2>1. left \in [SUBSET R -> SUBSET R]
    OBVIOUS
  <2>2. ASSUME NEW W \in SUBSET R, M \subseteq W
        PROVE  M \subseteq left[W]
    <3>1. ASSUME NEW r \in M
          PROVE  r \in W /\ Canonical(r.deps) \cap {s.id : s \in W} # {}
      <4>1. PICK t \in M : t.id \in Canonical(r.deps)
        BY <1>7
      <4>2. t \in W /\ t.id \in {s.id : s \in W}
        BY <2>2, <4>1
      <4> QED BY <2>2, <4>1, <4>2
    <3> QED BY <3>1
  <2>3. Rounds(left, R, Cardinality(R)) = {}
    BY <1>1 DEF Cyclic
  <2> HIDE DEF left
  <2>4. M \subseteq Rounds(left, R, Cardinality(R))
    BY <1>1, <1>8, <2>1, <2>2, RoundsKeep
  <2> QED BY <2>3, <2>4
<1> QED BY <1>6, <1>9 DEF M, P, U

\* Of evidence in which nothing is found, the records that can be used are the proven ones.
LEMMA UsableIsProven ==
  ASSUME NEW c, NEW packs, NEW asOf, NEW evidence, EvidenceChecked(c, packs, asOf, evidence)
  PROVE  UsableRecords(c) = Proven(Elements(Records(c)), GovernedRevision(c), asOf, evidence)
BY RecordsAreListed, RecordsAreInOrder, UsableAreProven DEF UsableRecords

(***************************************************************************)
(* What it says of changes that nothing was found in them.                 *)
(***************************************************************************)
ChangesChecked(c, packs, asOf, evidence) ==
  /\ EvidenceChecked(c, packs, asOf, evidence)
  /\ ChangeControl(c, Gates(c), References(UsableRecords(c))) = {}
  /\ SeparationOfDuties(c, Gates(c), UsableRecords(c)) = {}

LEMMA NothingFound ==
  ASSUME NEW c, NEW packs, NEW asOf, asOf \in Int \cup {None, BadTime}, NEW evidence, IsGoverned(c),
         StructuralFindings(c, packs, asOf, evidence) = {},
         {"evidence_integrity.v1", "human_approval.v1"} \subseteq packs.checks
  PROVE  /\ EvidenceChecked(c, packs, asOf, evidence)
         /\ "change_control.v1" \in packs.checks => ChangeControl(c, Gates(c), References(UsableRecords(c))) = {}
         /\ "separation_of_duties.v1" \in packs.checks => SeparationOfDuties(c, Gates(c), UsableRecords(c)) = {}
         /\ "exception_management.v1" \in packs.checks
              => ExceptionManagement(c, packs.modules, Gates(c), UsableRecords(c), asOf) = {}
<1> DEFINE Found(check) == FindingsOf(check, c, packs, Gates(c), UsableRecords(c), asOf, evidence)
<1>1. asOf # BadTime /\ SelectedFindings(c, packs, Gates(c), UsableRecords(c), asOf, evidence) = {}
  BY DEF StructuralFindings
<1>2. \A check \in packs.checks \cap KnownChecks : Found(check) = {}
  BY <1>1 DEF SelectedFindings
<1>3. {"change_control.v1", "evidence_integrity.v1", "exception_management.v1", "human_approval.v1", "separation_of_duties.v1"}
        \subseteq KnownChecks
  BY DEF KnownChecks
<1>4. Found("evidence_integrity.v1") = EvidenceIntegrity(c, packs.evidence, UsableRecords(c), asOf, evidence)
  BY DEF FindingsOf, DelegationCheck, FoundationCheck
<1>5. Found("human_approval.v1") = HumanApproval(c, Gates(c), References(UsableRecords(c)), asOf)
  BY DEF FindingsOf, DelegationCheck, FoundationCheck
<1>6. Found("change_control.v1") = ChangeControl(c, Gates(c), References(UsableRecords(c)))
  BY DEF FindingsOf, DelegationCheck, FoundationCheck
<1>7. Found("separation_of_duties.v1") = SeparationOfDuties(c, Gates(c), UsableRecords(c))
  BY DEF FindingsOf, DelegationCheck, FoundationCheck
<1>8. Found("exception_management.v1") = ExceptionManagement(c, packs.modules, Gates(c), UsableRecords(c), asOf)
  BY DEF FindingsOf, DelegationCheck, FoundationCheck
<1> HIDE DEF Found
<1>9. EvidenceChecked(c, packs, asOf, evidence)
  BY <1>1, <1>2, <1>3, <1>4, <1>5 DEF EvidenceChecked
<1> QED BY <1>2, <1>3, <1>6, <1>7, <1>8, <1>9

\* What is connected with some records includes all that they rest on.
LEMMA BeneathIsConnected ==
  ASSUME NEW U, IsFiniteSet(U), NEW references, NEW names, names \subseteq references
  PROVE  Beneath(U, Referred(U, names)) \subseteq Component(U, references)
<1> DEFINE next == [T \in SUBSET U |-> T \cup {r \in U : \E s \in T : Linked(r, s)}]
           start == Referred(U, references)
           C == Rounds(next, start, Cardinality(U))
           some == Referred(U, names)
<1>1. some \subseteq U /\ some \subseteq start /\ start \subseteq U
  BY DEF Referred
<1>2. Beneath(U, some) \subseteq U
  BY <1>1, BeneathIs
<1>3. CASE references = {}
  BY <1>2, <1>3 DEF Component
<1>4. CASE references # {}
  <2> HIDE DEF start, some
  <2>1. Growing(U, next, start)
    <3>1. next \in [SUBSET U -> SUBSET U]
      OBVIOUS
    <3>2. ASSUME NEW T \in SUBSET U, NEW V \in SUBSET U, T \subseteq V
          PROVE  next[T] \subseteq next[V]
      BY <3>2
    <3>3. start \subseteq next[start]
      BY <1>1
    <3> HIDE DEF next
    <3> QED BY <1>1, <3>1, <3>2, <3>3 DEF Growing
  <2>2. C \in SUBSET U /\ start \subseteq C /\ next[C] = C
    <3> HIDE DEF next
    <3> QED BY <2>1, RoundsSettle
  <2> HIDE DEF C
  <2>3. ASSUME NEW s \in C, NEW r \in U, r.id \in Elements(s.deps)
        PROVE  r \in C
    <3>1. Linked(r, s)
      BY <2>3 DEF Linked
    <3> QED BY <2>2, <2>3, <3>1
  <2>4. Beneath(U, some) \subseteq C
    BY <1>1, <2>2, <2>3, BeneathIs
  <2>5. Component(U, references) = C
    BY <1>4 DEF Component, C, start
  <2> QED BY <2>4, <2>5 DEF some
<1> QED BY <1>3, <1>4

LEMMA ChangeIsClean ==
  ASSUME NEW c, NEW packs, NEW asOf, NEW evidence, ChangesChecked(c, packs, asOf, evidence),
         NEW x \in Items(c.changes), HighRisk(x)
  PROVE  /\ Canonical(x.required) \subseteq References(UsableRecords(c))
         /\ Elements(x.roles) = Canonical(x.roles) /\ Canonical(x.roles) \cap NonHuman = {} /\ Canonical(x.required) # {}
         /\ \E duty \in Items(c.duties) : duty.subject \in Subjects(x)
         /\ x.binding # None /\ ApprovalFindings(x, GatesOver(x, Gates(c))) = {}
<1> DEFINE available == References(UsableRecords(c))
           over == GatesOver(x, Gates(c))
<1>1. ChangeFindings(x, c, over, available) = {}
  BY DEF ChangesChecked, ChangeControl
<1> HIDE DEF available, over
<1>2. HighRiskFindings(x, c, over) = {}
  BY <1>1 DEF ChangeFindings
<1>3. Canonical(x.required) \subseteq available
  BY <1>1 DEF ChangeFindings, When
<1>4. ~ Invalid(x.roles) /\ Canonical(x.roles) \cap NonHuman = {} /\ Canonical(x.required) # {}
  BY <1>2 DEF HighRiskFindings, When
<1>5. \E duty \in Items(c.duties) : duty.subject \in Subjects(x)
  BY <1>2 DEF HighRiskFindings, When
<1>6. x.binding # None /\ ApprovalFindings(x, over) = {}
  BY <1>2 DEF HighRiskFindings
<1>7. Elements(x.roles) = Canonical(x.roles)
  BY <1>4 DEF Invalid, Canonical
<1> QED BY <1>3, <1>4, <1>5, <1>6, <1>7 DEF available, over

\* A change without findings is granted by an approval that is in date.
LEMMA ChangeIsGranted ==
  ASSUME NEW c, NEW packs, NEW asOf, NEW evidence, ChangesChecked(c, packs, asOf, evidence),
         NEW x \in Items(c.changes), HighRisk(x)
  PROVE  \E g \in GatesOver(x, Gates(c)) : Granted(g, x, asOf)
<1> DEFINE over == GatesOver(x, Gates(c))
<1>1. /\ Elements(x.roles) = Canonical(x.roles) /\ Canonical(x.roles) \cap NonHuman = {}
      /\ ApprovalFindings(x, over) = {}
  BY ChangeIsClean
<1>2. over \subseteq Gates(c)
  BY DEF GatesOver
<1> HIDE DEF over
<1>3. MatchingGates(x, over) # {}
  BY <1>1 DEF ApprovalFindings, When
<1>4. PICK g \in over : RolesAuthorized(x, g) /\ BoundTo(g, x)
  BY <1>3 DEF MatchingGates
<1>5. g.expiresAt # None => asOf < g.expiresAt
  <2> SUFFICES ASSUME g.expiresAt # None PROVE asOf < g.expiresAt
    OBVIOUS
  <2>1. HumanApproval(c, Gates(c), References(UsableRecords(c)), asOf) = {} /\ IsGoverned(c) /\ asOf \in Int \cup {None}
    BY DEF ChangesChecked, EvidenceChecked
  <2>2. GateFindings(g, GovernedRevision(c), References(UsableRecords(c)), asOf) = {}
    BY <1>2, <2>1 DEF HumanApproval
  <2>3. asOf # None /\ g.expiresAt # BadTime /\ ~ (g.expiresAt <= asOf)
    BY <2>2 DEF GateFindings, When
  <2>4. g.expiresAt \in Int /\ asOf \in Int
    BY <1>2, <2>1, <2>3 DEF IsGoverned
  <2> QED BY <2>3, <2>4
<1> QED BY <1>1, <1>4, <1>5 DEF Granted, RolesAuthorized, BoundTo, ScopeHash, over

\* Two spellings of one person have one key, and what shares a person's key is that person.
LEMMA KeysArePersons ==
  ASSUME NEW a, NEW b, IsHuman(a)
  PROVE  /\ SamePerson(a, b) => IsHuman(b) /\ ActorKey(b) = ActorKey(a)
         /\ IsActor(b) /\ ActorKey(b) = ActorKey(a) => SamePerson(b, a)
<1>1. ActorKey(a) = <<"human_role", None, CaseFold(a.name)>> /\ IsActor(a)
  BY DEF ActorKey, IsHuman
<1>2. ASSUME SamePerson(a, b) PROVE IsHuman(b) /\ ActorKey(b) = ActorKey(a)
  <2>1. IsHuman(b) /\ CaseFold(b.name) = CaseFold(a.name)
    BY <1>2 DEF SamePerson, IsHuman, IsActor
  <2> QED BY <1>1, <2>1 DEF ActorKey, IsHuman
<1>3. ASSUME IsActor(b), ActorKey(b) = ActorKey(a) PROVE SamePerson(b, a)
  <2>1. IsHuman(b)
    BY <1>1, <1>3 DEF ActorKey
  <2>2. CaseFold(b.name) = CaseFold(a.name)
    BY <1>1, <1>3, <2>1 DEF ActorKey
  <2> QED BY <2>1, <2>2 DEF SamePerson, IsHuman, IsActor
<1> QED BY <1>2, <1>3

LEMMA DutyIsClean ==
  ASSUME NEW c, NEW packs, NEW asOf, NEW evidence, ChangesChecked(c, packs, asOf, evidence),
         NEW x \in Items(c.changes), NEW duty \in Items(c.duties), duty.subject \in Subjects(x)
  PROVE  /\ AssignmentFindings(duty) = {}
         /\ DutyFindings(duty, x, Gates(c), GatesOver(x, Gates(c)), UsableRecords(c)) = {}
<1> DEFINE U == UsableRecords(c)
           gates == Gates(c)
<1>1. c.duties # None /\ SeparationOfDuties(c, gates, U) = {} /\ c.changes # None
  BY DEF ChangesChecked, Items
<1> HIDE DEF U, gates
<1>2. PICK i \in DOMAIN c.duties : duty = c.duties[i]
  BY <1>1 DEF Items, Elements
<1>3. PICK k \in DOMAIN c.changes : x = c.changes[k]
  BY <1>1 DEF Items, Elements
<1>4. AssignmentFindings(duty) = {} /\ SubjectFindings(c, i, gates, U) = {}
  <2>1. (UNION {AssignmentFindings(c.duties[j]) \cup SubjectFindings(c, j, gates, U) : j \in DOMAIN c.duties}) = {}
    BY <1>1 DEF SeparationOfDuties
  <2>2. \A j \in DOMAIN c.duties : AssignmentFindings(c.duties[j]) \cup SubjectFindings(c, j, gates, U) = {}
    BY <2>1
  <2> QED BY <1>2, <2>2
<1>5. duty.subject # IllTyped
  BY <1>4 DEF AssignmentFindings, When
<1>6. k \in Resolved(c, duty)
  BY <1>3 DEF Resolved
<1>7. (UNION {DutyFindings(duty, c.changes[j], gates, GatesOver(c.changes[j], gates), U) : j \in Resolved(c, duty)}) = {}
  BY <1>1, <1>2, <1>4, <1>5 DEF SubjectFindings
<1>8. \A j \in Resolved(c, duty) : DutyFindings(duty, c.changes[j], gates, GatesOver(c.changes[j], gates), U) = {}
  BY <1>7
<1> QED BY <1>3, <1>4, <1>6, <1>8 DEF U, gates

LEMMA ApproversAreApart ==
  ASSUME NEW c, NEW packs, NEW asOf, NEW evidence, ChangesChecked(c, packs, asOf, evidence),
         NEW x \in Items(c.changes), HighRisk(x), NEW duty \in Items(c.duties), duty.subject \in Subjects(x),
         Elements(x.roles) = Canonical(x.roles), IsFiniteSet(UsableRecords(c))
  PROVE  ApprovedIndependently(duty, x, Beneath(UsableRecords(c), Referred(UsableRecords(c), ChangeReferences(x))))
<1> DEFINE U == UsableRecords(c)
           gates == Gates(c)
           over == GatesOver(x, gates)
           base == Beneath(U, Referred(U, ChangeReferences(x)))
           approvers == Canonical(duty.approvers)
<1>1. AssignmentFindings(duty) = {} /\ DutyFindings(duty, x, gates, over, U) = {}
  BY DutyIsClean
<1>2. base \subseteq Component(U, ChangeReferences(x) \cup AllOf(over, "evidence"))
  <2> HIDE DEF over
  <2> QED BY BeneathIsConnected
<1> HIDE DEF U, gates, over, base
<1>3. ~ Invalid(duty.approvers) /\ \A a \in approvers : HumanRole(a) # None
  BY <1>1 DEF AssignmentFindings, When
<1>4. Elements(duty.approvers) = approvers /\ \A a \in approvers : IsHuman(a)
  BY <1>3 DEF Invalid, Canonical, HumanRole
<1>5. duty.tier \in {"high", "critical"}
  BY <1>1 DEF DutyFindings, When, HighRisk
<1>6. ActorKey(duty.author) \notin Keys(approvers)
  BY <1>1, <1>5 DEF AssignmentFindings, When
<1>7. ASSUME NEW a \in approvers PROVE ~ SamePerson(a, duty.author)
  BY <1>4, <1>6, KeysArePersons DEF Keys, IsHuman
<1>8. Roles(approvers) = Roles(Canonical(x.roles)) /\ \E role \in Roles(approvers) : TRUE
  BY <1>1 DEF DutyFindings, When
<1>9. approvers # {}
  BY <1>8 DEF Roles
<1>10. ASSUME NEW a \in approvers PROVE \E role \in Elements(x.roles) : SamePerson(a, role)
  <2>1. HumanRole(a) \in Roles(Canonical(x.roles))
    BY <1>3, <1>8 DEF Roles
  <2>2. PICK role \in Canonical(x.roles) : HumanRole(role) = HumanRole(a)
    BY <2>1 DEF Roles
  <2>3. IsHuman(role) /\ IsHuman(a) /\ Plain(role.name) = Plain(a.name)
    BY <1>3, <1>4, <2>2 DEF HumanRole
  <2>4. role.name = a.name
    BY <2>3 DEF Plain, Actor
  <2> QED BY <2>3, <2>4 DEF SamePerson, IsHuman, IsActor, Canonical
<1>11. ASSUME duty.independent, NEW a \in approvers, NEW r \in base, NEW b \in Aliases(r), SamePerson(a, b)
       PROVE  r.type = "approval_record" /\ {r.id, r.type} \cap ChangeReferences(x) = {}
  <2>1. Keys(approvers) \cap Keys(ProducersOf(x, over, U)) = {}
    BY <1>1, <1>11 DEF DutyFindings, When
  <2>2. IsActor(a) /\ IsActor(b) /\ ActorKey(b) = ActorKey(a)
    BY <1>4, <1>11, KeysArePersons DEF IsHuman
  <2>3. ActorKey(a) \in Keys(approvers)
    BY <2>2 DEF Keys
  <2>4. b \notin ProducersOf(x, over, U)
    BY <2>1, <2>2, <2>3 DEF Keys
  <2>5. OnlyApprovesFor(r, x, over)
    BY <1>2, <1>11, <2>4 DEF ProducersOf
  <2> QED BY <2>5 DEF OnlyApprovesFor
<1> HIDE DEF approvers
<1>12. /\ Elements(duty.approvers) # {}
       /\ \A a \in Elements(duty.approvers) :
            ~ SamePerson(a, duty.author) /\ \E role \in Elements(x.roles) : SamePerson(a, role)
  BY <1>4, <1>7, <1>9, <1>10 
<1>13. ASSUME duty.independent, NEW a \in Elements(duty.approvers), NEW r \in base
       PROVE  \/ r.type = "approval_record" /\ {r.id, r.type} \cap ChangeReferences(x) = {}
              \/ \A b \in Aliases(r) : ~ SamePerson(a, b)
  BY <1>4, <1>11, <1>13
<1>14. ApprovedIndependently(duty, x, base)
  BY <1>12, <1>13 DEF ApprovedIndependently
<1> QED BY <1>14 DEF base, U

LEMMA UsableAreFinite ==
  ASSUME NEW c, NEW packs, NEW asOf, NEW evidence, EvidenceChecked(c, packs, asOf, evidence)
  PROVE  IsFiniteSet(UsableRecords(c)) /\ UsableRecords(c) \subseteq Elements(Records(c))
<1>1. IsFiniteSet(Elements(Records(c)))
  BY RecordsAreListed
<1>2. UsableRecords(c) \subseteq Elements(Records(c))
  BY UsableIsProven DEF Proven
<1> QED BY <1>1, <1>2, FS_Subset

LEMMA CleanChangesAreReleased ==
  ASSUME NEW c, NEW packs, NEW asOf, NEW evidence, ChangesChecked(c, packs, asOf, evidence)
  PROVE  AllReleased(c, asOf, evidence)
<1> DEFINE U == UsableRecords(c)
<1>1. EvidenceChecked(c, packs, asOf, evidence)
  BY DEF ChangesChecked
<1>2. U = Proven(Elements(Records(c)), GovernedRevision(c), asOf, evidence) /\ IsFiniteSet(U)
  BY <1>1, UsableIsProven, UsableAreFinite
<1>3. RevisionFindings(c) = {}
  BY <1>1 DEF EvidenceChecked, HumanApproval
<1> HIDE DEF U
<1>4. ASSUME NEW x \in Items(c.changes), HighRisk(x)
      PROVE  Released(x, c, asOf, U) /\ x.binding.revision = GovernedRevision(c)
  <2>1. /\ Canonical(x.required) \subseteq References(U) /\ Elements(x.roles) = Canonical(x.roles) /\ Canonical(x.required) # {}
        /\ \E duty \in Items(c.duties) : duty.subject \in Subjects(x)
        /\ x.binding # None
    BY <1>4, ChangeIsClean DEF U
  <2>2. \E g \in GatesOver(x, Gates(c)) : Granted(g, x, asOf)
    BY <1>4, ChangeIsGranted
  <2>3. \A reference \in Canonical(x.required) : Referred(U, {reference}) # {}
    BY <2>1 DEF References, Referred
  <2>4. \A duty \in Items(c.duties) :
          duty.subject \in Subjects(x) => ApprovedIndependently(duty, x, Beneath(U, Referred(U, ChangeReferences(x))))
    BY <1>2, <1>4, <2>1, ApproversAreApart DEF U
  <2>5. x.binding.revision \in RevisionClaims(c)
    BY <2>1 DEF RevisionClaims
  <2>6. x.binding.revision = GovernedRevision(c)
    BY <1>3, <2>5, OneRevision
  <2> QED BY <2>1, <2>2, <2>3, <2>4, <2>6 DEF Released
<1> QED BY <1>2, <1>4 DEF AllReleased

(***************************************************************************)
(* What it says of exceptions that nothing was found in them.              *)
(***************************************************************************)
ExceptionsChecked(c, packs, asOf, evidence) ==
  /\ EvidenceChecked(c, packs, asOf, evidence)
  /\ ExceptionManagement(c, packs.modules, Gates(c), UsableRecords(c), asOf) = {}

\* An entry in which nothing is found.
CleanEntry(e) ==
  /\ e.id \notin {None, IllTyped} /\ e.control # IllTyped /\ Canonical(e.scope) # {} /\ Elements(e.scope) = Canonical(e.scope)
  /\ HumanRole(e.approver) # None /\ IsHuman(e.approver) /\ ~ SameActor(e.requester, e.approver)
  /\ Elements(e.evidence) = Canonical(e.evidence) /\ Elements(e.closure) = Canonical(e.closure)
  /\ ProperInterval(e) /\ e.starts \in Int /\ e.expires \in Int

LEMMA EntryIsClean ==
  ASSUME NEW e, NEW modules, NEW available, NEW asOf, EntryFindings(e, modules, available, asOf) = {},
         e.id # None, {e.starts, e.expires} \subseteq Int \cup {None, IllTyped}
  PROVE  CleanEntry(e)
<1>1. e.id # IllTyped
  BY DEF EntryFindings, When
<1>2. e.control # IllTyped
  BY DEF EntryFindings
<1>3. ~ Invalid(e.scope) /\ Canonical(e.scope) # {}
  BY DEF EntryFindings, When
<1>4. ~ Invalid(e.evidence) /\ ~ Invalid(e.closure)
  BY DEF EntryFindings, When
<1>5. e.approver # IllTyped /\ HumanRole(e.approver) # None
  <2>1. IllTyped \notin {e.requester, e.approver, e.owner}
    BY DEF EntryFindings, When
  <2>2. ~ \E a \in {e.requester, e.approver, e.owner} \ {IllTyped} : HumanRole(a) = None
    BY DEF EntryFindings, When
  <2> QED BY <2>1, <2>2
<1>6. ~ SameActor(e.requester, e.approver)
  BY DEF EntryFindings, When
<1>7. Timed(e) /\ ProperInterval(e)
  BY DEF EntryFindings, When
<1>8. Elements(e.scope) = Canonical(e.scope) /\ Elements(e.evidence) = Canonical(e.evidence) /\ Elements(e.closure) = Canonical(e.closure)
  BY <1>3, <1>4 DEF Invalid, Canonical
<1>9. e.starts \in Int /\ e.expires \in Int
  BY <1>7 DEF Timed, IsTime
<1>10. IsHuman(e.approver)
  BY <1>5 DEF HumanRole
<1> QED BY <1>1, <1>2, <1>3, <1>5, <1>6, <1>7, <1>8, <1>9, <1>10 DEF CleanEntry

\* The entries of a list in which nothing is found, each of an identity of its own.
CleanEntries(list, gates, usable) ==
  /\ IsFiniteSet(Elements(list)) /\ UniqueEntries(list) = Elements(list)
  /\ \A e, f \in Elements(list) : e.id = f.id => e = f
  /\ \A e \in Elements(list) : CleanEntry(e) /\ RenewalFindings(e, list, gates, usable) = {}
  /\ \A i \in DOMAIN list, j \in DOMAIN list : list[i].id = list[j].id => i = j
  /\ \A e, f \in Elements(list) : e # f /\ InForce(e) /\ InForce(f) => ~ (Overlap(e, f) /\ Overlap(f, e))

LEMMA EntriesAreClean ==
  ASSUME NEW c, NEW packs, NEW asOf, NEW evidence, ExceptionsChecked(c, packs, asOf, evidence), c.exceptions # None
  PROVE  CleanEntries(c.exceptions, Gates(c), UsableRecords(c))
<1> DEFINE list == c.exceptions
           gates == Gates(c)
           U == UsableRecords(c)
           Entry(i) == EntryFindings(list[i], packs.modules, References(U), asOf) \cup RenewalFindings(list[i], list, gates, U)
<1>1. IsList(list) /\ Items(list) = Elements(list)
  BY DEF ExceptionsChecked, EvidenceChecked, IsGoverned, Items
<1>2. \A e \in Elements(list) : e.id # None /\ {e.starts, e.expires} \subseteq Int \cup {None, IllTyped}
  BY <1>1 DEF ExceptionsChecked, EvidenceChecked, IsGoverned
<1>3. ExceptionFindings(list, packs.modules, gates, U, asOf) = {}
  BY DEF ExceptionsChecked, ExceptionManagement
<1> HIDE DEF list, gates, U
<1>4. DOMAIN list = 1..Len(list) /\ Len(list) \in Nat /\ IsFiniteSet(Elements(list))
  BY <1>1, ListsAreFinite
<1>5. \A i \in DOMAIN list : Entry(i) = {}
  <2>1. UNION {Entry(i) : i \in DOMAIN list} = {}
    BY <1>3 DEF ExceptionFindings
  <2> HIDE DEF Entry
  <2> QED BY <2>1
<1>6. \A i \in DOMAIN list : CleanEntry(list[i]) /\ RenewalFindings(list[i], list, gates, U) = {}
  <2> SUFFICES ASSUME NEW i \in DOMAIN list PROVE CleanEntry(list[i]) /\ RenewalFindings(list[i], list, gates, U) = {}
    OBVIOUS
  <2>1. EntryFindings(list[i], packs.modules, References(U), asOf) = {} /\ RenewalFindings(list[i], list, gates, U) = {}
    BY <1>5
  <2>2. list[i] \in Elements(list)
    BY DEF Elements
  <2> QED BY <1>2, <2>1, <2>2, EntryIsClean
<1>7. \A i \in DOMAIN list, j \in DOMAIN list : list[i].id = list[j].id => i = j
  <2>1. ~ \E i, j \in DOMAIN list : i < j /\ list[i].id = list[j].id /\ list[i].id # IllTyped
    BY <1>3 DEF ExceptionFindings, When
  <2>2. \A i \in DOMAIN list : list[i].id # IllTyped
    BY <1>6 DEF CleanEntry
  <2> QED BY <1>4, <2>1, <2>2
<1>8. \A i \in DOMAIN list, j \in DOMAIN list :
        i # j /\ InForce(list[i]) /\ InForce(list[j]) => ~ (Overlap(list[i], list[j]) /\ Overlap(list[j], list[i]))
  <2>1. ~ \E i, j \in DOMAIN list : i < j /\ InForce(list[i]) /\ InForce(list[j]) /\ Overlap(list[i], list[j])
    BY <1>3 DEF ExceptionFindings, When
  <2> QED BY <1>4, <2>1
<1>9. UniqueEntries(list) = Elements(list)
  BY <1>6, <1>7 DEF UniqueEntries, Elements, CleanEntry
<1>10. \A e, f \in Elements(list) : e.id = f.id => e = f
  BY <1>7 DEF Elements
<1>11. \A e \in Elements(list) : CleanEntry(e) /\ RenewalFindings(e, list, gates, U) = {}
  BY <1>6 DEF Elements
<1>12. \A e, f \in Elements(list) : e # f /\ InForce(e) /\ InForce(f) => ~ (Overlap(e, f) /\ Overlap(f, e))
  BY <1>8 DEF Elements
<1> QED BY <1>4, <1>7, <1>9, <1>10, <1>11, <1>12 DEF CleanEntries, list, gates, U

\* Of an entry and the one that it renews.
LEMMA RenewalIsClean ==
  ASSUME NEW list, NEW gates, NEW usable, CleanEntries(list, gates, usable),
         NEW e \in Elements(list), NEW p \in Elements(list), e.renews = p.id
  PROVE  /\ Named(list, e.renews) = {p}
         /\ p.control = e.control /\ Elements(p.scope) = Elements(e.scope) /\ p.expires <= e.starts
         /\ SeparatelyApproved(e, p, list, gates, usable)
         /\ RenewalList(e) = e.renewal /\ Elements(e.renewal) = Canonical(e.renewal)
<1>1. CleanEntry(e) /\ CleanEntry(p) /\ RenewalFindings(e, list, gates, usable) = {}
  BY DEF CleanEntries
<1>2. Named(list, e.renews) = {p}
  BY DEF CleanEntries, Named
<1>3. e.renews \notin {None, IllTyped}
  BY <1>1 DEF CleanEntry
<1>4. PriorFindings(e, p, list, gates, usable) = {}
  <2>1. UNION {PriorFindings(e, prior, list, gates, usable) : prior \in Named(list, e.renews)} = {}
    BY <1>1, <1>3 DEF RenewalFindings
  <2> QED BY <1>2, <2>1
<1>5. SeparatelyApproved(e, p, list, gates, usable)
  BY <1>4 DEF PriorFindings, When
<1>6. e.control = p.control /\ Canonical(e.scope) = Canonical(p.scope)
  BY <1>4 DEF PriorFindings, When
<1>7. p.expires <= e.starts
  <2>1. ~ (IsTime(e.starts) /\ IsTime(Expiry(p)) /\ e.starts < p.expires)
    BY <1>4 DEF PriorFindings, When
  <2>2. IsTime(e.starts) /\ IsTime(Expiry(p))
    BY <1>1 DEF CleanEntry, ProperInterval, Timed, Expiry, IsTime
  <2> QED BY <1>1, <2>1, <2>2 DEF CleanEntry
<1>8. RenewalList(e) = e.renewal /\ ~ Invalid(e.renewal)
  BY <1>5 DEF SeparatelyApproved, RenewalList
<1>9. Elements(e.renewal) = Canonical(e.renewal)
  BY <1>8 DEF Invalid, Canonical
<1> QED BY <1>1, <1>2, <1>5, <1>6, <1>7, <1>8, <1>9 DEF CleanEntry

LEMMA PredecessorsAre ==
  ASSUME NEW D, IsFiniteSet(D), NEW entry
  PROVE  LET P == Predecessors(D, entry)
         IN /\ P \subseteq D
            /\ \A W \in SUBSET D : (\A p \in D : \A e \in W \cup {entry} : e.renews = p.id => p \in W) => P \subseteq W
<1> DEFINE next == [T \in SUBSET D |-> {p \in D : \E e \in T \cup {entry} : e.renews = p.id}]
           P == Rounds(next, {}, Cardinality(D))
<1>1. Growing(D, next, {})
  <2>1. next \in [SUBSET D -> SUBSET D]
    OBVIOUS
  <2>2. ASSUME NEW T \in SUBSET D, NEW V \in SUBSET D, T \subseteq V
        PROVE  next[T] \subseteq next[V]
    BY <2>2
  <2> HIDE DEF next
  <2> QED BY <2>1, <2>2 DEF Growing
<1>2. P \in SUBSET D /\ \A W \in SUBSET D : next[W] \subseteq W => P \subseteq W
  <2> HIDE DEF next
  <2> QED BY <1>1, RoundsSettle
<1> HIDE DEF P
<1>3. \A W \in SUBSET D : (\A p \in D : \A e \in W \cup {entry} : e.renews = p.id => p \in W) => P \subseteq W
  BY <1>2
<1> QED BY <1>2, <1>3 DEF Predecessors, P

\* All that an entry renews, however far back, stood for the same, and before it.
LEMMA PredecessorsCameBefore ==
  ASSUME NEW list, NEW gates, NEW usable, CleanEntries(list, gates, usable), NEW entry \in Elements(list)
  PROVE  /\ \A p \in Predecessors(Elements(list), entry) :
              p.control = entry.control /\ Elements(p.scope) = Elements(entry.scope) /\ p.expires <= entry.starts
         /\ entry \notin Predecessors(Elements(list), entry)
<1> DEFINE D == Elements(list)
           Before(p) == p.control = entry.control /\ Elements(p.scope) = Elements(entry.scope) /\ p.expires <= entry.starts
           W == {p \in D : Before(p)}
<1>1. IsFiniteSet(D) /\ \A e \in D : CleanEntry(e)
  BY DEF CleanEntries
<1>2. ASSUME NEW p \in D, NEW e \in W \cup {entry}, e.renews = p.id
      PROVE  p \in W
  <2>1. e \in D /\ (e = entry \/ Before(e))
    OBVIOUS
  <2>2. p.control = e.control /\ Elements(p.scope) = Elements(e.scope) /\ p.expires <= e.starts
    BY <1>2, <2>1, RenewalIsClean
  <2>3. e.starts \in Int /\ e.expires \in Int /\ p.expires \in Int /\ entry.starts \in Int /\ e.starts < e.expires
    BY <1>1, <2>1 DEF CleanEntry, ProperInterval
  <2> QED BY <2>1, <2>2, <2>3
<1> HIDE DEF D, W
<1>3. Predecessors(D, entry) \subseteq W
  <2>1. W \in SUBSET D
    BY DEF W
  <2> QED BY <1>1, <1>2, <2>1, PredecessorsAre
<1>4. ~ (entry.expires <= entry.starts)
  BY <1>1 DEF CleanEntry, ProperInterval, D
<1> QED BY <1>3, <1>4 DEF W, D

LEMMA LineageIncludes ==
  ASSUME NEW list, NEW gates, NEW usable, CleanEntries(list, gates, usable),
         NEW entry \in Elements(list)
  PROVE  Predecessors(Elements(list), entry) \subseteq Lineage(list, entry.renews)
<1> DEFINE D == Elements(list)
           next == [T \in SUBSET D |-> T \cup {p \in D : \E e \in T : Renews(e) /\ e.renews = p.id}]
           start == Named(list, entry.renews)
           L == Rounds(next, start, Cardinality(D))
<1>1. /\ IsFiniteSet(D) /\ UniqueEntries(list) = D /\ \A e \in D : e.id \notin {None, IllTyped}
  BY DEF CleanEntries, CleanEntry
<1> HIDE DEF D
<1>2. start = {p \in D : p.id = entry.renews}
  BY <1>1 DEF Named
<1> HIDE DEF start
<1>3. Growing(D, next, start)
  <2>1. next \in [SUBSET D -> SUBSET D]
    OBVIOUS
  <2>2. ASSUME NEW T \in SUBSET D, NEW V \in SUBSET D, T \subseteq V
        PROVE  next[T] \subseteq next[V]
    BY <2>2
  <2>3. start \in SUBSET D /\ start \subseteq next[start]
    BY <1>2
  <2> HIDE DEF next
  <2> QED BY <1>1, <2>1, <2>2, <2>3 DEF Growing
<1>4. L \in SUBSET D /\ start \subseteq L /\ next[L] = L
  <2> HIDE DEF next
  <2> QED BY <1>3, RoundsSettle
<1> HIDE DEF L
<1>5. ASSUME NEW p \in D, NEW e \in L \cup {entry}, e.renews = p.id
      PROVE  p \in L
  <2>1. CASE e = entry
    BY <1>2, <1>4, <1>5, <2>1
  <2>2. CASE e \in L
    <3>1. Renews(e)
      BY <1>1, <1>5 DEF Renews
    <3> QED BY <1>4, <1>5, <2>2, <3>1
  <2> QED BY <2>1, <2>2
<1>6. Predecessors(D, entry) \subseteq L
  BY <1>1, <1>4, <1>5, PredecessorsAre
<1>7. Lineage(list, entry.renews) = L
  BY <1>1 DEF Lineage, L, start
<1> QED BY <1>6, <1>7 DEF D

\* What an entry relies on is written properly.
LEMMA UsesAreClean ==
  ASSUME NEW list, NEW gates, NEW usable, CleanEntries(list, gates, usable), NEW e \in Elements(list)
  PROVE  UsedBy(e) = Canonical(e.evidence) \cup Canonical(e.closure) \cup Canonical(RenewalList(e))
<1>1. CleanEntry(e) /\ RenewalFindings(e, list, gates, usable) = {}
  BY DEF CleanEntries
<1>2. Elements(RenewalList(e)) = Canonical(RenewalList(e))
  <2>1. CASE e.renews = None
    <3>1. RenewalList(e) = << >>
      BY <1>1, <2>1 DEF RenewalFindings, When, RenewalList
    <3>2. DOMAIN << >> = {}
      OBVIOUS
    <3> QED BY <3>1, <3>2 DEF Elements, Canonical
  <2>2. CASE e.renews # None
    <3>1. ResolvedRenewal(e, list)
      BY <1>1, <2>2 DEF RenewalFindings
    <3>2. PICK p \in Elements(list) : p.id = e.renews
      BY <3>1 DEF ResolvedRenewal, Named, CleanEntries
    <3> QED BY <3>2, RenewalIsClean
  <2> QED BY <2>1, <2>2
<1> QED BY <1>1, <1>2 DEF UsedBy, CleanEntry

\* The approvals of a renewal are not among what those before it rest on.
LEMMA ApprovalsAreNew ==
  ASSUME NEW list, NEW gates, NEW usable, IsFiniteSet(usable), CleanEntries(list, gates, usable),
         NEW entry \in Elements(list), NEW e \in Predecessors(Elements(list), entry)
  PROVE  {r.id : r \in Beneath(usable, Cited(usable, UsedBy(e)))} \subseteq LineageEvidence(list, entry.renews, usable)
<1> DEFINE refs == UNION {Canonical(f.evidence) \cup Canonical(f.closure) \cup Canonical(RenewalList(f)) :
                            f \in Lineage(list, entry.renews)}
           direct == {r \in usable : r.id \in refs \/ (r.type \in refs /\ \A s \in usable : s.id # r.type)}
           some == Cited(usable, UsedBy(e))
<1>1. IsFiniteSet(Elements(list))
  BY DEF CleanEntries
<1>2. e \in Elements(list) /\ e \in Lineage(list, entry.renews)
  BY <1>1, PredecessorsAre, LineageIncludes
<1>3. UsedBy(e) \subseteq refs
  BY <1>2, UsesAreClean
<1>4. LineageEvidence(list, entry.renews, usable) = RestsOn(usable, refs)
  BY DEF LineageEvidence
<1> HIDE DEF refs
<1>5. some \subseteq direct /\ direct \subseteq usable
  BY <1>3 DEF Cited
<1>6. RestsOn(usable, refs) = {r.id : r \in Beneath(usable, direct)}
  BY DEF RestsOn, Beneath
<1> HIDE DEF direct, some
<1>7. Beneath(usable, some) \subseteq Beneath(usable, direct)
  <2> DEFINE B == Beneath(usable, direct)
  <2>1. B \subseteq usable /\ direct \subseteq B /\ \A s \in B, r \in usable : r.id \in Elements(s.deps) => r \in B
    BY <1>5, BeneathIs
  <2> HIDE DEF B
  <2>2. Beneath(usable, some) \subseteq B
    BY <1>5, <2>1, BeneathIs
  <2> QED BY <2>2 DEF B
<1> QED BY <1>4, <1>6, <1>7 DEF some

LEMMA ApprovalsAreFresh ==
  ASSUME NEW list, NEW gates, NEW usable, IsFiniteSet(usable), CleanEntries(list, gates, usable),
         NEW entry \in Elements(list), NEW prior \in Elements(list), prior.id = entry.renews,
         NEW reference \in Elements(RenewalList(entry))
  PROVE  FreshApproval(reference, entry, prior, Elements(list), usable)
<1>1. /\ SeparatelyApproved(entry, prior, list, gates, usable)
      /\ RenewalList(entry) = entry.renewal /\ Elements(entry.renewal) = Canonical(entry.renewal)
  BY RenewalIsClean
<1>2. reference \in Canonical(entry.renewal) /\ reference # IllTyped
  BY <1>1 DEF Canonical
<1>3. ASSUME NEW e \in Predecessors(Elements(list), entry)
      PROVE  reference \notin {r.id : r \in Beneath(usable, Cited(usable, UsedBy(e)))}
  <2>1. Canonical(entry.renewal) \cap LineageEvidence(list, entry.renews, usable) = {}
    BY <1>1 DEF SeparatelyApproved
  <2>2. {r.id : r \in Beneath(usable, Cited(usable, UsedBy(e)))} \subseteq LineageEvidence(list, entry.renews, usable)
    BY ApprovalsAreNew
  <2> QED BY <1>2, <2>1, <2>2
<1>4. ASSUME NEW e \in Elements(list), reference \in Elements(RenewalList(e))
      PROVE  e = entry
  <2> DEFINE S == {i \in DOMAIN list : reference \in Canonical(RenewalList(list[i]))}
  <2>1. Cardinality(S) = 1
    BY <1>1, <1>2 DEF SeparatelyApproved, TimesUsed
  <2>2. PICK i \in DOMAIN list : list[i] = e
    BY DEF Elements
  <2>3. PICK j \in DOMAIN list : list[j] = entry
    BY DEF Elements
  <2>4. i \in S /\ j \in S
    BY <1>1, <1>2, <1>4, <2>2, <2>3 DEF Canonical
  <2>5. IsFiniteSet(S)
    <3>1. IsFiniteSet(DOMAIN list)
      <4> DEFINE id == [k \in DOMAIN list |-> list[k]]
      <4>1. id \in Injection(DOMAIN list, Elements(list))
        <5>1. \A k, l \in DOMAIN list : list[k] = list[l] => k = l
          BY DEF CleanEntries
        <5> QED BY <5>1 DEF Injection, IsInjective, Elements
      <4>2. IsFiniteSet(Elements(list))
        BY DEF CleanEntries
      <4> HIDE DEF id
      <4> QED BY <4>1, <4>2, FS_Injection
    <3> QED BY <3>1, FS_Subset
  <2> HIDE DEF S
  <2>6. i = j
    BY <2>1, <2>4, <2>5, FS_Singleton
  <2> QED BY <2>2, <2>3, <2>6
<1>5. PICK r \in usable : r.id = reference
  BY <1>1, <1>2 DEF SeparatelyApproved
<1>6. IsHumanApproval(r, ActorKey(entry.approver), prior, entry, usable)
  BY <1>1, <1>2, <1>5 DEF SeparatelyApproved
<1>7. /\ r.producer.type = "human" /\ prior.starts <= r.generated /\ r.generated <= entry.starts
      /\ ActorKey(entry.approver) \in Keys(Aliases(r))
  BY <1>6 DEF IsHumanApproval
<1>8. \E a \in Aliases(r) : SamePerson(a, entry.approver)
  <2>1. PICK a \in Aliases(r) : IsActor(a) /\ ActorKey(a) = ActorKey(entry.approver)
    BY <1>7 DEF Keys
  <2>2. IsHuman(entry.approver)
    BY DEF CleanEntries, CleanEntry
  <2> QED BY <2>1, <2>2, KeysArePersons
<1> QED BY <1>3, <1>4, <1>5, <1>7, <1>8 DEF FreshApproval

LEMMA EntryIsSeparate ==
  ASSUME NEW list, NEW gates, NEW usable, IsFiniteSet(usable), CleanEntries(list, gates, usable), NEW entry \in Elements(list)
  PROVE  Separate(entry, Elements(list), usable)
<1>1. CleanEntry(entry)
  BY DEF CleanEntries
<1>2. HumanRole(entry.approver) # None
  BY <1>1 DEF CleanEntry
<1>3. ~ SamePerson(entry.requester, entry.approver)
  <2> SUFFICES ASSUME SamePerson(entry.requester, entry.approver) PROVE FALSE
    OBVIOUS
  <2>1. IsHuman(entry.requester)
    BY DEF SamePerson, IsHuman, IsActor
  <2> QED BY <1>1, <2>1, KeysArePersons DEF CleanEntry, SameActor, IsHuman
<1>4. /\ entry \notin Predecessors(Elements(list), entry)
      /\ \A p \in Predecessors(Elements(list), entry) :
           p.control = entry.control /\ Elements(p.scope) = Elements(entry.scope) /\ p.expires <= entry.starts
  BY PredecessorsCameBefore
<1>5. \A prior \in {e \in Elements(list) : e.id = entry.renews} :
        /\ RenewalList(entry) # << >>
        /\ \A reference \in Elements(RenewalList(entry)) : FreshApproval(reference, entry, prior, Elements(list), usable)
  BY RenewalIsClean, ApprovalsAreFresh DEF SeparatelyApproved
<1> QED BY <1>2, <1>3, <1>4, <1>5 DEF Separate

LEMMA CleanExceptionsAreSeparate ==
  ASSUME NEW c, NEW packs, NEW asOf, NEW evidence, ExceptionsChecked(c, packs, asOf, evidence)
  PROVE  AllSeparate(c, asOf, evidence)
<1> DEFINE list == c.exceptions
           U == UsableRecords(c)
           D == Items(c.exceptions)
<1>1. EvidenceChecked(c, packs, asOf, evidence)
  BY DEF ExceptionsChecked
<1>2. U = Proven(Elements(Records(c)), GovernedRevision(c), asOf, evidence) /\ IsFiniteSet(U)
  BY <1>1, UsableIsProven, UsableAreFinite
<1>3. CASE list = None
  BY <1>3 DEF AllSeparate, Items
<1>4. CASE list # None
  <2>1. CleanEntries(list, Gates(c), U)
    BY <1>4, EntriesAreClean
  <2>2. D = Elements(list)
    BY <1>4 DEF Items
  <2> HIDE DEF D, U, list
  <2>3. \A e \in D : Separate(e, D, U)
    BY <1>2, <2>1, <2>2, EntryIsSeparate
  <2>4. ASSUME NEW e \in D, NEW f \in D, e.status \in {"approved", "active"}, f.status \in {"approved", "active"},
               e # f, e.control = f.control, Elements(e.scope) \cap Elements(f.scope) # {}
        PROVE  Apart(e, f)
    <3>1. CleanEntry(e) /\ CleanEntry(f)
      BY <2>1, <2>2, <2>4 DEF CleanEntries
    <3>2. InForce(e) /\ InForce(f)
      BY <2>4, <3>1 DEF InForce, CleanEntry
    <3>3. ~ (Overlap(e, f) /\ Overlap(f, e))
      BY <2>1, <2>2, <2>4, <3>2 DEF CleanEntries
    <3>4. ~ (e.starts < f.expires /\ f.starts < e.expires)
      BY <2>4, <3>1, <3>3 DEF Overlap, CleanEntry
    <3> QED BY <3>1, <3>4 DEF Apart, CleanEntry
  <2> QED BY <1>2, <2>3, <2>4 DEF AllSeparate, D
<1> QED BY <1>3, <1>4

(***************************************************************************)
(* Contracts that are accepted.                                            *)
(***************************************************************************)
LEMMA AcceptedIsClean ==
  ASSUME FileInv, ReadInv, NEW p \in Procs, procs[p].accepted
  PROVE  LET r == procs[p]
         IN /\ IsGoverned(r.document) /\ r.request.asOf \in Int \cup {None, BadTime}
            /\ StructuralFindings(r.document, r.composition, r.request.asOf, r.disk) = {}
<1> DEFINE r == procs[p]
<1>1. /\ r.document \in Contracts /\ r.request \in scenario.requests /\ scenario \in Scenarios
      /\ StructuralFindings(r.document, r.composition, r.request.asOf, r.disk) = {}
  BY DEF FileInv, FilesInv, ReadInv, HasRead
<1> QED BY <1>1, ContractsAssumption DEF Contracts

LEMMA ReleaseFollows ==
  ASSUME FileInv, ReadInv
  PROVE  ChangeReleased
<1> SUFFICES ASSUME NEW p \in Procs, procs[p].accepted, Selects(procs[p].composition, ReleaseChecks)
             PROVE  AllReleased(procs[p].document, procs[p].request.asOf, procs[p].disk)
  BY DEF ChangeReleased
<1> DEFINE r == procs[p]
<1>1. /\ IsGoverned(r.document) /\ r.request.asOf \in Int \cup {None, BadTime}
      /\ StructuralFindings(r.document, r.composition, r.request.asOf, r.disk) = {}
  BY AcceptedIsClean
<1>2. {"change_control.v1", "evidence_integrity.v1", "human_approval.v1", "separation_of_duties.v1"} \subseteq r.composition.checks
  BY DEF Selects, ReleaseChecks
<1>3. ChangesChecked(r.document, r.composition, r.request.asOf, r.disk)
  BY <1>1, <1>2, NothingFound DEF ChangesChecked
<1> QED BY <1>3, CleanChangesAreReleased

LEMMA SeparationFollows ==
  ASSUME FileInv, ReadInv
  PROVE  ExceptionsAreSeparate
<1> SUFFICES ASSUME NEW p \in Procs, procs[p].accepted, Selects(procs[p].composition, ExceptionChecks)
             PROVE  AllSeparate(procs[p].document, procs[p].request.asOf, procs[p].disk)
  BY DEF ExceptionsAreSeparate
<1> DEFINE r == procs[p]
<1>1. /\ IsGoverned(r.document) /\ r.request.asOf \in Int \cup {None, BadTime}
      /\ StructuralFindings(r.document, r.composition, r.request.asOf, r.disk) = {}
  BY AcceptedIsClean
<1>2. {"evidence_integrity.v1", "exception_management.v1", "human_approval.v1"} \subseteq r.composition.checks
  BY DEF Selects, ExceptionChecks
<1>3. ExceptionsChecked(r.document, r.composition, r.request.asOf, r.disk)
  BY <1>1, <1>2, NothingFound DEF ExceptionsChecked
<1> QED BY <1>3, CleanExceptionsAreSeparate

\* However the evidence of a contract is connected and whatever packs, edits
\* and processes there are, in one that a process has accepted no change of
\* high risk goes without an approval in date for its revision and scope,
\* evidence that holds all the way down, and approvers who are neither its
\* author nor, where that is demanded, behind the evidence.
THEOREM ReleasesAreApproved == Spec => []ChangeReleased
BY FilesInvariant, ReadingInvariant, ReleaseFollows, PTL

\* However long the chains of renewals and of evidence are, in a contract that
\* a process has accepted no two exceptions from one control meet, nobody
\* approves their own, and each renewal came after all it renews and has
\* approvals that a person made for it alone.
THEOREM ExceptionsStaySeparate == Spec => []ExceptionsAreSeparate
BY FilesInvariant, ReadingInvariant, SeparationFollows, PTL
===============================================================================
