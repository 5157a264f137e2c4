------------------------- MODULE ContractSemantics -------------------------
(***************************************************************************)
(* What it means that a contract is accepted, stated without the checks:   *)
(* over the whole of a chain of evidence, renewals or delegations where    *)
(* the checks look at one link, and over persons where they compare keys.  *)
(***************************************************************************)
EXTENDS ContractWorkspace

\* Two spellings of one person.
SamePerson(a, b) ==
  /\ {a, b} \cap ({None, IllTyped} \cup NonHuman) = {}
  /\ CaseFold(a.name) = CaseFold(b.name) /\ {a.prefix, b.prefix} \subseteq HumanPrefixes \cup {None}

Selects(contract, checks) == checks \subseteq contract.checks

(***************************************************************************)
(* Evidence.                                                               *)
(***************************************************************************)
\* Some records, and all that they rest on, however far down.
Beneath(records, some) ==
  LET next == [T \in SUBSET records |-> T \cup {r \in records : \E s \in T : r.id \in Elements(s.deps)}]
  IN Rounds(next, some, Cardinality(records))

\* A record holds for a revision at a time: it passed, it is in date, its
\* artifact is what it was, and what it depends on is there.
Holding(r, records, revision, asOf, evidence) ==
  /\ r.status = "pass" /\ r.revision = revision /\ r.generated <= asOf /\ asOf < r.expires
  /\ r.artifact \in DOMAIN evidence /\ evidence[r.artifact] = r.hash
  /\ Elements(r.deps) \subseteq {s.id : s \in records}

\* The records that hold together with all that they rest on.
Proven(records, revision, asOf, evidence) ==
  {r \in records : \A s \in Beneath(records, {r}) : Holding(s, records, revision, asOf, evidence)}

(***************************************************************************)
(* Changes.                                                                *)
(***************************************************************************)
Granted(gate, x, asOf) ==
  /\ Elements(x.roles) \subseteq gate.eligible /\ gate.required \subseteq Elements(x.roles)
  /\ Elements(x.roles) \cap (Denials(gate) \cup NonHuman) = {}
  /\ gate.revision.revision = x.binding.revision /\ gate.revision.scope = <<Elements(x.scope), Elements(x.excluded)>>
  /\ gate.expiresAt # None => asOf < gate.expiresAt

\* The record of an approval that the change does not refer to itself is its approver's own.
ApprovedIndependently(duty, x, base) ==
  /\ Elements(duty.approvers) # {}
  /\ \A a \in Elements(duty.approvers) :
       /\ ~ SamePerson(a, duty.author) /\ \E role \in Elements(x.roles) : SamePerson(a, role)
       /\ duty.independent =>
            \A r \in base : \/ r.type = "approval_record" /\ {r.id, r.type} \cap ChangeReferences(x) = {}
                            \/ \A b \in Aliases(r) : ~ SamePerson(a, b)

Released(x, contract, asOf, proven) ==
  /\ \E g \in GatesOver(x, Gates(contract)) : Granted(g, x, asOf)
  /\ Canonical(x.required) # {} /\ \A reference \in Canonical(x.required) : Referred(proven, {reference}) # {}
  /\ \E duty \in Items(contract.duties) : duty.subject \in Subjects(x)
  /\ \A duty \in Items(contract.duties) :
       duty.subject \in Subjects(x) =>
         ApprovedIndependently(duty, x, Beneath(proven, Referred(proven, ChangeReferences(x))))

AllReleased(contract, asOf, evidence) ==
  \A x \in Items(contract.changes) :
    HighRisk(x) => Released(x, contract, asOf, Proven(Elements(Records(contract)), x.binding.revision, asOf, evidence))

(***************************************************************************)
(* Exceptions.                                                             *)
(***************************************************************************)
Predecessors(entries, entry) ==
  LET next == [T \in SUBSET entries |-> {p \in entries : \E e \in T \cup {entry} : e.renews = p.id}]
  IN Rounds(next, {}, Cardinality(entries))

Apart(e, f) == e.expires <= f.starts \/ f.expires <= e.starts
UsedBy(entry) == Elements(entry.evidence) \cup Elements(entry.closure) \cup Elements(RenewalList(entry))

\* A reference is to the record of that name or, where there is none, to those of that type.
Cited(records, references) ==
  {r \in records : r.id \in references \/ (r.type \in references /\ r.type \notin {s.id : s \in records})}

\* Each approval of a renewal is a human's own record, made for it alone while its predecessor stood.
FreshApproval(reference, entry, prior, entries, proven) ==
  /\ \A e \in Predecessors(entries, entry) : reference \notin {r.id : r \in Beneath(proven, Cited(proven, UsedBy(e)))}
  /\ \A e \in entries : reference \in Elements(RenewalList(e)) => e = entry
  /\ \E r \in proven :
       /\ r.id = reference /\ prior.starts <= r.generated /\ r.generated <= entry.starts
       /\ r.producer.type = "human" /\ \E a \in Aliases(r) : SamePerson(a, entry.approver)

Separate(entry, entries, proven) ==
  /\ HumanRole(entry.approver) # None /\ ~ SamePerson(entry.requester, entry.approver)
  /\ entry \notin Predecessors(entries, entry)
  /\ \A prior \in Predecessors(entries, entry) :
       prior.control = entry.control /\ Elements(prior.scope) = Elements(entry.scope) /\ prior.expires <= entry.starts
  /\ \A prior \in {e \in entries : e.id = entry.renews} :
       /\ RenewalList(entry) # << >>
       /\ \A reference \in Elements(RenewalList(entry)) : FreshApproval(reference, entry, prior, entries, proven)

AllSeparate(contract, asOf, evidence) ==
  LET entries == Items(contract.exceptions)
      proven == Proven(Elements(Records(contract)), GovernedRevision(contract), asOf, evidence)
  IN /\ \A e \in entries : Separate(e, entries, proven)
     /\ \A e, f \in {x \in entries : x.status \in {"approved", "active"}} :
          e # f /\ e.control = f.control /\ Elements(e.scope) \cap Elements(f.scope) # {} => Apart(e, f)

(***************************************************************************)
(* Networks.                                                               *)
(***************************************************************************)
Above(delegations, x) ==
  LET next == [T \in SUBSET delegations |-> {y \in delegations : \E z \in T \cup {x} : z.parent = y.id}]
  IN Rounds(next, {}, Cardinality(delegations))

Within(x, y) ==
  /\ x.actions \subseteq y.actions /\ x.scopes \subseteq y.scopes /\ x.capability = y.capability
  /\ y.from <= x.from /\ x.until <= y.until /\ x.maxDepth <= y.maxDepth /\ y.depth < x.depth

Lifted(network, target, asOf) == \E r \in Elements(network.revocations) : r.target = target /\ r.at <= asOf

\* A person of the network has a capability in a zone by its own right.
Has(contract, identity, capability, zone, asOf) ==
  /\ \E i \in Elements(contract.identities) :
       /\ i.id = identity /\ i.status = "active" /\ Covers(i, asOf) /\ capability \in i.capabilities
       /\ ~ Lifted(contract.network, <<"agent_identity", identity>>, asOf)
       /\ ~ Lifted(contract.network, Assignment("agent_identity", identity, capability), asOf)
  /\ \E m \in Elements(contract.network.memberships) :
       /\ m.identity = identity /\ m.zone = zone /\ m.status = "authorized" /\ Covers(m, asOf) /\ capability \in m.capabilities
       /\ ~ Lifted(contract.network, <<"membership", m.id>>, asOf)
       /\ ~ Lifted(contract.network, Assignment("membership", m.id, capability), asOf)

InForceNow(x, network, asOf) ==
  x.status = "active" /\ Covers(x, asOf) /\ ~ Lifted(network, <<"delegation", x.id>>, asOf)

Attenuates(x, delegations, contract, asOf) ==
  /\ \A y \in Above(delegations, x) : Within(x, y)
  /\ Cardinality(Above(delegations, x)) = x.depth
  /\ \A y \in delegations : x.parent = y.id => y.delegate = x.delegator
  /\ x.status = "active" => InForceNow(x, contract.network, asOf)
  /\ Has(contract, x.delegator, x.capability, x.source, asOf)
  /\ \A c \in Elements(contract.capabilities) :
       c.id = x.capability =>
         /\ c.delegable = TRUE /\ x.actions \subseteq c.actions /\ x.scopes \subseteq Elements(c.scopes)
         /\ x.depth < (IF c.depth = None THEN DefaultDepth ELSE c.depth)

GrantsNothing(h, delegations, contract, asOf) ==
  \A c \in h.capabilities :
    \/ Has(contract, h.target, c, h.targetZone, asOf)
    \/ \E x \in delegations :
         /\ x.id \in h.delegations /\ x.delegate = h.target /\ x.capability = c /\ x.target = h.targetZone
         /\ InForceNow(x, contract.network, asOf)

AllAttenuate(contract, asOf) ==
  LET delegations == Elements(Listed(contract.network.delegations))
  IN /\ (\A x \in delegations : DepthsValid(x)) => \A x \in delegations : Attenuates(x, delegations, contract, asOf)
     /\ \A h \in Elements(Listed(contract.network.handoffs)) : GrantsNothing(h, delegations, contract, asOf)

(***************************************************************************)
(* Properties.                                                             *)
(***************************************************************************)
ReleaseChecks == {"change_control.v1", "evidence_integrity.v1", "human_approval.v1", "separation_of_duties.v1"}
ExceptionChecks == {"evidence_integrity.v1", "exception_management.v1", "human_approval.v1"}
NetworkChecks == {DelegationCheck, FoundationCheck}

\* A contract that is accepted releases no change of high risk unless a
\* human approval that is in date grants it for its revision and its scope,
\* each piece of evidence it requires is there in a record that holds with
\* all it rests on, however far down, and no approver is its author or,
\* where independence is demanded, made any such evidence it refers to.
ChangeReleased ==
  \A p \in Procs :
    procs[p].accepted /\ Selects(procs[p].composition, ReleaseChecks)
      => AllReleased(procs[p].document, procs[p].request.asOf, procs[p].disk)

\* In a contract that is accepted no two exceptions from one control meet in
\* a scope, nobody approves an exception of their own, and a renewal follows
\* its predecessors in time and rests on approvals that serve it alone.
ExceptionsAreSeparate ==
  \A p \in Procs :
    procs[p].accepted /\ Selects(procs[p].composition, ExceptionChecks)
      => AllSeparate(procs[p].document, procs[p].request.asOf, procs[p].disk)

\* In a contract that is accepted, whose delegations all say how deep they
\* are as its schema demands, a delegation gives at most what each of those
\* it rests on gives, by somebody who has it; and a handoff needs nothing
\* that its target has not.
AuthorityNeverGrows ==
  \A p \in Procs :
    procs[p].accepted /\ Selects(procs[p].composition, NetworkChecks) /\ procs[p].document.network # None
      => AllAttenuate(procs[p].document, procs[p].request.asOf)

\* "a delegation whose parent_delegation_ref names a parent requires the
\* parent to allow onward delegation, be active, and have current_depth
\* exactly one less" (ADR-0034:77-79): in a contract that is accepted, the
\* parent of a delegation in force is active.
ParentsAreActive ==
  \A p \in Procs :
    procs[p].accepted /\ Selects(procs[p].composition, NetworkChecks) /\ procs[p].document.network # None
      => LET delegations == Elements(Listed(procs[p].document.network.delegations))
         IN \A x, y \in delegations :
              x.parent = y.id /\ InForceNow(x, procs[p].document.network, procs[p].request.asOf) => y.status = "active"

\* Whether a lock is one of a contract: but for its artifacts it is the one that is built for it,
\* and it lists the artifacts of the contract, the last entry of each with its hash.
IsLockOf(lock, contract, packs) ==
  LET own == BuildLock(contract, packs, lock.version)
      content == Render(contract, packs, lock.version)
      list == lock.artifacts
  IN /\ lock = [own EXCEPT !.artifacts = list] /\ DOMAIN content = {list[i].path : i \in DOMAIN list}
     /\ \A i \in DOMAIN list :
          (\A j \in (i + 1)..Len(list) : list[j].path # list[i].path) => list[i].hash = content[list[i].path]

\* In the directory there are these artifacts and no other file.
Stored(content) ==
  \A name \in DOMAIN artifacts :
    IF name \in DOMAIN content THEN artifacts[name] = File(content[name])
    ELSE artifacts[name] = Absent \/ artifacts[name].kind = "directory"

\* A command that passed while nobody else changed a file leaves, or has
\* found, the artifacts and the lock of the contract as it is: `lock` the
\* very lock that is built for it, `lock-check` one that is as good field by
\* field and in the last entry of each artifact.  A lock that a command
\* passed is always one of the contract and the packs that it read.
PassedMeansCurrent ==
  \A p \in Procs :
    LET r == procs[p]
        passed(commands) == r.verdict = "passed" /\ r.request.command \in commands
        current == Render(document, composition, CurrentVersion)
    IN /\ passed({"generate"}) /\ r.calm => \A name \in DOMAIN current : artifacts[name] = File(current[name])
       /\ passed({"lock", "lock-check"}) =>
            /\ IsLockOf(r.lock, r.document, r.composition) /\ r.lock.revision \in Immutable
            /\ r.calm => /\ networkLock = StoredLock(r.lock) /\ IsLockOf(r.lock, document, composition)
                         /\ Stored(Render(document, composition, r.lock.version))
       /\ passed({"lock"}) => r.lock = BuildLock(r.document, r.composition, CurrentVersion)

\* "What lock-check detects ... wrong or mutable revision ..., and hash
\* substitution inside the lock itself" (docs/agentic-network/
\* 07_NETWORK_LOCK.md:24-34): a lock that lock-check
\* passes holds no hash but that of the artifact it is given for.
SubstitutionIsDetected ==
  \A p \in Procs :
    procs[p].verdict = "passed" /\ procs[p].request.command = "lock-check"
      => LET lock == procs[p].lock
         IN \A entry \in Elements(lock.artifacts) :
              entry.hash = Render(procs[p].document, procs[p].composition, lock.version)[entry.path]
===============================================================================
