----------------------------- MODULE ExceptionRecords -----------------------------
(***************************************************************************)
(* exception_management.v1: governed exceptions, which except a control in *)
(* a scope for an interval, and their renewals.                            *)
(*                                                                         *)
(* An entry is [id, control, scope, requester, approver, owner, evidence,  *)
(* closure, starts, expires, status, policy, renews, renewal]; renewal is  *)
(* None or the list of its own approval evidence.                          *)
(***************************************************************************)
EXTENDS ChangeGovernance

CONSTANT CoreControls  \* the controls, however spelt, that the core itself never lets be excepted

Statuses == {"requested", "approved", "active", "expired", "closed", "rejected"}

\* _selected_builtin_control_ids: whatever a selected built-in module is made of.
BuiltinControls(modules) ==
  LET own(p) == {p.payload.id, p.payload.name} \cup p.payload.checks \cup {r.id : r \in Elements(p.payload.rules)}
      declared(p) == UNION {{p.payload[f][i].id : i \in DOMAIN p.payload[f]} :
                              f \in {"policies", "evidence", "approvals", "evaluations"}}
      metrics(p) == UNION {e.metrics : e \in Elements(p.payload.evaluations)}
  IN {CaseFold(c) : c \in UNION {own(p) \cup declared(p) \cup metrics(p) : p \in {m \in modules : m.tier = "builtin"}}}

\* _is_core_non_exceptable_control
NonExceptable(control, modules) == control \in CoreControls \/ CaseFold(control) \in BuiltinControls(modules)

Timed(entry) == IsTime(entry.starts) /\ IsTime(entry.expires)
ProperInterval(entry) == Timed(entry) /\ entry.starts < entry.expires
\* The expiry is not read if the start is malformed.
Expiry(entry) == IF entry.starts = IllTyped THEN None ELSE entry.expires
Lapsed(entry, asOf) == asOf # None /\ IsTime(Expiry(entry)) /\ entry.expires <= asOf

LifecycleFindings(e, asOf) ==
  IF asOf = None THEN {"GOVERNANCE_TIME_REQUIRED"}
  ELSE IF ~ ProperInterval(e) THEN {}
  ELSE When(e.status = "active" /\ asOf < e.starts, "EXCEPTION_LIFECYCLE_INVALID")
         \cup When(e.status \in {"approved", "active"} /\ e.expires <= asOf, "EXCEPTION_EXPIRED")
         \cup When(e.status = "expired" /\ asOf < e.expires, "EXCEPTION_LIFECYCLE_INVALID")

ClosureRequired(e, asOf) ==
  e.status \in {"closed", "expired"} \/ (e.status \in {"approved", "active"} /\ Lapsed(e, asOf))

EntryFindings(e, modules, available, asOf) ==
  When(e.id = IllTyped, "EXCEPTION_ID_INVALID")
  \cup (IF e.control = IllTyped THEN {"EXCEPTION_CONTROL_INVALID"}
        ELSE When(NonExceptable(e.control, modules), "EXCEPTION_CORE_CONTROL_FORBIDDEN"))
  \cup When(Invalid(e.scope) \/ Canonical(e.scope) = {}, "EXCEPTION_SCOPE_INVALID")
  \cup When(IllTyped \in {e.requester, e.approver, e.owner}, "EXCEPTION_AUTHORITY_INVALID")
  \cup When(\E a \in {e.requester, e.approver, e.owner} \ {IllTyped} : HumanRole(a) = None, "EXCEPTION_NON_HUMAN_AUTHORITY")
  \cup When(SameActor(e.requester, e.approver), "EXCEPTION_SELF_APPROVAL")
  \cup When(Invalid(e.evidence), "EXCEPTION_EVIDENCE_INVALID")
  \cup When(~ (Canonical(e.evidence) \subseteq available), "EXCEPTION_EVIDENCE_MISSING")
  \cup When(Invalid(e.closure), "EXCEPTION_CLOSURE_EVIDENCE_INVALID")
  \cup When(~ Timed(e), "EXCEPTION_TIME_INVALID")
  \cup When(Timed(e) /\ ~ ProperInterval(e), "EXCEPTION_INTERVAL_INVALID")
  \cup When(e.status \notin Statuses, "EXCEPTION_LIFECYCLE_INVALID")
  \cup LifecycleFindings(e, asOf)
  \cup When(ClosureRequired(e, asOf) /\ (Invalid(e.closure) \/ ~ Available(e.closure, available)),
            "EXCEPTION_CLOSURE_EVIDENCE_MISSING")

(***************************************************************************)
(* Renewals.                                                               *)
(***************************************************************************)
\* unique_by_id
UniqueEntries(entries) ==
  {entries[i] : i \in {j \in DOMAIN entries :
     entries[j].id # IllTyped /\ \A k \in DOMAIN entries : entries[k].id = entries[j].id => k = j}}
Named(entries, id) == {e \in UniqueEntries(entries) : e.id = id}
RenewalList(entry) == IF entry.renewal = None THEN << >> ELSE entry.renewal
Renews(entry) == entry.renews \notin {None, IllTyped}

\* evidence_dependency_closure: the records referred to and all they rest on.
RestsOn(usable, references) ==
  LET direct == {r \in usable : r.id \in references \/ (r.type \in references /\ \A s \in usable : s.id # r.type)}
      next == [T \in SUBSET usable |-> T \cup {r \in usable : \E s \in T : r.id \in Elements(s.deps)}]
  IN {r.id : r \in Rounds(next, direct, Cardinality(usable))}

\* The prior exception and those it renews in turn.
Lineage(entries, id) ==
  LET unique == UniqueEntries(entries)
      next == [T \in SUBSET unique |-> T \cup {p \in unique : \E e \in T : Renews(e) /\ e.renews = p.id}]
  IN Rounds(next, Named(entries, id), Cardinality(unique))

\* ancestor_evidence_ids
LineageEvidence(entries, id, usable) ==
  RestsOn(usable, UNION {Canonical(e.evidence) \cup Canonical(e.closure) \cup Canonical(RenewalList(e)) : e \in Lineage(entries, id)})

Sole(usable, record, field) ==
  record[field] \notin {None, IllTyped} /\ \A r \in usable : r[field] = record[field] => r.id = record.id

\* is_human_approval_record
IsHumanApproval(record, authority, prior, entry, usable) ==
  /\ authority # None /\ IsTime(prior.starts) /\ IsTime(entry.starts)
  /\ record.type = "approval_record" /\ record.producer # IllTyped /\ record.producer.type = "human"
  /\ IsTime(record.generated) /\ prior.starts <= record.generated /\ record.generated <= entry.starts
  /\ Sole(usable, record, "artifact") /\ Sole(usable, record, "hash")
  /\ authority \in Keys(Aliases(record))

\* The gates that govern this very renewal, satisfied by the approver alone.
RenewalGated(entry, gates) ==
  LET over == {g \in gates : ("renew_exception:" \o entry.id) \in g.actions}
  IN /\ over # {} /\ HumanRole(entry.approver) # None /\ GatesAllow(over, {HumanRole(entry.approver)})
     /\ AllOf(over, "evidence") # {} /\ AllOf(over, "evidence") = Canonical(entry.renewal)

\* renewal_evidence_usage
TimesUsed(entries, reference) == Cardinality({i \in DOMAIN entries : reference \in Canonical(RenewalList(entries[i]))})

\* Mutant of SeparatelyApproved: the approval of an earlier exception may be used again.
ApprovedByAnyone(entry, prior, entries, gates, usable) ==
  /\ RenewalList(entry) # << >> /\ Canonical(entry.renewal) \subseteq {r.id : r \in usable}
  /\ \A r \in usable :
       r.id \in Canonical(entry.renewal) => IsHumanApproval(r, ActorKey(entry.approver), prior, entry, usable)
  /\ RenewalGated(entry, gates)

\* renewal_is_separately_approved
SeparatelyApproved(entry, prior, entries, gates, usable) ==
  /\ RenewalList(entry) # << >> /\ ~ Invalid(entry.renewal)
  /\ Canonical(entry.renewal) \subseteq {r.id : r \in usable}
  /\ Canonical(entry.renewal) \cap LineageEvidence(entries, entry.renews, usable) = {}
  /\ \A reference \in Canonical(entry.renewal) : TimesUsed(entries, reference) = 1
  /\ \A r \in usable :
       r.id \in Canonical(entry.renewal) => IsHumanApproval(r, ActorKey(entry.approver), prior, entry, usable)
  /\ RenewalGated(entry, gates)

PriorFindings(entry, prior, entries, gates, usable) ==
  When(prior.status \notin {"approved", "active", "expired", "closed"}, "EXCEPTION_RENEWAL_REFERENCE_INVALID")
  \cup When(prior.policy # "manual_reapproval", "EXCEPTION_RENEWAL_NOT_ALLOWED")
  \cup When(entry.control # prior.control \/ Canonical(entry.scope) # Canonical(prior.scope), "EXCEPTION_RENEWAL_REFERENCE_INVALID")
  \cup When(IsTime(entry.starts) /\ IsTime(Expiry(prior)) /\ entry.starts < prior.expires, "EXCEPTION_RENEWAL_INTERVAL_INVALID")
  \cup When(~ SeparatelyApproved(entry, prior, entries, gates, usable), "EXCEPTION_RENEWAL_APPROVAL_MISSING")

ResolvedRenewal(entry, entries) ==
  Renews(entry) /\ entry.id # IllTyped /\ entry.renews # entry.id /\ Named(entries, entry.renews) # {}

RenewalFindings(entry, entries, gates, usable) ==
  IF entry.renews = IllTyped THEN {"EXCEPTION_RENEWAL_REFERENCE_INVALID"}
  ELSE IF entry.renews = None THEN When(entry.renewal # None, "EXCEPTION_RENEWAL_REFERENCE_INVALID")
  ELSE IF ~ ResolvedRenewal(entry, entries) THEN {"EXCEPTION_RENEWAL_REFERENCE_INVALID"}
  ELSE UNION {PriorFindings(entry, prior, entries, gates, usable) : prior \in Named(entries, entry.renews)}

\* Following the renewals from an entry leads back to it.
RenewsItself(e, entries) == \E prior \in Named(entries, e.renews) : e.id \in {x.id : x \in Lineage(entries, prior.id)}

InForce(e) == e.status \in {"active", "approved"} /\ ProperInterval(e) /\ e.control # IllTyped /\ Canonical(e.scope) # {}
Overlap(e, f) ==
  e.control = f.control /\ Canonical(e.scope) \cap Canonical(f.scope) # {} /\ e.starts < f.expires /\ f.starts < e.expires

ExceptionFindings(entries, modules, gates, usable, asOf) ==
  LET entry(i) == entries[i]
      renewing == {i \in DOMAIN entries : ResolvedRenewal(entries[i], entries)}
  IN (UNION {EntryFindings(entries[i], modules, References(usable), asOf)
              \cup RenewalFindings(entries[i], entries, gates, usable) : i \in DOMAIN entries})
     \cup When(\E i, j \in DOMAIN entries : i < j /\ entries[i].id = entries[j].id /\ entries[i].id # IllTyped, "EXCEPTION_DUPLICATE_ID")
     \cup When(\E i, j \in renewing : i < j /\ entries[i].renews = entries[j].renews, "EXCEPTION_RENEWAL_FORK_INVALID")
     \cup When(\E i \in renewing : RenewsItself(entries[i], entries), "EXCEPTION_RENEWAL_REFERENCE_INVALID")
     \cup When(\E i, j \in DOMAIN entries : i < j /\ InForce(entries[i]) /\ InForce(entries[j]) /\ Overlap(entries[i], entries[j]),
               "EXCEPTION_SCOPE_OVERLAP")

ExceptionManagement(document, modules, gates, usable, asOf) ==
  IF document.exceptions = None THEN {}
  ELSE ExceptionFindings(document.exceptions, modules, gates, usable, asOf)
===============================================================================
