------------------------------- MODULE MCContract -------------------------------
(***************************************************************************)
(* Small contracts: a release with its approval and evidence, exceptions   *)
(* and their renewals, and networks of three agents in two zones; and      *)
(* histories of commands over one of them.                                 *)
(***************************************************************************)
EXTENDS ContractSemantics, TLC

\* One person is spelt in two ways.
MCCaseFold(name) == IF name = "Owner" THEN "owner" ELSE name
MCUnprefixed(id) == IF id = "human.owner" THEN "owner" ELSE id
MCLastSegment(id) == IF id = "human.owner" THEN Plain("owner") ELSE Plain(id)
MCSurface == Plain("execution_surface")
MCNonHuman == {Plain("ai_agent"), MCSurface}
MCCoreDenied == {Plain("ai_agent"), MCSurface}
MCImmutable == {"sha256:1", "sha256:2"}
MCMutable == {"main"}
MCHighImpact == {"release"}
MCCoreControls == {"core_denial"}

Human(name) == Actor("human", name)
AsOf == 5

(***************************************************************************)
(* Parts of contracts.                                                     *)
(***************************************************************************)
Producer(type, id) == [type |-> type, id |-> id, tool |-> None]
Evidence(id, type, deps, producer) ==
  [id |-> id, type |-> type, status |-> "pass", revision |-> "sha256:1", artifact |-> id, hash |-> id,
   generated |-> 1, expires |-> 9, deps |-> deps, producer |-> producer]
Disk == [path \in {"tests", "review", "again", "approval_record", "grant", "closing", "renewal", "renewal2", ApprovalRecord, ContractReview} |-> path]

Names == [roles |-> {"worker"}, contexts |-> {"repo"}, others |-> {"team"}, missions |-> {"ship"}, policies |-> {"policy"}]
Empty ==
  [evidence |-> None, architecture |-> None, approvals |-> << >>, duties |-> None, exceptions |-> None, changes |-> None,
   network |-> None, identities |-> << >>, capabilities |-> << >>, names |-> Names]
EmptyComposition == [checks |-> {}, modules |-> {}, approvals |-> {}, evidence |-> {}, policies |-> {}]

Approval(id, actions, evidence, revision, scope) ==
  [form |-> "source",
   source |-> Declared([id |-> id, eligible |-> <<Plain("owner"), Plain("second")>>, required |-> <<Plain("owner")>>,
                        denied |-> <<Plain("ai_agent"), MCSurface>>, evidence |-> evidence, actions |-> actions,
                        invalidation |-> <<"revision_change", "scope_change">>, authority |-> Plain("owner"),
                        revision |-> [exact |-> TRUE, revision |-> revision, scope |-> scope], expiresAt |-> 8])]

(***************************************************************************)
(* A release.  v says who did what, and on which evidence.                 *)
(***************************************************************************)
Releases ==
  [author : {Human("dev"), Actor("person", "Owner")},
   reviewer : {Producer("human", "human.dev"), Producer("human", "human.owner"), Producer("tool", "ci")},
   tester : {Producer("tool", "ci"), Producer("human", "human.owner")},
   tested : {"pass", "fail"},
   deps : {<< >>, <<"tests">>, <<"absent">>},
   revision : {"sha256:1", "sha256:2"},
   scope : {{"src"}, {"src", "docs"}},
   independent : BOOLEAN]
Asked == {"tests", "review"}

ReleaseRecords(v) ==
  <<[Evidence("tests", "test_report", << >>, v.tester) EXCEPT !.status = v.tested],
    Evidence("review", "peer_review", v.deps, v.reviewer),
    Evidence("grant", "approval_record", << >>, Producer("human", "human.owner"))>>
Release(v) ==
  [id |-> "c1", status |-> "approved", transition |-> [from |-> "proposed", to |-> "approved", evidence |-> <<"review">>],
   required |-> <<"review">>, closure |-> << >>, exceptions |-> << >>, tier |-> "high", roles |-> <<Plain("owner")>>,
   approvals |-> <<"release">>, binding |-> [revision |-> "sha256:1", scope |-> <<{"src"}, {}>>],
   scope |-> <<"src">>, excluded |-> << >>, invalidated |-> {"revision_change", "scope_change"}, irreversible |-> FALSE,
   authority |-> None, rollback |-> FALSE, plan |-> None, impact |-> "minor",
   duty |-> [author |-> v.author, approver |-> Human("owner")]]
Duty(v) ==
  [subject |-> "c1", author |-> v.author, approvers |-> <<Human("owner")>>, tier |-> "high", producers |-> <<Actor("tool", "ci")>>,
   independent |-> v.independent, releaseRequester |-> None, releaseApprover |-> None,
   exceptionRequester |-> None, exceptionApprover |-> None]
ReleaseContract(v) ==
  [Empty EXCEPT !.evidence = [revision |-> "sha256:1", records |-> ReleaseRecords(v)],
                !.approvals = <<Approval("release", <<"change:c1">>, <<"grant">>, v.revision, <<v.scope, {}>>)>>,
                !.duties = <<Duty(v)>>, !.changes = <<Release(v)>>]

PlainRelease ==
  [author |-> Human("dev"), reviewer |-> Producer("human", "human.dev"), tester |-> Producer("tool", "ci"), tested |-> "pass",
   deps |-> <<"tests">>, revision |-> "sha256:1", scope |-> {"src"}, independent |-> TRUE]

\* One thing after the other is wrong with a change, with its duties or with its approval.
Amiss(c) ==
  {[c EXCEPT !.changes[1] = x] :
     x \in {[c.changes[1] EXCEPT !.status = "closed"], [c.changes[1] EXCEPT !.transition = None],
            [c.changes[1] EXCEPT !.status = "closed", !.transition = [from |-> "completed", to |-> "closed", evidence |-> <<"review">>],
                                 !.closure = <<"review">>],
            [c.changes[1] EXCEPT !.required = << >>], [c.changes[1] EXCEPT !.roles = <<Plain("owner"), Plain("second")>>],
            [c.changes[1] EXCEPT !.roles = <<Plain("ai_agent")>>], [c.changes[1] EXCEPT !.binding = None],
            [c.changes[1] EXCEPT !.scope = <<"src", "docs">>], [c.changes[1] EXCEPT !.exceptions = <<"x9">>],
            [c.changes[1] EXCEPT !.invalidated = {"revision_change"}], [c.changes[1] EXCEPT !.tier = "critical"],
            [c.changes[1] EXCEPT !.tier = "low"], [c.changes[1] EXCEPT !.tier = "severe"],
            [c.changes[1] EXCEPT !.irreversible = TRUE, !.authority = Plain("owner"), !.rollback = TRUE, !.plan = "plan"],
            [c.changes[1] EXCEPT !.irreversible = TRUE, !.authority = Plain("ai_agent")],
            [c.changes[1] EXCEPT !.impact = "major"], [c.changes[1] EXCEPT !.duty = None], [c.changes[1] EXCEPT !.id = IllTyped],
            [c.changes[1] EXCEPT !.approvals = <<"other">>], [c.changes[1] EXCEPT !.approvals = << >>]}}
  \cup {[c EXCEPT !.duties[1] = x] :
     x \in {[c.duties[1] EXCEPT !.subject = "c9"], [c.duties[1] EXCEPT !.subject = IllTyped], [c.duties[1] EXCEPT !.author = Plain("ai_agent")],
            [c.duties[1] EXCEPT !.approvers = << >>], [c.duties[1] EXCEPT !.approvers = <<Human("owner"), Actor("user", "Owner")>>],
            [c.duties[1] EXCEPT !.approvers = <<Plain("ai_agent")>>], [c.duties[1] EXCEPT !.producers = << >>],
            [c.duties[1] EXCEPT !.producers = <<Human("stranger")>>], [c.duties[1] EXCEPT !.producers = <<Human("owner")>>],
            [c.duties[1] EXCEPT !.releaseRequester = Human("owner"), !.releaseApprover = Actor("user", "Owner")]}}
  \cup {[c EXCEPT !.approvals[1].source = x] :
     x \in {[c.approvals[1].source EXCEPT !.denied = <<Plain("ai_agent")>>], [c.approvals[1].source EXCEPT !.actions = <<"change:c1", "release">>],
            [c.approvals[1].source EXCEPT !.actions = <<"change:c1", "release">>, !.expiresAt = None],
            [c.approvals[1].source EXCEPT !.revision = None], [c.approvals[1].source EXCEPT !.expiresAt = BadTime],
            [c.approvals[1].source EXCEPT !.required = <<Plain("owner"), Plain("second")>>], [c.approvals[1].source EXCEPT !.authority = None],
            [c.approvals[1].source EXCEPT !.evidence = <<"absent">>], [c.approvals[1].source EXCEPT !.invalidation = << >>]}}
  \cup {[c EXCEPT !.duties = << >>], [c EXCEPT !.duties = None], [c EXCEPT !.duties = @ \o @], [c EXCEPT !.changes = @ \o @],
        [c EXCEPT !.approvals = << >>], [c EXCEPT !.architecture = "sha256:2"], [c EXCEPT !.architecture = IllTyped],
        [c EXCEPT !.evidence = None],
        [c EXCEPT !.approvals = @ \o <<Approval("freeze", <<"change:c1">>, <<"grant">>, "sha256:2", <<{"src"}, {}>>)>>]}
  \cup {[c EXCEPT !.evidence.records[1] = x] :
     x \in {[c.evidence.records[1] EXCEPT !.hash = "forged"], [c.evidence.records[1] EXCEPT !.artifact = "nowhere"],
            [c.evidence.records[1] EXCEPT !.revision = "sha256:2"], [c.evidence.records[1] EXCEPT !.expires = 4],
            [c.evidence.records[1] EXCEPT !.generated = 6], [c.evidence.records[1] EXCEPT !.generated = None],
            [c.evidence.records[1] EXCEPT !.id = "review"], [c.evidence.records[1] EXCEPT !.deps = <<"review">>],
            [c.evidence.records[1] EXCEPT !.producer = IllTyped], [c.evidence.records[1] EXCEPT !.artifact = "review"]}}
  \cup {[c EXCEPT !.changes[1].roles = <<Plain("owner"), Human("second")>>, !.duties[1].approvers = <<Human("owner"), b>>,
                  !.approvals[1].source.eligible = @ \o <<Human("second")>>] : b \in {Human("second"), Actor("person", "dev"), Human("owner")}}
  \cup {[c EXCEPT !.changes[1].required = @ \o <<IllTyped>>]}
  \cup {[c EXCEPT !.evidence.records = @ \o <<[Evidence("again", "peer_review", <<"tests">>, Producer("human", id)) EXCEPT !.status = s]>>] :
          id \in {"human.dev", "human.owner"}, s \in {"pass", "fail"}}

(***************************************************************************)
(* Exceptions: one, its renewal and perhaps a third.                       *)
(***************************************************************************)
Exceptions ==
  [requester : {Human("dev"), Actor("user", "Owner")},
   first : {[status |-> "closed", expires |-> 3], [status |-> "active", expires |-> 6], [status |-> "requested", expires |-> 3]},
   used : {<<"review">>, <<"renewal">>},
   starts : {2, 4},
   scope : {<<"src">>, <<"src", "docs">>},
   renewal : {<<"renewal">>, <<"review">>, << >>},
   approved : {[producer |-> Producer("human", "human.owner"), generated |-> 2], [producer |-> Producer("human", "human.owner"), generated |-> 0],
               [producer |-> Producer("human", "human.dev"), generated |-> 2]},
   third : {"none", "beside", "fork", "after"}]

Entry(id, starts, expires, status) ==
  [id |-> id, control |-> "lint", scope |-> <<"src">>, requester |-> Human("dev"), approver |-> Human("owner"),
   owner |-> Human("lead"), evidence |-> <<"review">>, closure |-> <<"closing">>, starts |-> starts, expires |-> expires,
   status |-> status, policy |-> "manual_reapproval", renews |-> None, renewal |-> None]
Third(v) ==
  CASE v.third = "none" -> << >>
    [] v.third = "beside" -> <<[Entry("x3", 6, 9, "approved") EXCEPT !.scope = <<"src", "tests">>]>>
    [] v.third = "fork" -> <<[Entry("x3", 8, 9, "approved") EXCEPT !.renews = "x1", !.renewal = <<"renewal2">>]>>
    [] v.third = "after" -> <<[Entry("x3", 8, 9, "approved") EXCEPT !.renews = "x2", !.renewal = <<"renewal2">>]>>
ExceptionContract(v) ==
  [Empty EXCEPT
     !.evidence = [revision |-> "sha256:1",
                   records |-> <<Evidence("review", "peer_review", << >>, Producer("tool", "ci")),
                                 Evidence("closing", "closure", << >>, Producer("tool", "ci")),
                                 [Evidence("renewal", "approval_record", << >>, v.approved.producer) EXCEPT !.generated = v.approved.generated],
                                 [Evidence("renewal2", "approval_record", << >>, Producer("human", "human.owner")) EXCEPT !.generated = 4]>>],
     !.approvals = <<Approval("renewing", <<"renew_exception:x2">>, IF v.renewal = << >> THEN <<"renewal">> ELSE v.renewal, "sha256:1", None),
                     Approval("again", <<"renew_exception:x3">>, <<"renewal2">>, "sha256:1", None)>>,
     !.exceptions = <<[Entry("x1", 1, v.first.expires, v.first.status) EXCEPT !.evidence = v.used],
                      [Entry("x2", v.starts, 8, "active") EXCEPT
                         !.requester = v.requester, !.scope = v.scope, !.renews = "x1", !.renewal = v.renewal]>> \o Third(v)]

PlainExceptions ==
  [requester |-> Human("dev"), first |-> [status |-> "closed", expires |-> 3], used |-> <<"review">>, starts |-> 4, scope |-> <<"src">>,
   renewal |-> <<"renewal">>, approved |-> [producer |-> Producer("human", "human.owner"), generated |-> 2], third |-> "after"]

AmissExceptions(c) ==
  {[c EXCEPT !.exceptions[2] = x] :
     x \in {[c.exceptions[2] EXCEPT !.id = IllTyped], [c.exceptions[2] EXCEPT !.id = "x1"], [c.exceptions[2] EXCEPT !.control = IllTyped],
            [c.exceptions[2] EXCEPT !.control = "core_denial"], [c.exceptions[2] EXCEPT !.control = "builtin_rule"],
            [c.exceptions[2] EXCEPT !.control = "other"], [c.exceptions[2] EXCEPT !.scope = << >>],
            [c.exceptions[2] EXCEPT !.approver = IllTyped], [c.exceptions[2] EXCEPT !.approver = Plain("ai_agent")],
            [c.exceptions[2] EXCEPT !.approver = Human("second")], [c.exceptions[2] EXCEPT !.evidence = <<"absent">>],
            [c.exceptions[2] EXCEPT !.starts = IllTyped], [c.exceptions[2] EXCEPT !.expires = None], [c.exceptions[2] EXCEPT !.expires = 3],
            [c.exceptions[2] EXCEPT !.starts = 6], [c.exceptions[2] EXCEPT !.status = "expired"], [c.exceptions[2] EXCEPT !.status = "open"],
            [c.exceptions[2] EXCEPT !.status = "closed", !.closure = << >>], [c.exceptions[2] EXCEPT !.renews = "x3"],
            [c.exceptions[2] EXCEPT !.renews = "x2"], [c.exceptions[2] EXCEPT !.renews = "x9"], [c.exceptions[2] EXCEPT !.renews = None],
            [c.exceptions[2] EXCEPT !.renews = IllTyped], [c.exceptions[2] EXCEPT !.renewal = <<"renewal2">>],
            [c.exceptions[2] EXCEPT !.policy = "none"], [c.exceptions[2] EXCEPT !.closure = <<"closing", "closing">>]}}
  \cup {[c EXCEPT !.exceptions[1] = x] :
          x \in {[c.exceptions[1] EXCEPT !.policy = "none"], [c.exceptions[1] EXCEPT !.status = "rejected"],
                 [c.exceptions[1] EXCEPT !.renews = "x2"], [c.exceptions[1] EXCEPT !.control = "other"]}}
  \cup {[c EXCEPT !.exceptions = None]}
  \cup {[c EXCEPT !.exceptions[1].evidence = <<type>>, !.evidence.records = @ \o more] :
          type \in {"approval_record", "note"},
          more \in {<< >>, <<Evidence("again", "note", << >>, Producer("tool", "ci"))>>,
                    <<Evidence("approval_record", "note", << >>, Producer("tool", "ci"))>>,
                    <<[Evidence("again", "note", <<"renewal">>, Producer("tool", "ci")) EXCEPT !.status = "fail"]>>,
                    <<Evidence("again", "note", <<"renewal">>, Producer("tool", "ci"))>>}}
BuiltinModule ==
  [tier |-> "builtin",
   payload |-> [id |-> "core", name |-> "core", checks |-> {"change_control.v1"}, rules |-> <<[id |-> "builtin_rule"]>>,
                policies |-> << >>, evidence |-> << >>, approvals |-> << >>, evaluations |-> << >>]]

(***************************************************************************)
(* A network: i1 delegates to i2, i2 to i3, and a mission is handed to i3. *)
(***************************************************************************)
\* Either the chain of the delegations varies, or what they rest on does.
Networks ==
  [first : {[actions |-> a, status |-> s, onward |-> o] : a \in {{"read"}, {"read", "write"}}, s \in {"active", "expired"},
                                                         o \in {"allowed_with_policy", "denied"}},
   actions : {{"read"}, {"read", "write"}},
   until : {7, 9},
   link : {[parent |-> "d1", depth |-> 1], [parent |-> None, depth |-> 0], [parent |-> "d2", depth |-> 1], [parent |-> "d1", depth |-> 0]},
   second : {{"deploy"}}, third : {{}},
   handed : {[capabilities |-> {"deploy"}, delegations |-> {"d2"}]},
   revoked : {None, <<"delegation", "d1">>}]
  \cup
  [first : {[actions |-> {"read", "write"}, status |-> "active", onward |-> "allowed_with_policy"]},
   actions : {{"read"}},
   until : {7},
   link : {[parent |-> "d1", depth |-> 1]},
   second : {{}, {"deploy"}}, third : {{}, {"deploy"}},
   handed : {[capabilities |-> {"deploy"}, delegations |-> {"d2"}], [capabilities |-> {"deploy"}, delegations |-> {}],
             [capabilities |-> {}, delegations |-> {"d1"}]},
   revoked : {None, <<"delegation", "d2">>, <<"membership", "m2">>, Assignment("agent_identity", "i2", "deploy"),
              Assignment("membership", "m3", "deploy")}]

Identity(id, capabilities) ==
  [id |-> id, subject |-> id, bindings |-> {id}, role |-> "worker", capabilities |-> capabilities, revocations |-> {},
   mayApprove |-> FALSE, status |-> "active", from |-> 0, until |-> 9]
Membership(id, identity, capabilities) ==
  [id |-> id, identity |-> identity, zone |-> "z1", capabilities |-> capabilities, revocations |-> {},
   status |-> "authorized", from |-> 0, until |-> 9]
Delegation(id, delegator, delegate, actions, until, parent, depth) ==
  [id |-> id, delegator |-> delegator, delegate |-> delegate, capability |-> "deploy", source |-> "z1", target |-> "z1",
   actions |-> actions, scopes |-> {"repo"}, maxDepth |-> 2, depth |-> depth, parent |-> parent, onward |-> "denied",
   status |-> "active", from |-> 1, until |-> until, gates |-> {}, revocations |-> {}, approvals |-> {NetworkApproval},
   evidence |-> {ContractReview}, policies |-> {"policy"}]
Capability ==
  [id |-> "deploy", scopes |-> <<"repo">>, scopedToContexts |-> TRUE, delegable |-> TRUE, depth |-> 2, gates |-> {},
   approvals |-> {}, evidence |-> {}, risk |-> "medium", actions |-> {"read", "write"}]
Gate ==
  [id |-> "g1", sources |-> {"z1"}, targets |-> {"z2"}, actions |-> {"external_share", "read", "write", "delegate", "handoff"},
   approvals |-> {NetworkApproval}, evidence |-> {ContractReview}, policies |-> {"policy"}]
Zones ==
  <<[id |-> "z1", class |-> "internal", targets |-> {"z2"}, ingress |-> {}, egress |-> {"g1"}, share |-> {"summary", "notes"}, never |-> {}],
    [id |-> "z2", class |-> "external", targets |-> {}, ingress |-> {"g1"}, egress |-> {}, share |-> {"summary"}, never |-> Sensitive]>>
Protocol ==
  [id |-> "p1", identities |-> {"i1"}, memberships |-> {"m1"}, capabilities |-> {"deploy"}, gates |-> {"g1"}, source |-> "z1",
   target |-> "z2", approvals |-> {NetworkApproval}, evidence |-> {ContractReview}, share |-> <<"summary">>, never |-> Sensitive]
Handoff(h) ==
  [id |-> "h1", source |-> "i1", target |-> "i3", sourceZone |-> "z1", targetZone |-> "z1", mission |-> "ship",
   delegations |-> h.delegations, capabilities |-> h.capabilities, share |-> {"summary"}, never |-> Sensitive, status |-> "initiated",
   successor |-> None, from |-> 1, until |-> 9, gates |-> {}, revocations |-> {}, approvals |-> {}, evidence |-> {}, policies |-> {}]
Relation(type, sourceKind, source, targetKind, target) ==
  [id |-> "r1", type |-> type, source |-> [kind |-> sourceKind, ref |-> source], target |-> [kind |-> targetKind, ref |-> target],
   delegation |-> None, handoff |-> None, protocol |-> None, share |-> {}]
Revocation(target, at) ==
  [id |-> "v1", target |-> target, at |-> at, approvals |-> {NetworkApproval}, evidence |-> {ContractReview}]

NetworkDocument(v) ==
  [Empty EXCEPT
     !.evidence = [revision |-> "sha256:1",
                   records |-> <<Evidence(ApprovalRecord, "approval_record", << >>, Producer("human", "human.owner")),
                                 Evidence(ContractReview, "agentic_review", << >>, Producer("tool", "ci"))>>],
     !.approvals = <<Approval(NetworkApproval, <<"external_share", "delegate", "handoff">>, <<ApprovalRecord>>, "sha256:1", None)>>,
     !.identities = <<Identity("i1", {"deploy"}), Identity("i2", v.second), Identity("i3", v.third)>>,
     !.capabilities = <<Capability>>,
     !.network =
       [id |-> "n1", revision |-> "sha256:1", zones |-> Zones,
        memberships |-> <<Membership("m1", "i1", {"deploy"}), Membership("m2", "i2", v.second), Membership("m3", "i3", v.third)>>,
        protocols |-> <<Protocol>>, gates |-> <<Gate>>,
        revocations |-> IF v.revoked = None THEN << >> ELSE <<Revocation(v.revoked, 4)>>,
        delegations |-> <<[Delegation("d1", "i1", "i2", v.first.actions, 8, None, 0) EXCEPT !.status = v.first.status, !.onward = v.first.onward],
                          Delegation("d2", "i2", "i3", v.actions, v.until, v.link.parent, v.link.depth)>>,
        handoffs |-> <<Handoff(v.handed)>>,
        relations |-> <<[Relation("delegates_to", "agent_identity", "i2", "agent_identity", "i3") EXCEPT !.delegation = "d2"]>>,
        transport |-> {}]]

PlainNetwork ==
  [first |-> [actions |-> {"read", "write"}, status |-> "active", onward |-> "allowed_with_policy"], actions |-> {"read"}, until |-> 7,
   link |-> [parent |-> "d1", depth |-> 1], second |-> {"deploy"}, third |-> {},
   handed |-> [capabilities |-> {"deploy"}, delegations |-> {"d2"}], revoked |-> None]

\* Chains of three, to i4: what the third gives against what the first does, and links that go astray.
Chains ==
  [second : {[actions |-> a, until |-> u, parent |-> p, onward |-> o] :
               a \in {{"read"}, {"read", "write"}}, u \in {7, 8}, p \in {"d1", "d3"}, o \in {"allowed_with_policy", "denied"}},
   third : {[actions |-> a, until |-> u] : a \in {{"read"}, {"read", "write"}}, u \in {7, 8}},
   link : {[parent |-> "d2", depth |-> 2], [parent |-> "d2", depth |-> 1], [parent |-> "d1", depth |-> 2],
           [parent |-> "d1", depth |-> 1], [parent |-> "d3", depth |-> 2]}]
ChainDocument(v) ==
  LET c == NetworkDocument([PlainNetwork EXCEPT !.third = {"deploy"}])
      d == c.network.delegations
      chain == <<[d[1] EXCEPT !.actions = {"read"}],
                 [d[2] EXCEPT !.actions = v.second.actions, !.until = v.second.until, !.parent = v.second.parent, !.onward = v.second.onward],
                 Delegation("d3", "i3", "i4", v.third.actions, v.third.until, v.link.parent, v.link.depth)>>
  IN [c EXCEPT !.identities = @ \o <<Identity("i4", {})>>,
               !.capabilities[1].depth = 3,
               !.network.memberships = @ \o <<Membership("m4", "i4", {})>>,
               !.network.delegations = [i \in 1..3 |-> [chain[i] EXCEPT !.maxDepth = 3]]]

NetworkComposition ==
  [checks |-> {DelegationCheck, FoundationCheck}, modules |-> {[id |-> "agentic", version |-> 1]},
   approvals |-> {[id |-> NetworkApproval, required |-> {Plain("owner")}, eligible |-> {Plain("owner"), Plain("second")},
                   authority |-> Plain("owner"), expiresAfter |-> 8]},
   evidence |-> {[id |-> ContractReview, type |-> "agentic_review"]}, policies |-> {"policy"}]

With(c, collection, i, records) == {[c EXCEPT !.network[collection][i] = x] : x \in records}
Relations ==
  {[Relation("delegates_to", "agent_identity", "i1", "agent_identity", "i3") EXCEPT !.delegation = "d2"],
   [Relation("delegates_to", "agent_identity", "i1", "agent_identity", "i3") EXCEPT !.delegation = "d9"],
   Relation("delegates_to", "agent_identity", "i1", "agent_identity", "i3"),
   [Relation("hands_off_to", "agent_identity", "i1", "agent_identity", "i3") EXCEPT !.handoff = "h1"],
   [Relation("hands_off_to", "agent_identity", "i1", "agent_identity", "i3") EXCEPT !.handoff = "h9", !.delegation = "d2"],
   Relation("hands_off_to", "agent_identity", "i1", "agent_identity", "i1"),
   Relation("identifies", "agent_identity", "i1", "membership", "m1"), Relation("identifies", "agent_identity", "i2", "membership", "m1"),
   Relation("identifies", "agent_identity", "i1", "protocol_target", "p1"), Relation("owns", "agent_identity", "i1", "trust_zone", "z9"),
   Relation("owns", "membership", "m1", "capability", "deploy"), Relation("owns", "robot", "i1", "capability", "deploy"),
   Relation("advertises_capability", "agent_identity", "i3", "capability", "deploy"),
   Relation("advertises_capability", "protocol_target", "p1", "capability", "deploy"),
   [Relation("communicates_with", "agent_identity", "i2", "protocol_target", "p1") EXCEPT !.protocol = "p1"],
   [Relation("communicates_with", "agent_identity", "i1", "protocol_target", "p1") EXCEPT !.protocol = "p9"],
   Relation("communicates_with", "agent_identity", "i1", "agent_identity", "i2"),
   Relation("crosses_trust_zone", "agent_identity", "i1", "trust_zone", "z2"), Relation("crosses_trust_zone", "membership", "m1", "trust_zone", "z1"),
   Relation("crosses_trust_zone", "protocol_target", "p1", "trust_zone", "z2"),
   [Relation("shares_with", "agent_identity", "i1", "trust_zone", "z2") EXCEPT !.share = {"summary"}],
   [Relation("shares_with", "agent_identity", "i1", "trust_zone", "z2") EXCEPT !.share = {"notes", "tokens"}],
   Relation("requires_approval_from", "delegation", "d1", "human_role", Plain("owner")),
   Relation("revokes", "revocation", "v1", "delegation", "d1"), Relation("revokes", "revocation", "v1", "membership", "m2"),
   Relation("observed_by", "handoff", "h1", "human_role", Plain("owner")), Relation("likes", "agent_identity", "i1", "agent_identity", "i2")}

AmissNetworks(c) ==
  LET n == c.network
      d == n.delegations
      h == n.handoffs[1]
  IN With(c, "relations", 1, Relations)
     \cup With(c, "delegations", 1,
            {[d[1] EXCEPT !.delegator = "i9"], [d[1] EXCEPT !.delegate = "i1"], [d[1] EXCEPT !.capability = "other"],
             [d[1] EXCEPT !.actions = {}], [d[1] EXCEPT !.actions = {"erase"}], [d[1] EXCEPT !.scopes = {"tokens"}], [d[1] EXCEPT !.maxDepth = 3],
             [d[1] EXCEPT !.maxDepth = None], [d[1] EXCEPT !.maxDepth = 1], [d[1] EXCEPT !.depth = 1], [d[1] EXCEPT !.parent = "d9"],
             [d[1] EXCEPT !.parent = "d2"], [d[1] EXCEPT !.target = "z2"], [d[1] EXCEPT !.target = "z2", !.gates = {"g1"}],
             [d[1] EXCEPT !.source = "z9"], [d[1] EXCEPT !.gates = {"g9"}], [d[1] EXCEPT !.from = 6], [d[1] EXCEPT !.until = 3],
             [d[1] EXCEPT !.until = None], [d[1] EXCEPT !.until = 1], [d[1] EXCEPT !.revocations = {"v9"}], [d[1] EXCEPT !.policies = {"none"}]})
     \cup With(c, "delegations", 2, {[d[2] EXCEPT !.status = "expired"], [d[2] EXCEPT !.until = 5], [d[2] EXCEPT !.from = 6]})
     \cup With(c, "handoffs", 1,
            {[h EXCEPT !.source = "i9"], [h EXCEPT !.target = "i1"], [h EXCEPT !.mission = "other"], [h EXCEPT !.capabilities = {"other"}],
             [h EXCEPT !.delegations = {"d1"}], [h EXCEPT !.delegations = {"d9"}], [h EXCEPT !.share = {"tokens"}], [h EXCEPT !.share = {"other"}],
             [h EXCEPT !.targetZone = "z2"], [h EXCEPT !.status = "superseded"], [h EXCEPT !.status = "superseded", !.successor = "h1"],
             [h EXCEPT !.status = "completed", !.successor = "h2"], [h EXCEPT !.from = 6], [h EXCEPT !.until = 5]})
     \cup With(c, "zones", 1, {[n.zones[1] EXCEPT !.targets = {}], [n.zones[1] EXCEPT !.targets = {"z9"}], [n.zones[1] EXCEPT !.egress = {}],
                               [n.zones[1] EXCEPT !.share = {}]})
     \cup With(c, "zones", 2, {[n.zones[2] EXCEPT !.ingress = {}], [n.zones[2] EXCEPT !.never = {}], [n.zones[2] EXCEPT !.share = {}],
                               [n.zones[2] EXCEPT !.id = "z1"]})
     \cup With(c, "memberships", 1, {[n.memberships[1] EXCEPT !.identity = "i9"], [n.memberships[1] EXCEPT !.zone = "z2"],
                                     [n.memberships[1] EXCEPT !.capabilities = {"other"}], [n.memberships[1] EXCEPT !.status = "suspended"],
                                     [n.memberships[1] EXCEPT !.until = 5], [n.memberships[1] EXCEPT !.revocations = {"v9"}]})
     \cup With(c, "protocols", 1, {[Protocol EXCEPT !.gates = {}], [Protocol EXCEPT !.gates = {"g9"}], [Protocol EXCEPT !.memberships = {}],
                                   [Protocol EXCEPT !.identities = {"i3"}], [Protocol EXCEPT !.share = <<"notes", "notes">>],
                                   [Protocol EXCEPT !.share = <<"other">>], [Protocol EXCEPT !.never = {}], [Protocol EXCEPT !.approvals = {}],
                                   [Protocol EXCEPT !.evidence = {"absent"}], [Protocol EXCEPT !.target = "z1"]})
     \cup With(c, "gates", 1, {[Gate EXCEPT !.sources = {}], [Gate EXCEPT !.targets = {}], [Gate EXCEPT !.actions = {"read"}],
                               [Gate EXCEPT !.approvals = {}], [Gate EXCEPT !.evidence = {}], [Gate EXCEPT !.policies = {"none"}]})
     \cup {[c EXCEPT !.capabilities[1] = x] :
            x \in {[Capability EXCEPT !.scopes = <<"repo", "repo">>], [Capability EXCEPT !.scopes = <<"team">>], [Capability EXCEPT !.scopes = <<"moon">>],
                   [Capability EXCEPT !.scopedToContexts = FALSE], [Capability EXCEPT !.delegable = FALSE], [Capability EXCEPT !.delegable = IllTyped],
                   [Capability EXCEPT !.depth = None], [Capability EXCEPT !.risk = "high"], [Capability EXCEPT !.gates = {"g1"}, !.risk = "high"],
                   [Capability EXCEPT !.gates = {"g9"}], [Capability EXCEPT !.approvals = {"absent"}]}}
     \cup {[c EXCEPT !.identities[1] = x] :
            x \in {[c.identities[1] EXCEPT !.role = "boss"], [c.identities[1] EXCEPT !.subject = "i2"], [c.identities[1] EXCEPT !.bindings = {"i2"}],
                   [c.identities[1] EXCEPT !.mayApprove = TRUE], [c.identities[1] EXCEPT !.status = "suspended"], [c.identities[1] EXCEPT !.from = 6],
                   [c.identities[1] EXCEPT !.capabilities = {"deploy", "other"}], [c.identities[1] EXCEPT !.id = "i2"],
                   [c.identities[1] EXCEPT !.revocations = {"v1"}]}}
     \cup {[c EXCEPT !.network.revocations = <<x>>] :
            x \in {Revocation(<<"agent_identity", "i1">>, 4), Revocation(<<"agent_identity", "i9">>, 4), Revocation(<<"protocol_target", "p1">>, 4),
                   Revocation(<<"handoff", "h1">>, 4), Revocation(<<"delegation", "d1">>, 6), Revocation(<<"delegation", "d1">>, 4),
                   Revocation(None, None), Revocation(<<"approval_record", ApprovalRecord>>, 4)}}
     \cup {[c EXCEPT !.network[f] = IllTyped] : f \in {"delegations", "handoffs", "relations"}}
     \cup {[c EXCEPT !.network.delegations = None, !.network.handoffs = None, !.network.relations = << >>],
           [c EXCEPT !.network.delegations = d \o d], [c EXCEPT !.network.handoffs = @ \o @],
           [c EXCEPT !.network.relations = <<[@[1] EXCEPT !.id = "owner"], [@[1] EXCEPT !.id = "Owner"]>>], [c EXCEPT !.network.transport = {"zones"}],
           [c EXCEPT !.network = None]}

\* The revision and the authority that the network is bound to.
AmissAuthority(c) ==
  {[c EXCEPT !.network.revision = r] : r \in {None, "main", "v1", "sha256:2"}}
  \cup {[c EXCEPT !.evidence.records[1] = x] :
         x \in {[c.evidence.records[1] EXCEPT !.producer = Producer("tool", "ci")], [c.evidence.records[1] EXCEPT !.producer = Producer("human", "human.dev")],
                [c.evidence.records[1] EXCEPT !.status = "fail"], [c.evidence.records[1] EXCEPT !.generated = 6], [c.evidence.records[1] EXCEPT !.expires = 4],
                [c.evidence.records[1] EXCEPT !.expires = None], [c.evidence.records[1] EXCEPT !.expires = 20],
                [c.evidence.records[1] EXCEPT !.generated = 9], [c.evidence.records[1] EXCEPT !.type = "note"],
                [c.evidence.records[1] EXCEPT !.id = ContractReview]}}
  \cup {[c EXCEPT !.evidence.records = << >>], [c EXCEPT !.evidence.records = @ \o @], [c EXCEPT !.approvals = << >>]}
  \cup {[c EXCEPT !.approvals[1].source = x] :
         x \in {[c.approvals[1].source EXCEPT !.actions = <<"handoff">>], [c.approvals[1].source EXCEPT !.required = << >>],
                [c.approvals[1].source EXCEPT !.eligible = <<Plain("owner"), Plain("dev")>>], [c.approvals[1].source EXCEPT !.authority = Plain("second")],
                [c.approvals[1].source EXCEPT !.revision = None], [c.approvals[1].source EXCEPT !.expiresAt = None],
                [c.approvals[1].source EXCEPT !.revision = [exact |-> TRUE, revision |-> "sha256:2", scope |-> None]]}}

(***************************************************************************)
(* Scenarios.                                                              *)
(***************************************************************************)
NoFiles == [name \in Elements(DirectoryOrder) |-> Absent]
Scenario(contract, composed, requests) ==
  [document |-> contract, composition |-> composed, disk |-> Disk, artifacts |-> NoFiles, lock |-> Absent,
   documents |-> {}, compositions |-> {}, disks |-> {}, contents |-> {}, locks |-> {},
   requests |-> requests, commands |-> 1, edits |-> 0, crashes |-> FALSE]

Check(asOf) == {Requested("check", asOf)}
ReleaseComposition == [EmptyComposition EXCEPT !.checks = ReleaseChecks, !.evidence = {[id |-> "review", type |-> "peer_review"]}]
ExceptionComposition == [EmptyComposition EXCEPT !.checks = ExceptionChecks, !.modules = {BuiltinModule}]

StaticScenarios ==
  {Scenario(c, ReleaseComposition, Check(AsOf)) : c \in {ReleaseContract(v) : v \in Releases} \cup Amiss(ReleaseContract(PlainRelease))}
  \cup {Scenario(c, ExceptionComposition, Check(AsOf)) :
         c \in {ExceptionContract(v) : v \in Exceptions} \cup AmissExceptions(ExceptionContract(PlainExceptions))}
  \cup {Scenario(c, NetworkComposition, Check(AsOf)) :
         c \in {NetworkDocument(v) : v \in Networks} \cup {ChainDocument(v) : v \in Chains}
               \cup AmissNetworks(NetworkDocument(PlainNetwork)) \cup AmissAuthority(NetworkDocument(PlainNetwork))}
  \cup {Scenario(NetworkDocument(PlainNetwork), c, Check(AsOf)) :
         c \in {[NetworkComposition EXCEPT !.checks = {FoundationCheck}], [NetworkComposition EXCEPT !.checks = @ \cup {"architecture.v9"}],
                [NetworkComposition EXCEPT !.approvals = {}], [NetworkComposition EXCEPT !.evidence = {}]}}
  \cup {Scenario(c[1], c[2], Check(t)) :
         c \in {<<ReleaseContract(PlainRelease), ReleaseComposition>>, <<ExceptionContract(PlainExceptions), ExceptionComposition>>,
                <<NetworkDocument(PlainNetwork), NetworkComposition>>},
         t \in {None, BadTime, 0, 2, 8, 9}}
  \cup {[Scenario(ReleaseContract(PlainRelease), ReleaseComposition, Check(AsOf)) EXCEPT !.disk = None]}

(***************************************************************************)
(* Histories over one network.                                             *)
(***************************************************************************)
Contract == NetworkDocument(PlainNetwork)
\* The same records in another order, another contract, and one that is refused.
Reordered == [Contract EXCEPT !.identities = <<@[3], @[1], @[2]>>]
Changed == [Contract EXCEPT !.evidence.records[2].hash = "again"]
Unbound == [Contract EXCEPT !.network.revision = "main"]
Repacked == [NetworkComposition EXCEPT !.modules = {[id |-> "agentic", version |-> 2]}]

Generated(contract, version) ==
  [name \in Elements(DirectoryOrder) |->
     IF name \in Elements(ArtifactOrder) THEN File(Render(contract, NetworkComposition, version)[name]) ELSE Absent]
Locked(contract, version) == StoredLock(BuildLock(contract, NetworkComposition, version))
\* A lock that lists its first artifact twice, at first with another hash.
Doubled(lock) == [lock EXCEPT !.payload.artifacts = <<[@[1] EXCEPT !.hash = Torn]>> \o @]
Asking(names) == {Requested(n, AsOf) : n \in names}

Histories ==
  {[Scenario(Contract, NetworkComposition, Asking({"generate", "lock", "lock-check"})) EXCEPT
      !.documents = {Contract, Changed}, !.commands = 3, !.edits = 1],
   [Scenario(Contract, NetworkComposition, Asking({"generate", "lock"})) EXCEPT
      !.artifacts = Generated(Changed, CurrentVersion), !.commands = 2, !.crashes = TRUE],
   [Scenario(Contract, NetworkComposition, Asking({"lock", "lock-check"})) EXCEPT
      !.artifacts = Generated(Contract, CurrentVersion), !.lock = Locked(Contract, CurrentVersion),
      !.documents = {Reordered, Changed, Unbound}, !.compositions = {Repacked}, !.commands = 2, !.edits = 1],
   [Scenario(Contract, NetworkComposition, Asking({"generate", "lock-check"})) EXCEPT
      !.artifacts = Generated(Contract, "1.0"), !.lock = Locked(Contract, "1.0"),
      !.contents = {Absent, File(Torn), [kind |-> "link", content |-> Torn], [kind |-> "directory", content |-> None]},
      !.commands = 2, !.edits = 1],
   [Scenario(Contract, NetworkComposition, Asking({"lock", "lock-check"})) EXCEPT
      !.artifacts = Generated(Contract, CurrentVersion), !.lock = Absent,
      !.locks = {Locked(Contract, "0.9"), Locked(Changed, CurrentVersion), [kind |-> "link", payload |-> None],
                 [kind |-> "malformed", payload |-> None],
                 [Locked(Contract, CurrentVersion) EXCEPT !.payload.artifacts = <<@[3]>>], Doubled(Locked(Contract, CurrentVersion))},
      !.commands = 2, !.edits = 1],
   [Scenario(ReleaseContract(PlainRelease), ReleaseComposition, Check(AsOf)) EXCEPT
      !.disks = {[Disk EXCEPT !["tests"] = "forged"]}, !.documents = {ReleaseContract([PlainRelease EXCEPT !.deps = <<"absent">>])},
      !.commands = 2, !.edits = 2]}

MCScenarios == StaticScenarios \cup Histories
Symmetric == Permutations(Procs)
===============================================================================
