-------------------------- MODULE MCGovernanceKernel --------------------------
(***************************************************************************)
(* GovernanceKernel on a network of two agents: a holds "use" and "lend",  *)
(* b receives "lend" by delegation; a crosses from its zone to an external *)
(* zone under an approval, and to an internal one that no gate covers.     *)
(***************************************************************************)
EXTENDS GovernanceKernel

Base ==
  [identities |->
     [a |-> [active |-> TRUE, from |-> 0, until |-> 9, capabilities |-> {"use", "lend"}],
      b |-> [active |-> TRUE, from |-> 0, until |-> 9, capabilities |-> {"use"}]],
   capabilities |-> {"use", "lend"},
   memberships |->
     [ma |-> [identity |-> "a", zone |-> "home", capabilities |-> {"use", "lend"},
              authorized |-> TRUE, from |-> 0, until |-> 9],
      mb |-> [identity |-> "b", zone |-> "home", capabilities |-> {},
              authorized |-> TRUE, from |-> 0, until |-> 9]],
   zones |->
     [home |-> [external |-> FALSE, targets |-> {"yard", "out"}, allowlist |-> {"doc"}],
      yard |-> [external |-> FALSE, targets |-> {}, allowlist |-> {"doc", "pii"}],
      out  |-> [external |-> TRUE, targets |-> {}, allowlist |-> {}]],
   gates |-> {[sources |-> {"home"}, targets |-> {"out"}, approvals |-> {"net", "other"},
               actions |-> {"cross"}]},
   delegations |->
     [d |-> [delegator |-> "a", delegate |-> "b", capability |-> "lend", source |-> "home",
             target |-> "home", active |-> TRUE, from |-> 0, until |-> 9]],
   handoffs |->
     [h |-> [source |-> "a", target |-> "b", sourceZone |-> "home", targetZone |-> "home",
             capabilities |-> {"lend"}, delegations |-> {"d"}, status |-> "initiated",
             from |-> 0, until |-> 9]],
   revocations |-> {},
   approvals |->
     [net   |-> [roles |-> {"owner"}, authority |-> NoRef, actions |-> {"cross"},
                 denied |-> {"model"}, evidence |-> {"log"}, expires |-> NoTime, maxAge |-> 2,
                 binding |-> NoRef],
      other |-> [roles |-> {"guest", "owner"}, authority |-> NoRef, actions |-> {"cross"},
                 denied |-> {}, evidence |-> {}, expires |-> NoTime, maxAge |-> NoTime,
                 binding |-> NoRef]],
   revision |-> "r1"]

Revoking(target, at) == [Base EXCEPT !.revocations = {[target |-> target, at |-> at]}]
Candidates ==
  {Base, Revoking(IdentityTarget("a"), 3), Revoking(IdentityTarget("b"), 2),
   Revoking(MembershipTarget("ma"), 3), Revoking(DelegationTarget("d"), 2),
   [Base EXCEPT !.identities.b.until = 3], [Base EXCEPT !.memberships.ma.until = 2],
   [Base EXCEPT !.delegations.d.until = 3],
   [Base EXCEPT !.gates = {[g EXCEPT !.approvals = {}] : g \in @}]}
MCContracts == {c \in Candidates : Loadable(c, AsOf)}

\* Revocations that take effect after the contract was loaded, each of something else.
MCRevoked ==
  {c \in {Revoking(AssignmentTarget("agent_identity", "a", "use"), 2), Revoking(HandoffTarget("h"), 2)} :
     Loadable(c, AsOf)}

MCRequests ==
  {[kind |-> "capability", actor |-> x, capability |-> k] : x \in {"a", "b"}, k \in {"use", "lend"}}
    \cup {[kind |-> "delegation", id |-> "d"], [kind |-> "handoff", id |-> "h"]}
    \cup {[kind |-> "share", actor |-> "a", target |-> "b", source |-> "home", zone |-> "yard",
           categories |-> x] : x \in {{"doc"}, {"pii"}, {}}}

MCCrossings ==
  {[actor |-> "a", source |-> "home", zone |-> "yard", approval |-> NoRef]}
    \cup {[actor |-> "a", source |-> "home", zone |-> "out", approval |-> x] :
            x \in {NoRef, "net", "other"}}

MCRecords ==
  {[type |-> x.type, role |-> "owner", granted |-> TRUE, action |-> x.action, issued |-> NoTime, expires |-> NoTime,
    revision |-> NoRef, evidence |-> {}, given |-> FALSE] :
     x \in {[type |-> "human", action |-> NoRef], [type |-> "model", action |-> NoRef],
           [type |-> "human", action |-> "leave"]}}
=============================================================================
