--------------------------- MODULE DependencyCycles ---------------------------
(***************************************************************************)
(* The search of checker.py for circular dependencies in a contract graph: *)
(* Tarjan's algorithm on an explicit work list, one step per turn of its   *)
(* inner loop.  Nodes are numbers, so that sorted() is their order.        *)
(***************************************************************************)
EXTENDS Naturals, Sequences, FiniteSets, SequencesExt, Functions

CONSTANT DependencyRelations  \* DEPENDENCY_GRAPH_RELATIONS

VARIABLES
  adjacency,   \* node -> set of its successors; empty before the search begins
  index, low,  \* node -> its number, its lowest reachable number
  stack,       \* the nodes of open components; on_stack is its range
  work,        \* sequence of [node, todo]: todo is the set of successors still to visit
  components   \* set of sets of nodes

searchVars == <<adjacency, index, low, stack, work, components>>

\* What sorted() visits next of the members of S that are left.
Foremost(S) == {n \in S : \A m \in S : n <= m}

\* Edges that take part: a dependency relation, and no self edge.
DependencyEdges(edges) ==
  {<<e.from, e.to>> : e \in {x \in edges : x.relation \in DependencyRelations /\ x.from # x.to}}

Adjacency(edges) ==
  [n \in UNION {{e[1], e[2]} : e \in DependencyEdges(edges)} |->
     {m \in Range([e \in DependencyEdges(edges) |-> e[2]]) : <<n, m>> \in DependencyEdges(edges)}]

Idle ==
  /\ adjacency = << >> /\ index = << >> /\ low = << >>
  /\ stack = << >> /\ work = << >> /\ components = {}

Forget ==
  /\ adjacency' = << >> /\ index' = << >> /\ low' = << >>
  /\ stack' = << >> /\ work' = << >> /\ components' = {}

Begin(edges) ==
  /\ adjacency' = Adjacency(edges)
  /\ UNCHANGED <<index, low, stack, work, components>>

\* The next number, given to a node.
Numbered(numbers, node) ==
  [n \in DOMAIN numbers \cup {node} |-> IF n = node THEN Cardinality(DOMAIN index) ELSE numbers[n]]

Discover(node, frames) ==
  /\ index' = Numbered(index, node)
  /\ low' = Numbered(low, node)
  /\ stack' = Append(stack, node)
  /\ work' = Append(frames, [node |-> node, todo |-> adjacency[node]])
  /\ UNCHANGED <<adjacency, components>>

\* for root in sorted(adjacency): the next root that has no number yet.
NextRoot ==
  /\ work = << >>
  /\ \E root \in Foremost(DOMAIN adjacency \ DOMAIN index) : Discover(root, << >>)

\* Mutant of Lowest: a successor whose component is closed is followed all the same.
LowestOfAll(node, successor) == IF index[successor] < low[node] THEN index[successor] ELSE low[node]

Lowest(node, successor) ==
  IF successor \in Range(stack) /\ index[successor] < low[node] THEN index[successor] ELSE low[node]

Follow ==
  /\ work # << >>
  /\ \E successor \in Foremost(Last(work).todo) :
       LET node == Last(work).node
           frames == [work EXCEPT ![Len(work)].todo = @ \ {successor}]
       IN \/ successor \notin DOMAIN index /\ Discover(successor, frames)
          \/ /\ successor \in DOMAIN index
             /\ work' = frames
             /\ low' = [low EXCEPT ![node] = Lowest(node, successor)]
             /\ UNCHANGED <<adjacency, index, stack, components>>

\* No successor is left: hand the low number to the parent and, at the root of
\* a component, pop the component off the stack.
Close ==
  /\ work # << >> /\ Last(work).todo = {}
  /\ LET node == Last(work).node
         frames == Front(work)
         base == CHOOSE i \in 1..Len(stack) : stack[i] = node
         component == {stack[i] : i \in base..Len(stack)}
         parent == Last(frames).node
     IN /\ work' = frames
        /\ low' = IF frames # << >> /\ low[node] < low[parent]
                  THEN [low EXCEPT ![parent] = low[node]] ELSE low
        /\ IF low[node] = index[node]
           THEN /\ stack' = SubSeq(stack, 1, base - 1)
                /\ components' = components \cup
                     (IF Cardinality(component) > 1 THEN {component} ELSE {})
           ELSE UNCHANGED <<stack, components>>
        /\ UNCHANGED <<adjacency, index>>

Search == NextRoot \/ Follow \/ Close

Searched == work = << >> /\ DOMAIN index = DOMAIN adjacency

(***************************************************************************)
(* The definition: a node depends on all that following edges from it can  *)
(* lead to, which is what every set has that contains its successors and   *)
(* those of its members.  A circular dependency is a set of nodes that all *)
(* depend on one another, themselves included, as large as possible.       *)
(***************************************************************************)
DependsOn(edges) ==
  LET E == DependencyEdges(edges)
      N == UNION {{e[1], e[2]} : e \in E}
      closed == {S \in SUBSET N : \A e \in E : e[1] \in S => e[2] \in S}
  IN {p \in N \X N : \A S \in closed : (\A e \in E : e[1] = p[1] => e[2] \in S) => p[2] \in S}

CircularDependencies(edges) ==
  LET D == DependsOn(edges)
  IN {{m \in Range([p \in D |-> p[2]]) : <<n, m>> \in D /\ <<m, n>> \in D}
        : n \in {p[1] : p \in {q \in D : q[1] = q[2]}}}
===============================================================================
