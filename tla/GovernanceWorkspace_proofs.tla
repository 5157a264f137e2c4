----------------------- MODULE GovernanceWorkspace_proofs -----------------------
(***************************************************************************)
(* Proofs about the evaluation of rules, the composition of packs and the  *)
(* processes of a governance workspace, for any packs, documents, locks,   *)
(* histories and processes.                                                *)
(***************************************************************************)
EXTENDS GovernanceWorkspace, SequenceTheorems, WellFoundedInduction, TLAPS

(***************************************************************************)
(* Trails.                                                                 *)
(***************************************************************************)
\* A set that holds 0 and, with a number, the next one holds all numbers up to the last of these.
LEMMA UpTheLine ==
  ASSUME NEW n \in Nat, NEW S, 0 \in S, \A k \in 0..(n - 1) : k \in S => k + 1 \in S
  PROVE  \A k \in 0..n : k \in S
<1> DEFINE Outside == {k \in Nat : k <= n /\ k \notin S}
<1>1. SUFFICES ASSUME Outside # {} PROVE FALSE
  OBVIOUS
<1>2. Outside \subseteq Nat
  OBVIOUS
<1>3. PICK k \in Outside : \A j \in Outside : ~ (<<j, k>> \in OpToRel(<, Nat))
  BY <1>1, <1>2, WFMin, NatLessThanWellFounded
<1>4. k \in Nat /\ k <= n /\ k \notin S /\ k # 0
  OBVIOUS
<1>5. k - 1 \in Nat /\ k - 1 < k /\ k - 1 \in 0..(n - 1)
  BY <1>4
<1>6. k - 1 \notin Outside
  <2> HIDE DEF Outside
  <2> QED BY <1>3, <1>4, <1>5 DEF OpToRel
<1>7. (k - 1) + 1 \in S
  BY <1>4, <1>5, <1>6
<1> QED BY <1>4, <1>7

\* What a choice comes to, segment by segment.
LEMMA TrailMeans ==
  ASSUME NEW tree, NEW path, NEW choice, Len(path) \in Nat
  PROVE  LET trail == Trail(tree, path, choice)
         IN trail[0] = tree /\ \A k \in 1..Len(path) : trail[k] = Entered(trail[k - 1], path[k], choice[k])
<1> DEFINE F(f, m) == [k \in 0..m |-> IF k = 0 THEN tree ELSE Entered(f[k - 1], path[k], choice[k])]
           Solved == {m \in Nat : \E f : f = F(f, m)}
           n == Len(path)
           trail == CHOOSE f : f = F(f, n)
<1>1. 0 \in Solved
  <2> DEFINE f == [k \in 0..0 |-> tree]
  <2>1. f = F(f, 0)
    OBVIOUS
  <2> QED BY <2>1
<1>2. ASSUME NEW m \in 0..(n - 1), m \in Solved PROVE m + 1 \in Solved
  <2>1. PICK f : f = F(f, m)
    BY <1>2
  <2> DEFINE g == [k \in 0..(m + 1) |-> IF k = m + 1 THEN Entered(f[m], path[m + 1], choice[m + 1]) ELSE f[k]]
  <2>2. ASSUME NEW k \in 0..(m + 1)
        PROVE  g[k] = IF k = 0 THEN tree ELSE Entered(g[k - 1], path[k], choice[k])
    <3>1. CASE k = m + 1
      BY <3>1
    <3>2. CASE k # m + 1
      <4>1. k \in 0..m /\ g[k] = f[k] /\ (k # 0 => k - 1 \in 0..m /\ g[k - 1] = f[k - 1])
        BY <3>2
      <4>2. f[k] = IF k = 0 THEN tree ELSE Entered(f[k - 1], path[k], choice[k])
        <5>1. F(f, m)[k] = IF k = 0 THEN tree ELSE Entered(f[k - 1], path[k], choice[k])
          BY <4>1
        <5> HIDE DEF F
        <5> QED BY <2>1, <5>1
      <4> HIDE DEF g
      <4> QED BY <4>1, <4>2
    <3> QED BY <3>1, <3>2
  <2>3. g = F(g, m + 1)
    <3>1. g = [k \in 0..(m + 1) |-> g[k]]
      OBVIOUS
    <3> HIDE DEF g
    <3> QED BY <2>2, <3>1
  <2> HIDE DEF F
  <2> QED BY <2>3
<1>3. n \in Solved
  <2> HIDE DEF Solved, F
  <2>1. n \in Nat
    OBVIOUS
  <2>2. \A k \in 0..n : k \in Solved
    <3> HIDE DEF n
    <3> QED BY <1>1, <1>2, <2>1, UpTheLine
  <2> QED BY <2>1, <2>2
<1>4. trail = F(trail, n)
  <2> HIDE DEF F
  <2> QED BY <1>3
<1>5. Trail(tree, path, choice) = trail
  BY DEF Trail
<1> HIDE DEF trail
<1>6. \A k \in 0..n : F(trail, n)[k] = IF k = 0 THEN tree ELSE Entered(trail[k - 1], path[k], choice[k])
  OBVIOUS
<1>7. \A k \in 0..n : trail[k] = IF k = 0 THEN tree ELSE Entered(trail[k - 1], path[k], choice[k])
  <2> HIDE DEF F
  <2> QED BY <1>4, <1>6
<1> QED BY <1>5, <1>7

\* What resolution reaches, segment by segment.
LEMMA ReachedMeans ==
  ASSUME NEW tree, NEW path, Len(path) \in Nat
  PROVE  LET reached == Reached(tree, path)
         IN /\ reached[0] = [values |-> {[node |-> tree, binding |-> {}]}, errors |-> {}, walks |-> {}]
            /\ \A k \in 1..Len(path) : reached[k] = Advance(reached[k - 1], path, k)
<1> DEFINE start == [values |-> {[node |-> tree, binding |-> {}]}, errors |-> {}, walks |-> {}]
<1>0. Reached(tree, path) = CHOOSE f : f = [k \in 0..Len(path) |-> IF k = 0 THEN start ELSE Advance(f[k - 1], path, k)]
  BY DEF Reached
<1> HIDE DEF start
<1> DEFINE F(f, m) == [k \in 0..m |-> IF k = 0 THEN start ELSE Advance(f[k - 1], path, k)]
           Solved == {m \in Nat : \E f : f = F(f, m)}
           n == Len(path)
           reached == CHOOSE f : f = F(f, n)
<1>1. 0 \in Solved
  <2> DEFINE f == [k \in 0..0 |-> start]
  <2>1. f = F(f, 0)
    OBVIOUS
  <2> QED BY <2>1
<1>2. ASSUME NEW m \in 0..(n - 1), m \in Solved PROVE m + 1 \in Solved
  <2>1. PICK f : f = F(f, m)
    BY <1>2
  <2> DEFINE g == [k \in 0..(m + 1) |-> IF k = m + 1 THEN Advance(f[m], path, m + 1) ELSE f[k]]
  <2>2. ASSUME NEW k \in 0..(m + 1) PROVE g[k] = IF k = 0 THEN start ELSE Advance(g[k - 1], path, k)
    <3>1. CASE k = m + 1
      BY <3>1
    <3>2. CASE k # m + 1
      <4>1. k \in 0..m /\ g[k] = f[k] /\ (k # 0 => k - 1 \in 0..m /\ g[k - 1] = f[k - 1])
        BY <3>2
      <4>2. f[k] = IF k = 0 THEN start ELSE Advance(f[k - 1], path, k)
        <5>1. F(f, m)[k] = IF k = 0 THEN start ELSE Advance(f[k - 1], path, k)
          BY <4>1
        <5> HIDE DEF F
        <5> QED BY <2>1, <5>1
      <4> HIDE DEF g
      <4> QED BY <4>1, <4>2
    <3> QED BY <3>1, <3>2
  <2>3. g = F(g, m + 1)
    <3>1. g = [k \in 0..(m + 1) |-> g[k]]
      OBVIOUS
    <3> HIDE DEF g
    <3> QED BY <2>2, <3>1
  <2> HIDE DEF F
  <2> QED BY <2>3
<1>3. n \in Solved
  <2> HIDE DEF Solved, F
  <2>1. n \in Nat
    OBVIOUS
  <2>2. \A k \in 0..n : k \in Solved
    <3> HIDE DEF n
    <3> QED BY <1>1, <1>2, <2>1, UpTheLine
  <2> QED BY <2>1, <2>2
<1>4. reached = F(reached, n)
  <2> HIDE DEF F
  <2> QED BY <1>3
<1>5. Reached(tree, path) = reached
  BY <1>0
<1> HIDE DEF reached
<1>6. \A k \in 0..n : F(reached, n)[k] = IF k = 0 THEN start ELSE Advance(reached[k - 1], path, k)
  OBVIOUS
<1>7. \A k \in 0..n : reached[k] = IF k = 0 THEN start ELSE Advance(reached[k - 1], path, k)
  <2> HIDE DEF F
  <2> QED BY <1>4, <1>6
<1>8. reached[0] = start /\ \A k \in 1..n : reached[k] = Advance(reached[k - 1], path, k)
  BY <1>7
<1> QED BY <1>5, <1>8 DEF start

Closed(nodes) == \A node \in nodes : MadeOf(node, nodes)
IsPath(path) == Len(path) \in Nat /\ DOMAIN path = 1..Len(path)
Ends == {Void, Broken("RULE_PATH_TYPE_ERROR"), Broken("RULE_COLLECTION_TYPE_ERROR")}
Live(node) == node.t \notin {"void", "broken"}

\* A value of a document is of one of four types.
LEMMA NodeTypes ==
  ASSUME NEW nodes, Closed(nodes), NEW node \in nodes \cup {MissingNode}
  PROVE  /\ node.t \in {"missing", "map", "list", "scalar", "approval"} /\ Live(node)
         /\ node.t = "missing" => node = MissingNode
         /\ node.t = "map" => \A name \in DOMAIN node.f : node.f[name] \in nodes
         /\ node.t = "list" => /\ \A i \in DOMAIN node.s : i \in 1..MaxWidth /\ node.s[i] \in nodes
<1>1. CASE node = MissingNode
  BY <1>1 DEF MissingNode, Live
<1>2. CASE node \in nodes
  <2>1. MadeOf(node, nodes)
    BY <1>2 DEF Closed
  <2>2. node.t \in {"map", "list", "scalar", "approval"}
    BY <2>1 DEF MadeOf
  <2>3. node.t = "map" => \A name \in DOMAIN node.f : node.f[name] \in nodes
    BY <2>1 DEF MadeOf
  <2>4. node.t = "list" => node.s \in Seq(nodes) /\ Len(node.s) <= MaxWidth
    BY <2>1 DEF MadeOf
  <2>5. node.t = "list" => /\ \A i \in DOMAIN node.s : i \in 1..MaxWidth /\ node.s[i] \in nodes
    BY <2>4, NodesAssumption
  <2> QED BY <2>2, <2>3, <2>5 DEF Live
<1> QED BY <1>1, <1>2

\* A segment leads from a value to a value, or to an end.
LEMMA EnteredTyped ==
  ASSUME NEW nodes, Closed(nodes), NEW parent \in nodes \cup {MissingNode} \cup Ends, NEW segment, NEW index
  PROVE  Entered(parent, segment, index) \in nodes \cup {MissingNode} \cup Ends
<1> DEFINE child == IF parent.t = "map" /\ segment.name \in DOMAIN parent.f THEN parent.f[segment.name] ELSE MissingNode
<1>1. parent \in Ends => parent.t \in {"void", "broken"}
  BY DEF Ends, Void, Broken
<1>2. child \in nodes \cup {MissingNode}
  BY <1>1, NodeTypes
<1>3. child.t = "list" => \A i \in DOMAIN child.s : child.s[i] \in nodes
  <2> HIDE DEF child
  <2> QED BY <1>2, NodeTypes
<1>4. Entered(parent, segment, index) \in {parent, Broken("RULE_PATH_TYPE_ERROR"), child, Void, Broken("RULE_COLLECTION_TYPE_ERROR")}
        \/ (child.t = "list" /\ index \in DOMAIN child.s /\ Entered(parent, segment, index) = child.s[index])
  <2>1. Entered(parent, segment, index) =
          IF parent.t \in {"void", "broken"} THEN parent
          ELSE IF parent.t \notin {"missing", "map"} THEN Broken("RULE_PATH_TYPE_ERROR")
          ELSE IF ~ segment.collection THEN child
          ELSE CASE child.t = "missing" -> Void
                 [] child.t = "list" -> IF index \in DOMAIN child.s THEN child.s[index] ELSE Void
                 [] OTHER -> Broken("RULE_COLLECTION_TYPE_ERROR")
    BY DEF Entered
  <2> HIDE DEF child
  <2> QED BY <2>1
<1> HIDE DEF child
<1> QED BY <1>2, <1>3, <1>4 DEF Ends

\* So does every trail.
LEMMA TrailTyped ==
  ASSUME NEW nodes, Closed(nodes), NEW tree \in nodes, NEW path, IsPath(path), NEW c
  PROVE  \A k \in 0..Len(path) : Trail(tree, path, c)[k] \in nodes \cup {MissingNode} \cup Ends
<1> DEFINE n == Len(path)
           t == Trail(tree, path, c)
           S == {k \in 0..n : t[k] \in nodes \cup {MissingNode} \cup Ends}
<1>0. n \in Nat
  BY DEF IsPath
<1> HIDE DEF n, t
<1>1. t[0] = tree /\ \A k \in 1..n : t[k] = Entered(t[k - 1], path[k], c[k])
  BY <1>0, TrailMeans DEF n, t
<1>2. 0 \in S
  BY <1>0, <1>1
<1>3. ASSUME NEW k \in 0..(n - 1), k \in S PROVE k + 1 \in S
  <2>1. k + 1 \in 1..n /\ (k + 1) - 1 = k
    BY <1>0
  <2>2. t[k + 1] = Entered(t[k], path[k + 1], c[k + 1])
    BY <1>1, <2>1
  <2> QED BY <1>0, <1>3, <2>1, <2>2, EnteredTyped
<1> HIDE DEF S
<1>4. \A k \in 0..n : k \in S
  BY <1>0, <1>2, <1>3, UpTheLine
<1> QED BY <1>4 DEF S, n, t

\* What has ended stays as it ended.
LEMMA EndsStay ==
  ASSUME NEW tree, NEW path, IsPath(path), NEW c, NEW j \in 0..Len(path), ~ Live(Trail(tree, path, c)[j])
  PROVE  \A k \in j..Len(path) : Trail(tree, path, c)[k] = Trail(tree, path, c)[j]
<1> DEFINE n == Len(path)
           t == Trail(tree, path, c)
           S == {k \in 0..n : k >= j => t[k] = t[j]}
<1>0. n \in Nat
  BY DEF IsPath
<1> HIDE DEF n, t
<1>1. \A k \in 1..n : t[k] = Entered(t[k - 1], path[k], c[k])
  BY <1>0, TrailMeans DEF n, t
<1>2. 0 \in S /\ j \in 0..n
  BY <1>0 DEF n
<1>3. ASSUME NEW k \in 0..(n - 1), k \in S PROVE k + 1 \in S
  <2>1. k + 1 \in 1..n /\ k + 1 \in 0..n /\ (k + 1) - 1 = k
    BY <1>0
  <2>2. CASE k >= j
    <3>1. t[k] = t[j] /\ t[j].t \in {"void", "broken"}
      BY <1>3, <2>2 DEF Live, t
    <3>2. t[k + 1] = Entered(t[k], path[k + 1], c[k + 1])
      BY <1>1, <2>1
    <3>3. t[k + 1] = t[k]
      BY <3>1, <3>2 DEF Entered
    <3> QED BY <2>1, <3>1, <3>3
  <2>3. CASE ~ (k >= j)
    <3>1. k + 1 >= j => k + 1 = j
      BY <2>3, <1>2, <1>0
    <3> QED BY <2>1, <3>1
  <2> QED BY <2>2, <2>3
<1> HIDE DEF S
<1>4. \A k \in 0..n : k \in S
  BY <1>0, <1>2, <1>3, UpTheLine
<1> QED BY <1>0, <1>4 DEF S, n, t

\* What two choices take alike they come to alike.
LEMMA SameTrail ==
  ASSUME NEW tree, NEW path, IsPath(path), NEW c, NEW d, NEW k \in 0..Len(path), \A j \in 1..k : c[j] = d[j]
  PROVE  Trail(tree, path, c)[k] = Trail(tree, path, d)[k]
<1> DEFINE n == Len(path)
           t == Trail(tree, path, c)
           u == Trail(tree, path, d)
           S == {j \in 0..n : j <= k => t[j] = u[j]}
<1>0. n \in Nat /\ k \in 0..n
  BY DEF IsPath
<1> HIDE DEF n, t, u
<1>1. /\ t[0] = tree /\ \A j \in 1..n : t[j] = Entered(t[j - 1], path[j], c[j])
      /\ u[0] = tree /\ \A j \in 1..n : u[j] = Entered(u[j - 1], path[j], d[j])
  BY <1>0, TrailMeans DEF n, t, u
<1>2. 0 \in S
  BY <1>0, <1>1
<1>3. ASSUME NEW j \in 0..(n - 1), j \in S PROVE j + 1 \in S
  <2>1. j + 1 \in 1..n /\ j + 1 \in 0..n /\ (j + 1) - 1 = j
    BY <1>0
  <2>2. t[j + 1] = Entered(t[j], path[j + 1], c[j + 1]) /\ u[j + 1] = Entered(u[j], path[j + 1], d[j + 1])
    BY <1>1, <2>1
  <2>3. j + 1 <= k => j + 1 \in 1..k /\ j <= k
    BY <1>0, <2>1
  <2>4. j + 1 <= k => c[j + 1] = d[j + 1] /\ t[j] = u[j]
    BY <1>3, <2>3
  <2> QED BY <2>1, <2>2, <2>4
<1> HIDE DEF S
<1>4. \A j \in 0..n : j \in S
  BY <1>0, <1>2, <1>3, UpTheLine
<1> QED BY <1>0, <1>4 DEF S, t, u

\* The elements taken up to a segment.
LEMMA TakenStep ==
  ASSUME NEW path, NEW c, NEW k \in Nat \ {0}
  PROVE  Taken(path, c, k) = Taken(path, c, k - 1) \cup (IF path[k].collection THEN {<<Names(path, k), c[k]>>} ELSE {})
<1>1. 1..k = 1..(k - 1) \cup {k}
  OBVIOUS
<1> QED BY <1>1 DEF Taken

\* Choices that agree up to a segment take the same elements up to it.
LEMMA TakenSame ==
  ASSUME NEW path, NEW c, NEW d, NEW k \in Nat, \A j \in 1..k : c[j] = d[j]
  PROVE  Taken(path, c, k) = Taken(path, d, k)
<1>1. \A j \in {i \in 1..k : path[i].collection} : c[j] = d[j]
  OBVIOUS
<1> QED BY <1>1 DEF Taken

\* One segment from what a choice came to: what the choices that begin like it come to.
LEMMA DescendMeans ==
  ASSUME NEW nodes, Closed(nodes), NEW tree \in nodes, NEW path, IsPath(path), NEW c \in Readings(path),
         NEW k \in 1..Len(path), Live(Trail(tree, path, c)[k - 1])
  PROVE  LET walked == Descend([node |-> Trail(tree, path, c)[k - 1], binding |-> Taken(path, c, k - 1)], path, k)
             alike == {d \in Readings(path) : \A j \in 1..(k - 1) : d[j] = c[j]}
         IN /\ walked.values = {[node |-> Trail(tree, path, d)[k], binding |-> Taken(path, d, k)] :
                                  d \in {e \in alike : Live(Trail(tree, path, e)[k])}}
            /\ walked.errors = IF Trail(tree, path, c)[k].t = "broken"
                               THEN {[code |-> Trail(tree, path, c)[k].code, binding |-> Taken(path, c, k - 1)]} ELSE {}
<1> DEFINE node == Trail(tree, path, c)[k - 1]
           binding == Taken(path, c, k - 1)
           segment == path[k]
           child == IF node.t = "map" /\ segment.name \in DOMAIN node.f THEN node.f[segment.name] ELSE MissingNode
           prefix == Names(path, k)
           walked == Descend([node |-> node, binding |-> binding], path, k)
           alike == {d \in Readings(path) : \A j \in 1..(k - 1) : d[j] = c[j]}
           values == {[node |-> Trail(tree, path, d)[k], binding |-> Taken(path, d, k)] :
                         d \in {e \in alike : Live(Trail(tree, path, e)[k])}}
           errors == IF Trail(tree, path, c)[k].t = "broken"
                     THEN {[code |-> Trail(tree, path, c)[k].code, binding |-> binding]} ELSE {}
           Fails(code) == walked.values = {} /\ walked.errors = {[code |-> code, binding |-> binding]}
<1>1. Len(path) \in Nat /\ DOMAIN path = 1..Len(path) /\ k - 1 \in 0..Len(path) /\ k \in Nat \ {0} /\ k - 1 \in Nat
      /\ k \in DOMAIN path
  BY DEF IsPath
<1>2. node \in nodes \cup {MissingNode}
  <2>1. node \in nodes \cup {MissingNode} \cup Ends
    BY <1>1, TrailTyped
  <2>2. node \notin Ends
    BY DEF Ends, Void, Broken, Live
  <2> QED BY <2>1, <2>2
<1>3. \A d \in alike : Trail(tree, path, d)[k] = Entered(node, segment, d[k])
  <2>1. ASSUME NEW d \in alike PROVE Trail(tree, path, d)[k] = Entered(node, segment, d[k])
    <3>0. \A j \in 1..(k - 1) : d[j] = c[j]
      OBVIOUS
    <3>1. Trail(tree, path, d)[k - 1] = node
      <4> DEFINE l == k - 1
      <4>1. l \in 0..Len(path) /\ \A j \in 1..l : d[j] = c[j]
        BY <1>1, <3>0
      <4> HIDE DEF l
      <4>2. Trail(tree, path, d)[l] = Trail(tree, path, c)[l]
        BY <4>1, SameTrail
      <4> QED BY <4>2 DEF l
    <3>2. \A j \in 1..Len(path) : Trail(tree, path, d)[j] = Entered(Trail(tree, path, d)[j - 1], path[j], d[j])
      BY <1>1, TrailMeans
    <3> QED BY <3>1, <3>2
  <2> QED BY <2>1
<1>4. \A d \in alike : Taken(path, d, k) = binding \cup (IF segment.collection THEN {<<prefix, d[k]>>} ELSE {})
  <2>1. ASSUME NEW d \in alike
        PROVE  Taken(path, d, k) = binding \cup (IF segment.collection THEN {<<prefix, d[k]>>} ELSE {})
    <3>1. Taken(path, d, k - 1) = binding
      BY <1>1, TakenSame
    <3> QED BY <1>1, <3>1, TakenStep
  <2> QED BY <2>1
<1>5. c \in alike
  OBVIOUS
<1>6. node.t \in {"missing", "map", "list", "scalar", "approval"} /\ child \in nodes \cup {MissingNode}
  BY <1>2, NodeTypes
<1>7. /\ child.t \in {"missing", "map", "list", "scalar", "approval"} /\ Live(child)
      /\ child.t = "list" => \A i \in DOMAIN child.s : i \in 1..MaxWidth /\ child.s[i] \in nodes
  <2> HIDE DEF child
  <2> QED BY <1>6, NodeTypes
<1>8. /\ node.t \notin {"missing", "map"} => Fails("RULE_PATH_TYPE_ERROR")
      /\ node.t \in {"missing", "map"} =>
           /\ ~ segment.collection => walked.values = {[node |-> child, binding |-> binding]} /\ walked.errors = {}
           /\ segment.collection =>
                /\ child.t = "missing" => walked.values = {} /\ walked.errors = {}
                /\ child.t = "list" =>
                     /\ walked.values = {[node |-> child.s[i], binding |-> binding \cup {<<prefix, i>>}] : i \in DOMAIN child.s}
                     /\ walked.errors = {}
                /\ child.t \notin {"missing", "list"} => Fails("RULE_COLLECTION_TYPE_ERROR")
  <2> DEFINE other == IF node.t = "missing" \/ segment.name \notin DOMAIN node.f THEN MissingNode ELSE node.f[segment.name]
             fail(code) == [values |-> {}, errors |-> {[code |-> code, binding |-> binding]}]
             found(these) == [values |-> these, errors |-> {}]
             elements == {[node |-> other.s[i], binding |-> binding \cup {<<prefix, i>>}] : i \in DOMAIN other.s}
  <2>1. walked = IF node.t \notin {"missing", "map"} THEN fail("RULE_PATH_TYPE_ERROR")
                 ELSE IF ~ segment.collection THEN found({[node |-> other, binding |-> binding]})
                 ELSE CASE other.t = "missing" -> found({})
                        [] other.t = "list" -> found(elements)
                        [] OTHER -> fail("RULE_COLLECTION_TYPE_ERROR")
    <3> HIDE DEF node, binding
    <3>1. [node |-> node, binding |-> binding].node = node /\ [node |-> node, binding |-> binding].binding = binding
      OBVIOUS
    <3> QED BY <3>1 DEF Descend
  <2>2. node.t \in {"missing", "map"} => other = child
    BY <1>6
  <2> HIDE DEF walked, node, child, other, binding, segment, prefix
  <2>3. \A code : fail(code).values = {} /\ fail(code).errors = {[code |-> code, binding |-> binding]}
    OBVIOUS
  <2>4. \A these : found(these).values = these /\ found(these).errors = {}
    OBVIOUS
  <2>5. node.t \in {"missing", "map"} =>
          elements = {[node |-> child.s[i], binding |-> binding \cup {<<prefix, i>>}] : i \in DOMAIN child.s}
    BY <2>2
  <2> HIDE DEF fail, found, elements
  <2> QED BY <2>1, <2>2, <2>3, <2>4, <2>5
<1>9. \A index : Entered(node, segment, index) =
        IF node.t \notin {"missing", "map"} THEN Broken("RULE_PATH_TYPE_ERROR")
        ELSE IF ~ segment.collection THEN child
        ELSE CASE child.t = "missing" -> Void
               [] child.t = "list" -> IF index \in DOMAIN child.s THEN child.s[index] ELSE Void
               [] OTHER -> Broken("RULE_COLLECTION_TYPE_ERROR")
  BY <1>6 DEF Entered
<1>10. ~ Live(Void) /\ Void.t # "broken" /\ \A code : ~ Live(Broken(code)) /\ Broken(code).t = "broken" /\ Broken(code).code = code
  BY DEF Live, Void, Broken
<1>11. segment = path[k]
  OBVIOUS
<1> HIDE DEF node, binding, segment, child, prefix, walked
<1>12. ASSUME NEW code, Fails(code), \A d \in alike : Trail(tree, path, d)[k] = Broken(code)
       PROVE  walked.values = values /\ walked.errors = errors
  <2>1. values = {}
    BY <1>10, <1>12
  <2>2. errors = {[code |-> code, binding |-> binding]}
    BY <1>5, <1>10, <1>12
  <2> QED BY <1>12, <2>1, <2>2
<1>13. CASE node.t \notin {"missing", "map"}
  <2>1. \A d \in alike : Trail(tree, path, d)[k] = Broken("RULE_PATH_TYPE_ERROR")
    BY <1>3, <1>9, <1>13
  <2> QED BY <1>8, <1>12, <1>13, <2>1 DEF walked, node, binding
<1>14. CASE node.t \in {"missing", "map"} /\ ~ segment.collection
  <2>1. \A d \in alike : Trail(tree, path, d)[k] = child /\ Taken(path, d, k) = binding
    BY <1>3, <1>4, <1>9, <1>14
  <2>2. values = {[node |-> child, binding |-> binding]}
    BY <1>5, <1>7, <2>1
  <2>3. errors = {}
    BY <1>5, <1>7, <2>1 DEF Live
  <2> QED BY <1>8, <1>14, <2>2, <2>3 DEF walked, node, binding
<1>15. CASE node.t \in {"missing", "map"} /\ segment.collection /\ child.t = "missing"
  <2>1. \A d \in alike : Trail(tree, path, d)[k] = Void
    BY <1>3, <1>9, <1>15
  <2>2. values = {}
    BY <1>10, <2>1
  <2>3. errors = {}
    BY <1>5, <1>10, <2>1
  <2> QED BY <1>8, <1>15, <2>2, <2>3 DEF walked, node, binding
<1>16. CASE node.t \in {"missing", "map"} /\ segment.collection /\ child.t \notin {"missing", "list"}
  <2>1. \A d \in alike : Trail(tree, path, d)[k] = Broken("RULE_COLLECTION_TYPE_ERROR")
    BY <1>3, <1>9, <1>16
  <2> QED BY <1>8, <1>12, <1>16, <2>1 DEF walked, node, binding
<1>17. CASE node.t \in {"missing", "map"} /\ segment.collection /\ child.t = "list"
  <2> DEFINE Of(i) == [node |-> child.s[i], binding |-> binding \cup {<<prefix, i>>}]
             Here(d) == [node |-> Trail(tree, path, d)[k], binding |-> Taken(path, d, k)]
  <2>1. \A d \in alike : /\ Taken(path, d, k) = binding \cup {<<prefix, d[k]>>}
                         /\ Trail(tree, path, d)[k] = IF d[k] \in DOMAIN child.s THEN child.s[d[k]] ELSE Void
    BY <1>3, <1>4, <1>9, <1>17
  <2>2. \A d \in alike : Live(Trail(tree, path, d)[k]) => d[k] \in DOMAIN child.s /\ Here(d) = Of(d[k])
    BY <1>10, <2>1
  <2>3. ASSUME NEW i \in DOMAIN child.s
        PROVE  \E d \in alike : Live(Trail(tree, path, d)[k]) /\ Here(d) = Of(i)
    <3> DEFINE d == [c EXCEPT ![k] = i]
    <3>1. d \in alike /\ d[k] = i
      <4>1. i \in 1..MaxWidth
        BY <1>7, <1>17
      <4>2. c \in [DOMAIN path -> 1..MaxWidth] /\ \A j \in DOMAIN path : ~ path[j].collection => c[j] = 1
        BY DEF Readings
      <4>3. d \in [DOMAIN path -> 1..MaxWidth] /\ d[k] = i /\ \A j \in DOMAIN path \ {k} : d[j] = c[j]
        BY <1>1, <4>1, <4>2
      <4>4. \A j \in DOMAIN path : ~ path[j].collection => d[j] = 1
        BY <1>11, <1>17, <4>2, <4>3
      <4>5. \A j \in 1..(k - 1) : d[j] = c[j]
        BY <1>1, <4>3
      <4> QED BY <4>3, <4>4, <4>5 DEF Readings
    <3> HIDE DEF d
    <3>2. Live(child.s[i])
      BY <1>7, <1>17, NodeTypes
    <3> QED BY <2>1, <3>1, <3>2
  <2>4. errors = {}
    <3>1. Trail(tree, path, c)[k] \in {child.s[i] : i \in DOMAIN child.s} \cup {Void}
      BY <1>5, <2>1
    <3>2. \A i \in DOMAIN child.s : Live(child.s[i])
      BY <1>7, <1>17, NodeTypes
    <3>3. Trail(tree, path, c)[k].t # "broken"
      BY <1>10, <3>1, <3>2 DEF Live
    <3> QED BY <3>3
  <2>5. values = {Here(d) : d \in {e \in alike : Live(Trail(tree, path, e)[k])}}
    OBVIOUS
  <2>6. walked.values = {Of(i) : i \in DOMAIN child.s} /\ walked.errors = {}
    BY <1>8, <1>17
  <2> HIDE DEF Of, Here, values, errors, alike
  <2>7. values = {Of(i) : i \in DOMAIN child.s}
    BY <2>2, <2>3, <2>5
  <2> QED BY <2>4, <2>6, <2>7 DEF values, errors, walked, node, binding, alike
<1> QED BY <1>13, <1>14, <1>15, <1>16, <1>17, <1>6

Breaks(tree, path, c, k) == Trail(tree, path, c)[k].t = "broken" /\ Trail(tree, path, c)[k - 1].t # "broken"
LiveChoices(tree, path, k) == {c \in Readings(path) : Live(Trail(tree, path, c)[k])}

\* What the choices of a path come to after k segments, where they break on the way, and what is looked into.
ReachedBy(tree, path, k) ==
  {[node |-> Trail(tree, path, c)[k], binding |-> Taken(path, c, k)] : c \in LiveChoices(tree, path, k)}
BrokenBy(tree, path, k) ==
  UNION {{[code |-> Trail(tree, path, c)[j].code, binding |-> Taken(path, c, j - 1)] :
            c \in {d \in Readings(path) : Breaks(tree, path, d, j)}} : j \in 1..k}
WalkedBy(tree, path, k) ==
  UNION {{<<j + 1, Taken(path, c, j)>> : c \in LiveChoices(tree, path, j)} : j \in 0..(k - 1)}

\* A choice that comes to something has come to something before.
LEMMA LiveBefore ==
  ASSUME NEW tree, NEW path, IsPath(path), NEW k \in 1..Len(path)
  PROVE  LiveChoices(tree, path, k) \subseteq LiveChoices(tree, path, k - 1)
<1>1. SUFFICES ASSUME NEW c \in Readings(path), Live(Trail(tree, path, c)[k]), ~ Live(Trail(tree, path, c)[k - 1])
               PROVE  FALSE
  BY DEF LiveChoices
<1> DEFINE l == k - 1
<1>2. l \in 0..Len(path) /\ k \in l..Len(path)
  BY DEF IsPath
<1> HIDE DEF l
<1>3. ~ Live(Trail(tree, path, c)[l])
  BY <1>1 DEF l
<1>4. Trail(tree, path, c)[k] = Trail(tree, path, c)[l]
  BY <1>2, <1>3, EndsStay
<1> QED BY <1>1, <1>3, <1>4

\* One segment from what is reached by the segments before.
LEMMA AdvanceMeans ==
  ASSUME NEW nodes, Closed(nodes), NEW tree \in nodes, NEW path, IsPath(path), NEW k \in 1..Len(path),
         NEW before, before.values = ReachedBy(tree, path, k - 1), before.errors = BrokenBy(tree, path, k - 1),
         before.walks = WalkedBy(tree, path, k - 1)
  PROVE  LET after == Advance(before, path, k)
         IN /\ after.values = ReachedBy(tree, path, k) /\ after.errors = BrokenBy(tree, path, k)
            /\ after.walks = WalkedBy(tree, path, k)
<1> DEFINE Cursor(c) == [node |-> Trail(tree, path, c)[k - 1], binding |-> Taken(path, c, k - 1)]
           Here(c) == [node |-> Trail(tree, path, c)[k], binding |-> Taken(path, c, k)]
           Error(c, j) == [code |-> Trail(tree, path, c)[j].code, binding |-> Taken(path, c, j - 1)]
           Walked(c) == Descend(Cursor(c), path, k)
           live == LiveChoices(tree, path, k - 1)
           next == LiveChoices(tree, path, k)
           steps == {Descend(e, path, k) : e \in before.values}
           after == Advance(before, path, k)
<1>0. Len(path) \in Nat /\ k \in Nat \ {0} /\ k - 1 \in Nat
  BY DEF IsPath
<1>1. /\ after.values = UNION {s.values : s \in steps}
      /\ after.errors = before.errors \cup UNION {s.errors : s \in steps}
      /\ after.walks = before.walks \cup {<<k, e.binding>> : e \in before.values}
  <2> HIDE DEF steps
  <2>1. after = [values |-> UNION {s.values : s \in steps}, errors |-> before.errors \cup UNION {s.errors : s \in steps},
                 walks |-> before.walks \cup {<<k, e.binding>> : e \in before.values}]
    BY DEF Advance, steps
  <2> HIDE DEF after
  <2> QED BY <2>1
<1>2. before.values = {Cursor(c) : c \in live}
  BY DEF ReachedBy
<1>3. ASSUME NEW c \in live
      PROVE  /\ \A v \in Walked(c).values : \E d \in next : v = Here(d)
             /\ c \in next => Here(c) \in Walked(c).values
             /\ Walked(c).errors = IF Breaks(tree, path, c, k) THEN {Error(c, k)} ELSE {}
  <2> DEFINE alike == {d \in Readings(path) : \A j \in 1..(k - 1) : d[j] = c[j]}
  <2>1. c \in Readings(path) /\ Live(Trail(tree, path, c)[k - 1])
    BY DEF LiveChoices
  <2>2. /\ Walked(c).values = {Here(d) : d \in {e \in alike : Live(Trail(tree, path, e)[k])}}
        /\ Walked(c).errors = IF Trail(tree, path, c)[k].t = "broken" THEN {Error(c, k)} ELSE {}
    BY <2>1, DescendMeans
  <2>3. Breaks(tree, path, c, k) <=> Trail(tree, path, c)[k].t = "broken"
    BY <2>1 DEF Breaks, Live
  <2>4. \A d \in alike : Live(Trail(tree, path, d)[k]) => d \in next
    BY DEF LiveChoices
  <2>5. c \in next => c \in alike /\ Live(Trail(tree, path, c)[k])
    BY <2>1 DEF LiveChoices
  <2> HIDE DEF Walked, Here, Error, alike, live, next
  <2> QED BY <2>2, <2>3, <2>4, <2>5
<1>4. next \subseteq live
  BY LiveBefore
<1>5. \A c \in Readings(path) : Breaks(tree, path, c, k) => c \in live
  <2> SUFFICES ASSUME NEW c \in Readings(path), Breaks(tree, path, c, k), c \notin live PROVE FALSE
    OBVIOUS
  <2> DEFINE l == k - 1
  <2>1. l \in 0..Len(path) /\ k \in l..Len(path)
    BY <1>0
  <2>2. ~ Live(Trail(tree, path, c)[l])
    BY DEF LiveChoices
  <2>3. Breaks(tree, path, c, k) <=> Trail(tree, path, c)[k].t = "broken" /\ Trail(tree, path, c)[l].t # "broken"
    BY DEF Breaks
  <2> HIDE DEF l
  <2>4. Trail(tree, path, c)[k] = Trail(tree, path, c)[l]
    BY <2>1, <2>2, EndsStay
  <2> QED BY <2>3, <2>4
<1>6. ReachedBy(tree, path, k) = {Here(c) : c \in next}
  BY DEF ReachedBy
<1>7. BrokenBy(tree, path, k) = BrokenBy(tree, path, k - 1)
                                  \cup {Error(c, k) : c \in {d \in Readings(path) : Breaks(tree, path, d, k)}}
  <2> DEFINE Part(j) == {Error(c, j) : c \in {d \in Readings(path) : Breaks(tree, path, d, j)}}
             l == k - 1
  <2>1. \A m : \A x : x \in BrokenBy(tree, path, m) <=> \E j \in 1..m : x \in Part(j)
    BY DEF BrokenBy
  <2>2. \A j : j \in 1..k <=> (j \in 1..l \/ j = k)
    BY <1>0
  <2> HIDE DEF Part, l
  <2>3. BrokenBy(tree, path, k) = BrokenBy(tree, path, l) \cup Part(k)
    BY <2>1, <2>2
  <2> QED BY <2>3 DEF Part, l
<1>8. WalkedBy(tree, path, k) = WalkedBy(tree, path, k - 1) \cup {<<k, Taken(path, c, k - 1)>> : c \in live}
  <2> DEFINE Part(j) == {<<j + 1, Taken(path, c, j)>> : c \in LiveChoices(tree, path, j)}
             l == k - 1
  <2>1. \A m : \A x : x \in WalkedBy(tree, path, m) <=> \E j \in 0..(m - 1) : x \in Part(j)
    BY DEF WalkedBy
  <2>2. \A j : j \in 0..(k - 1) <=> (j \in 0..(l - 1) \/ j = l)
    BY <1>0
  <2>3. Part(l) = {<<k, Taken(path, c, l)>> : c \in LiveChoices(tree, path, l)}
    BY <1>0
  <2> HIDE DEF Part, l
  <2>4. WalkedBy(tree, path, k) = WalkedBy(tree, path, l) \cup Part(l)
    BY <2>1, <2>2
  <2>5. WalkedBy(tree, path, k) = WalkedBy(tree, path, l) \cup {<<k, Taken(path, c, l)>> : c \in LiveChoices(tree, path, l)}
    BY <2>3, <2>4
  <2> QED BY <2>5 DEF l
<1>9. {<<k, e.binding>> : e \in before.values} = {<<k, Taken(path, c, k - 1)>> : c \in live}
  <2>1. \A c : Cursor(c).binding = Taken(path, c, k - 1)
    OBVIOUS
  <2> HIDE DEF Cursor, live
  <2> QED BY <1>2, <2>1
<1>10. steps = {Walked(c) : c \in live}
  <2> HIDE DEF Cursor, live
  <2> QED BY <1>2
<1> HIDE DEF steps, Walked, Here, Error, Cursor, live, next
<1>11. UNION {s.values : s \in steps} = {Here(c) : c \in next}
  <2>1. ASSUME NEW v \in UNION {s.values : s \in steps} PROVE v \in {Here(c) : c \in next}
    <3>1. PICK c \in live : v \in Walked(c).values
      BY <1>10
    <3> QED BY <1>3, <3>1
  <2>2. ASSUME NEW c \in next PROVE Here(c) \in UNION {s.values : s \in steps}
    <3>1. c \in live /\ Here(c) \in Walked(c).values
      BY <1>3, <1>4
    <3> QED BY <1>10, <3>1
  <2> QED BY <2>1, <2>2
<1>12. UNION {s.errors : s \in steps} = {Error(c, k) : c \in {d \in Readings(path) : Breaks(tree, path, d, k)}}
  <2>0. live \subseteq Readings(path)
    BY DEF live, LiveChoices
  <2>1. ASSUME NEW e \in UNION {s.errors : s \in steps}
        PROVE  e \in {Error(c, k) : c \in {d \in Readings(path) : Breaks(tree, path, d, k)}}
    <3>1. PICK c \in live : e \in Walked(c).errors
      BY <1>10
    <3> QED BY <1>3, <2>0, <3>1
  <2>2. ASSUME NEW c \in Readings(path), Breaks(tree, path, c, k)
        PROVE  Error(c, k) \in UNION {s.errors : s \in steps}
    <3>1. c \in live /\ Error(c, k) \in Walked(c).errors
      BY <1>3, <1>5, <2>2
    <3> QED BY <1>10, <3>1
  <2> QED BY <2>1, <2>2
<1>13. after.values = ReachedBy(tree, path, k)
  BY <1>1, <1>6, <1>11
<1>14. after.errors = BrokenBy(tree, path, k)
  BY <1>1, <1>7, <1>12
<1>15. after.walks = WalkedBy(tree, path, k)
  BY <1>1, <1>8, <1>9
<1> QED BY <1>13, <1>14, <1>15

\* What the segments of a path reach, one after the other.
LEMMA ReachedIs ==
  ASSUME NEW nodes, Closed(nodes), NEW tree \in nodes, NEW path, IsPath(path)
  PROVE  LET end == Reached(tree, path)[Len(path)]
         IN /\ end.values = ReachedBy(tree, path, Len(path)) /\ end.errors = BrokenBy(tree, path, Len(path))
            /\ end.walks = WalkedBy(tree, path, Len(path))
<1> DEFINE n == Len(path)
           r == Reached(tree, path)
           S == {k \in 0..n : /\ r[k].values = ReachedBy(tree, path, k) /\ r[k].errors = BrokenBy(tree, path, k)
                              /\ r[k].walks = WalkedBy(tree, path, k)}
<1>0. n \in Nat
  BY DEF IsPath
<1>1. /\ r[0] = [values |-> {[node |-> tree, binding |-> {}]}, errors |-> {}, walks |-> {}]
      /\ \A k \in 1..n : r[k] = Advance(r[k - 1], path, k)
  BY <1>0, ReachedMeans
<1> HIDE DEF r
<1>2. 0 \in S
  <2>1. \A c : Trail(tree, path, c)[0] = tree /\ Taken(path, c, 0) = {}
    <3>1. \A c : Trail(tree, path, c)[0] = tree
      BY <1>0, TrailMeans
    <3> QED BY <3>1 DEF Taken
  <2>2. Live(tree)
    BY NodeTypes
  <2>3. [j \in DOMAIN path |-> 1] \in Readings(path)
    BY NodesAssumption DEF Readings
  <2>4. ReachedBy(tree, path, 0) = {[node |-> tree, binding |-> {}]}
    BY <2>1, <2>2, <2>3 DEF ReachedBy, LiveChoices
  <2>5. BrokenBy(tree, path, 0) = {}
    BY DEF BrokenBy
  <2>6. WalkedBy(tree, path, 0) = {}
    BY DEF WalkedBy
  <2>7. r[0].values = {[node |-> tree, binding |-> {}]} /\ r[0].errors = {} /\ r[0].walks = {}
    BY <1>1
  <2>8. 0 \in 0..n
    BY <1>0
  <2> HIDE DEF n
  <2> QED BY <2>4, <2>5, <2>6, <2>7, <2>8
<1>3. ASSUME NEW k \in 0..(n - 1), k \in S PROVE k + 1 \in S
  <2>1. k + 1 \in 1..Len(path) /\ (k + 1) - 1 = k /\ k + 1 \in 0..n
    BY <1>0
  <2>2. r[k + 1] = Advance(r[k], path, k + 1)
    BY <1>1, <2>1
  <2>3. /\ r[k].values = ReachedBy(tree, path, k) /\ r[k].errors = BrokenBy(tree, path, k)
        /\ r[k].walks = WalkedBy(tree, path, k)
    BY <1>3
  <2> DEFINE m == k + 1
  <2>4. m \in 1..Len(path) /\ m - 1 = k
    BY <2>1
  <2> HIDE DEF m
  <2>5. LET after == Advance(r[k], path, m)
        IN /\ after.values = ReachedBy(tree, path, m) /\ after.errors = BrokenBy(tree, path, m)
           /\ after.walks = WalkedBy(tree, path, m)
    BY <2>3, <2>4, AdvanceMeans
  <2> QED BY <2>1, <2>2, <2>5 DEF m
<1>4. \A k \in 0..n : k \in S
  <2> HIDE DEF S, n
  <2> QED BY <1>0, <1>2, <1>3, UpTheLine
<1>5. n \in S
  BY <1>0, <1>4
<1> QED BY <1>5 DEF r

\* A choice breaks in one place, and what it comes to then is what it comes to in the end.
LEMMA BreaksOnce ==
  ASSUME NEW tree, NEW path, IsPath(path), NEW c, NEW j \in 1..Len(path), Breaks(tree, path, c, j)
  PROVE  At(tree, path, c) = Trail(tree, path, c)[j] /\ BreaksAt(tree, path, c) = j - 1
<1> DEFINE n == Len(path)
           t == Trail(tree, path, c)
           P(m) == t[m + 1].t = "broken" /\ t[m].t # "broken"
<1>0. n \in Nat /\ j \in 1..n
  BY DEF IsPath
<1>1. ASSUME NEW i \in 0..n, t[i].t = "broken" PROVE \A k \in i..n : t[k] = t[i]
  BY <1>1, EndsStay DEF Live
<1> HIDE DEF t
<1>2. t[j].t = "broken" /\ t[j - 1].t # "broken"
  BY DEF Breaks, t
<1>3. t[n] = t[j]
  BY <1>0, <1>1, <1>2
<1>4. j - 1 \in 0..(n - 1) /\ (j - 1) + 1 = j /\ P(j - 1)
  BY <1>0, <1>2
<1>5. ASSUME NEW l \in 0..(n - 1), P(l) PROVE l = j - 1
  <2>1. CASE l + 1 <= j - 1
    <3>1. l + 1 \in 0..n /\ j - 1 \in (l + 1)..n
      BY <1>0, <2>1
    <3> QED BY <1>1, <1>2, <1>5, <3>1
  <2>2. CASE j <= l
    <3>1. j \in 0..n /\ l \in j..n
      BY <1>0, <2>2
    <3> QED BY <1>1, <1>2, <1>5, <3>1
  <2> QED BY <1>0, <2>1, <2>2
<1>6. BreaksAt(tree, path, c) = CHOOSE m \in 0..(n - 1) : P(m)
  BY DEF BreaksAt, t
<1> HIDE DEF P
<1>7. (CHOOSE m \in 0..(n - 1) : P(m)) = j - 1
  BY <1>4, <1>5
<1> QED BY <1>3, <1>6, <1>7 DEF At, t

\* A choice that comes to a break breaks somewhere.
LEMMA BreaksSomewhere ==
  ASSUME NEW tree, Live(tree), NEW path, IsPath(path), NEW c, At(tree, path, c).t = "broken"
  PROVE  \E j \in 1..Len(path) : Breaks(tree, path, c, j)
<1> DEFINE n == Len(path)
           t == Trail(tree, path, c)
           S == {k \in 0..n : t[k].t # "broken"}
<1>0. n \in Nat
  BY DEF IsPath
<1> SUFFICES ASSUME \A j \in 1..n : ~ Breaks(tree, path, c, j) PROVE FALSE
  OBVIOUS
<1>1. 0 \in S
  BY <1>0, TrailMeans DEF Live
<1>2. ASSUME NEW k \in 0..(n - 1), k \in S PROVE k + 1 \in S
  <2>1. k + 1 \in 1..n /\ (k + 1) - 1 = k /\ k + 1 \in 0..n
    BY <1>0
  <2>2. ~ (t[k + 1].t = "broken" /\ t[(k + 1) - 1].t # "broken")
    BY <2>1 DEF Breaks
  <2> HIDE DEF t
  <2> QED BY <1>2, <2>1, <2>2
<1>3. \A k \in 0..n : k \in S
  <2> HIDE DEF S, n
  <2> QED BY <1>0, <1>1, <1>2, UpTheLine
<1> QED BY <1>0, <1>3 DEF At

\* The values that some choices come to.
Results(tree, path, choices) == {[node |-> At(tree, path, c), binding |-> Taken(path, c, Len(path))] : c \in choices}

\* What a path leads to, choice by choice (_PathResolver.resolve).
LEMMA ResolveMeans ==
  ASSUME NEW nodes, Closed(nodes), NEW tree \in nodes, NEW path, IsPath(path)
  PROVE  /\ Resolve(tree, path).values = Results(tree, path, ValuesAt(tree, path))
         /\ Resolve(tree, path).errors = BrokenReadings(tree, path)
<1> DEFINE n == Len(path)
           end == Reached(tree, path)[n]
           broken == {c \in Readings(path) : At(tree, path, c).t = "broken"}
           readings == {[code |-> At(tree, path, c).code, binding |-> Taken(path, c, BreaksAt(tree, path, c))] : c \in broken}
<1>0. n \in Nat
  BY DEF IsPath
<1>1. end.values = ReachedBy(tree, path, n) /\ end.errors = BrokenBy(tree, path, n) /\ end.walks = WalkedBy(tree, path, n)
  BY ReachedIs
<1>2. Resolve(tree, path).values = end.values
      /\ Resolve(tree, path).errors = IF Cardinality(end.walks) > MaxSteps THEN StepLimit ELSE end.errors
  <2> HIDE DEF end
  <2>1. Resolve(tree, path) = [values |-> end.values, errors |-> IF Cardinality(end.walks) > MaxSteps THEN StepLimit ELSE end.errors]
    BY DEF Resolve, end
  <2> QED BY <2>1
<1>3. ReachedBy(tree, path, n) = Results(tree, path, ValuesAt(tree, path))
  <2>1. LiveChoices(tree, path, n) = ValuesAt(tree, path)
    BY DEF LiveChoices, ValuesAt, Live, At
  <2> QED BY <2>1 DEF ReachedBy, Results, At
<1>4. WalkedBy(tree, path, n) = Lookups(tree, path)
  BY DEF WalkedBy, Lookups, LiveChoices, Live
<1>5. BrokenBy(tree, path, n) = readings
  <2> DEFINE Error(c, j) == [code |-> Trail(tree, path, c)[j].code, binding |-> Taken(path, c, j - 1)]
             Reading(c) == [code |-> At(tree, path, c).code, binding |-> Taken(path, c, BreaksAt(tree, path, c))]
  <2>1. \A c : \A j \in 1..n : Breaks(tree, path, c, j) => At(tree, path, c).t = "broken" /\ Error(c, j) = Reading(c)
    <3>1. ASSUME NEW c, NEW j \in 1..n, Breaks(tree, path, c, j)
          PROVE  At(tree, path, c).t = "broken" /\ Error(c, j) = Reading(c)
      <4>1. At(tree, path, c) = Trail(tree, path, c)[j] /\ BreaksAt(tree, path, c) = j - 1
        BY <3>1, BreaksOnce
      <4> QED BY <3>1, <4>1 DEF Breaks
    <3> QED BY <3>1
  <2>2. \A c \in broken : \E j \in 1..n : Breaks(tree, path, c, j)
    <3>1. Live(tree)
      BY NodeTypes
    <3> QED BY <3>1, BreaksSomewhere
  <2>3. \A x : x \in BrokenBy(tree, path, n) <=> \E j \in 1..n : \E c \in Readings(path) : Breaks(tree, path, c, j) /\ x = Error(c, j)
    BY DEF BrokenBy
  <2>4. \A x : x \in readings <=> \E c \in broken : x = Reading(c)
    OBVIOUS
  <2>5. \A c \in Readings(path) : c \in broken <=> At(tree, path, c).t = "broken"
    OBVIOUS
  <2>6. broken \subseteq Readings(path)
    OBVIOUS
  <2> HIDE DEF Error, Reading, readings, broken
  <2>7. ASSUME NEW x \in BrokenBy(tree, path, n) PROVE x \in readings
    <3>1. PICK j \in 1..n, c \in Readings(path) : Breaks(tree, path, c, j) /\ x = Error(c, j)
      BY <2>3
    <3> QED BY <2>1, <2>4, <2>5, <3>1
  <2>8. ASSUME NEW x \in readings PROVE x \in BrokenBy(tree, path, n)
    <3>1. PICK c \in broken : x = Reading(c)
      BY <2>4
    <3>2. PICK j \in 1..n : Breaks(tree, path, c, j)
      BY <2>2
    <3> QED BY <2>1, <2>3, <2>6, <3>1, <3>2
  <2> QED BY <2>7, <2>8
<1>6. BrokenReadings(tree, path) = IF Cardinality(Lookups(tree, path)) > MaxSteps THEN StepLimit ELSE readings
  BY DEF BrokenReadings
<1> HIDE DEF end, readings
<1> QED BY <1>1, <1>2, <1>3, <1>4, <1>5, <1>6

\* What a predicate says of the values that some choices come to, and the choices it says something of.
JudgedOf(tree, w, choices) == Judged(Results(tree, w.path, choices), w)
SaidOf(tree, w, choices, answer) == {Taken(w.path, c, Len(w.path)) : c \in {d \in choices : Says(tree, w, d) = answer}}
VerdictsOf(tree, w, choices) == {[binding |-> Taken(w.path, c, Len(w.path)), answer |-> Says(tree, w, c)] : c \in choices}

\* A predicate judges each choice by what the choice comes to.
LEMMA JudgedMeans ==
  ASSUME NEW tree, NEW w, NEW choices
  PROVE  /\ JudgedOf(tree, w, choices) = VerdictsOf(tree, w, choices)
         /\ \A answer : Bindings(JudgedOf(tree, w, choices), answer) = SaidOf(tree, w, choices, answer)
<1> DEFINE Value(c) == [node |-> At(tree, w.path, c), binding |-> Taken(w.path, c, Len(w.path))]
           Verdict(c) == [binding |-> Taken(w.path, c, Len(w.path)), answer |-> Says(tree, w, c)]
           judged == JudgedOf(tree, w, choices)
<1>1. judged = {[binding |-> v.binding, answer |-> Judge(v, w)] : v \in {Value(c) : c \in choices}}
  BY Zenon DEF Judged, Results, JudgedOf
<1>2. \A c : Value(c).binding = Taken(w.path, c, Len(w.path)) /\ Value(c).node = At(tree, w.path, c)
  OBVIOUS
<1>3. \A c : Judge(Value(c), w) = Says(tree, w, c)
  BY <1>2 DEF Judge, Says
<1>4. \A c : [binding |-> Value(c).binding, answer |-> Judge(Value(c), w)] = Verdict(c)
  BY <1>2, <1>3
<1>5. judged = {Verdict(c) : c \in choices}
  <2> HIDE DEF Value, Verdict, judged
  <2> QED BY <1>1, <1>4
<1>6. \A c : Verdict(c).binding = Taken(w.path, c, Len(w.path)) /\ Verdict(c).answer = Says(tree, w, c)
  OBVIOUS
<1>7. ASSUME NEW answer, NEW b
      PROVE  b \in Bindings(judged, answer) <=> b \in SaidOf(tree, w, choices, answer)
  <2> HIDE DEF judged, Verdict
  <2>1. Bindings(judged, answer) = {j.binding : j \in {k \in judged : k.answer = answer}}
    BY DEF Bindings
  <2>2. b \in SaidOf(tree, w, choices, answer) <=>
          \E c \in choices : Says(tree, w, c) = answer /\ b = Taken(w.path, c, Len(w.path))
    BY DEF SaidOf
  <2> QED BY <1>5, <1>6, <2>1, <2>2
<1> QED BY <1>5, <1>7 DEF VerdictsOf

\* The elements that a condition selects, and what goes wrong in it.
ElementsOf(tree, w, k) == {Taken(w.path, c, k) : c \in Hits(tree, w)}
ErrorsOf(tree, w) ==
  BrokenReadings(tree, w.path)
    \cup {[code |-> "RULE_VALUE_TYPE_ERROR", binding |-> Taken(w.path, c, Len(w.path))] :
            c \in {d \in ValuesAt(tree, w.path) : Says(tree, w, d) = "error"}}

\* What a condition comes to (_condition_outcome).
LEMMA OutcomeMeans ==
  ASSUME NEW nodes, Closed(nodes), NEW tree \in nodes, NEW w, IsPath(w.path)
  PROVE  LET outcome == Outcome(tree, w)
         IN /\ outcome.matched <=> Hits(tree, w) # {}
            /\ outcome.successes = IF HadCollection(w.path) THEN ElementsOf(tree, w, Len(w.path)) ELSE {}
            /\ outcome.errors = ErrorsOf(tree, w)
<1> DEFINE resolution == Resolve(tree, w.path)
           judged == Judged(resolution.values, w)
           errors == resolution.errors
           Element(c) == Taken(w.path, c, Len(w.path))
           wrong == {d \in ValuesAt(tree, w.path) : Says(tree, w, d) = "error"}
<1>1. /\ resolution.values = Results(tree, w.path, ValuesAt(tree, w.path))
      /\ errors = BrokenReadings(tree, w.path)
  BY ResolveMeans
<1>2. \A answer : Bindings(judged, answer) = SaidOf(tree, w, ValuesAt(tree, w.path), answer)
  BY <1>1, JudgedMeans DEF JudgedOf
<1>3. Outcome(tree, w) = OutcomeOf(w, errors, judged)
  BY DEF Outcome
<1> HIDE DEF resolution, judged, errors, Element
<1>4. Bindings(judged, "yes") = {Element(c) : c \in Hits(tree, w)}
  BY <1>2 DEF Hits, SaidOf, Element
<1>5. Bindings(judged, "error") = {Element(c) : c \in wrong}
  BY <1>2 DEF SaidOf, Element
<1> HIDE DEF wrong
<1>6. /\ Outcome(tree, w).matched = (Bindings(judged, "yes") # {})
      /\ Outcome(tree, w).successes = IF HadCollection(w.path) THEN Bindings(judged, "yes") ELSE {}
      /\ Outcome(tree, w).errors = errors \cup {[code |-> "RULE_VALUE_TYPE_ERROR", binding |-> b] : b \in Bindings(judged, "error")}
  <2>1. OutcomeOf(w, errors, judged) =
          [matched |-> Bindings(judged, "yes") # {},
           successes |-> IF HadCollection(w.path) THEN Bindings(judged, "yes") ELSE {},
           errors |-> errors \cup {[code |-> "RULE_VALUE_TYPE_ERROR", binding |-> b] : b \in Bindings(judged, "error")}]
    BY DEF OutcomeOf
  <2> QED BY <1>3, <2>1
<1>7. {[code |-> "RULE_VALUE_TYPE_ERROR", binding |-> b] : b \in Bindings(judged, "error")}
        = {[code |-> "RULE_VALUE_TYPE_ERROR", binding |-> Element(c)] : c \in wrong}
  BY <1>5
<1>8. Bindings(judged, "yes") # {} <=> Hits(tree, w) # {}
  BY <1>4
<1>9. Outcome(tree, w).errors = BrokenReadings(tree, w.path) \cup {[code |-> "RULE_VALUE_TYPE_ERROR", binding |-> Element(c)] : c \in wrong}
  BY <1>1, <1>6, <1>7
<1> QED BY <1>4, <1>6, <1>8, <1>9 DEF Element, wrong, ElementsOf, ErrorsOf

(***************************************************************************)
(* Elements.                                                               *)
(***************************************************************************)
\* A prefix is as long as the number of its segments.
LEMMA NamesLength ==
  ASSUME NEW path, NEW k \in Nat
  PROVE  Len(Names(path, k)) = k
<1>1. Names(path, k) \in [1..k -> {path[i].name : i \in 1..k}]
  BY DEF Names
<1>2. Names(path, k) \in Seq({path[i].name : i \in 1..k})
  BY <1>1, SeqDef
<1>3. DOMAIN Names(path, k) = 1..k
  BY <1>1
<1> QED BY <1>2, <1>3

\* Equal prefixes have equal beginnings.
LEMMA NamesAlike ==
  ASSUME NEW path, NEW other, NEW k \in Nat, Names(path, k) = Names(other, k), NEW j \in 0..k
  PROVE  Names(path, j) = Names(other, j)
<1>1. \A i \in 1..k : path[i].name = other[i].name
  <2>1. \A i \in 1..k : Names(path, k)[i] = path[i].name /\ Names(other, k)[i] = other[i].name
    BY DEF Names
  <2> QED BY <2>1
<1>2. \A i \in 1..j : i \in 1..k
  OBVIOUS
<1> QED BY <1>1, <1>2 DEF Names

\* A binding up to a collection of its path has the elements chosen so far (_binding_prefix).
LEMMA UpToMeans ==
  ASSUME NEW path, NEW c, NEW n \in Nat, NEW k \in 1..n
  PROVE  UpTo(Taken(path, c, n), Names(path, k)) = Taken(path, c, k)
<1> DEFINE Element(j) == <<Names(path, j), c[j]>>
<1>1. \A j \in Nat : Len(Element(j)[1]) = j
  BY NamesLength
<1>2. \A m : \A e : e \in Taken(path, c, m) <=> \E j \in 1..m : path[j].collection /\ e = Element(j)
  BY DEF Taken
<1>3. UpTo(Taken(path, c, n), Names(path, k)) = {e \in Taken(path, c, n) : Len(e[1]) <= k}
  BY NamesLength DEF UpTo
<1>4. \A j : j \in 1..k <=> j \in 1..n /\ j <= k
  OBVIOUS
<1>5. \A j \in 1..n : j \in Nat
  OBVIOUS
<1> HIDE DEF Element
<1>6. ASSUME NEW e PROVE e \in UpTo(Taken(path, c, n), Names(path, k)) <=> e \in Taken(path, c, k)
  BY <1>1, <1>2, <1>3, <1>4, <1>5
<1> QED BY <1>6

\* A binding traverses the collections of its path.
LEMMA TraversesMeans ==
  ASSUME NEW path, NEW c, NEW n \in Nat, NEW prefix
  PROVE  Traverses(Taken(path, c, n), prefix) <=> \E j \in 1..n : path[j].collection /\ Names(path, j) = prefix
<1> DEFINE Element(j) == <<Names(path, j), c[j]>>
<1>1. \A j : Element(j)[1] = Names(path, j)
  OBVIOUS
<1>2. \A e : e \in Taken(path, c, n) <=> \E j \in 1..n : path[j].collection /\ e = Element(j)
  BY DEF Taken
<1> HIDE DEF Element
<1> QED BY <1>1, <1>2 DEF Traverses

\* Two choices take the same element of a common collection if they take the same elements up to it.
LEMMA SameMeans ==
  ASSUME NEW path, IsPath(path), NEW c \in Readings(path), NEW other, IsPath(other), NEW d \in Readings(other),
         NEW k \in DOMAIN path, k \in DOMAIN other, Names(path, k) = Names(other, k)
  PROVE  SameElement(path, c, other, d, k) <=> Taken(path, c, k) = Taken(other, d, k)
<1> DEFINE Mine(j) == <<Names(path, j), c[j]>>
           Theirs(j) == <<Names(other, j), d[j]>>
<1>0. k \in Nat /\ \A j \in 1..k : j \in DOMAIN path /\ j \in DOMAIN other /\ j \in Nat /\ j \in 0..k
  BY DEF IsPath
<1>1. \A j \in 1..k : Names(path, j) = Names(other, j)
  BY <1>0, NamesAlike
<1>2. /\ \A e : e \in Taken(path, c, k) <=> \E j \in 1..k : path[j].collection /\ e = Mine(j)
      /\ \A e : e \in Taken(other, d, k) <=> \E j \in 1..k : other[j].collection /\ e = Theirs(j)
  BY DEF Taken
<1>3. \A i, j \in 1..k : Names(path, i) = Names(path, j) => i = j
  BY <1>0, NamesLength
<1>4. \A j \in 1..k : (~ path[j].collection => c[j] = 1) /\ (~ other[j].collection => d[j] = 1)
  BY <1>0 DEF Readings
<1>5. \A i, j \in 1..k : Mine(i) = Theirs(j) <=> i = j /\ c[j] = d[j]
  BY <1>1, <1>3
<1> HIDE DEF Mine, Theirs
<1>6. ASSUME Taken(path, c, k) = Taken(other, d, k), NEW j \in 1..k
      PROVE  (path[j].collection <=> other[j].collection) /\ c[j] = d[j]
  <2>1. path[j].collection => other[j].collection /\ c[j] = d[j]
    BY <1>2, <1>5, <1>6
  <2>2. other[j].collection => path[j].collection
    BY <1>2, <1>5, <1>6
  <2> QED BY <1>4, <2>1, <2>2
<1>7. ASSUME \A j \in 1..k : (path[j].collection <=> other[j].collection) /\ c[j] = d[j]
      PROVE  Taken(path, c, k) = Taken(other, d, k)
  <2>1. \A j \in 1..k : Mine(j) = Theirs(j)
    BY <1>5, <1>7
  <2>2. ASSUME NEW e PROVE e \in Taken(path, c, k) <=> e \in Taken(other, d, k)
    BY <1>2, <1>7, <2>1
  <2> QED BY <2>2
<1>8. SameElement(path, c, other, d, k) <=> \A j \in 1..k : (path[j].collection <=> other[j].collection) /\ c[j] = d[j]
  BY DEF SameElement
<1> QED BY <1>6, <1>7, <1>8

\* The parts of a projection of selections (_project_selections).
PrefixesOf(outcomes) == UNION {{e[1] : e \in b} : b \in UNION {outcomes[k].successes : k \in DOMAIN outcomes}}
Projected(outcomes, k, prefix) == {UpTo(b, prefix) : b \in {c \in outcomes[k].successes : Traverses(c, prefix)}}
Groups(outcomes, prefix) == {k \in DOMAIN outcomes : Projected(outcomes, k, prefix) # {}}
SelectedAt(outcomes, mode, prefix) ==
  IF mode = "all"
  THEN {e \in UNION {Projected(outcomes, k, prefix) : k \in Groups(outcomes, prefix)} :
          \A k \in Groups(outcomes, prefix) : e \in Projected(outcomes, k, prefix)}
  ELSE UNION {Projected(outcomes, k, prefix) : k \in Groups(outcomes, prefix)}

\* Rules whose paths are sequences.
IsRule(rule) ==
  /\ \A i \in DOMAIN rule.when : IsPath(rule.when[i].path) /\ rule.when[i].operator \in Operators
  /\ \A i \in DOMAIN rule.requirements : IsPath(rule.requirements[i].path) /\ rule.requirements[i].operator \in Operators

\* Another path has the collection at depth k of this one.
Sharing(path, other, k) == k \in DOMAIN other /\ other[k].collection /\ Names(other, k) = Names(path, k)

\* A projection is made of its parts.
LEMMA ProjectionMeans ==
  ASSUME NEW outcomes, NEW mode
  PROVE  ProjectSelections(outcomes, mode) =
           [joint |-> \A p \in PrefixesOf(outcomes) :
                        mode = "all" /\ Cardinality(Groups(outcomes, p)) >= 2 => SelectedAt(outcomes, mode, p) # {},
            selections |-> [p \in PrefixesOf(outcomes) |-> SelectedAt(outcomes, mode, p)]]
BY Zenon DEF ProjectSelections, PrefixesOf, Groups, SelectedAt, Projected

\* A binding goes through the collection of another path exactly if its path has it.
LEMMA SharingMeans ==
  ASSUME NEW path, IsPath(path), NEW k \in DOMAIN path, NEW other, IsPath(other), NEW c
  PROVE  Traverses(Taken(other, c, Len(other)), Names(path, k)) <=> Sharing(path, other, k)
<1>1. Len(other) \in Nat /\ DOMAIN other = 1..Len(other) /\ k \in Nat
  BY DEF IsPath
<1>2. Traverses(Taken(other, c, Len(other)), Names(path, k)) <=>
        \E j \in 1..Len(other) : other[j].collection /\ Names(other, j) = Names(path, k)
  BY <1>1, TraversesMeans
<1>3. \A j \in 1..Len(other) : Names(other, j) = Names(path, k) => j = k
  BY <1>1, NamesLength
<1> QED BY <1>1, <1>2, <1>3 DEF Sharing

\* What a condition projects on a collection: its own elements of it, if it has any.
LEMMA ProjectedMeans ==
  ASSUME NEW nodes, Closed(nodes), NEW tree \in nodes, NEW rule, IsRule(rule), NEW i \in DOMAIN rule.when,
         NEW path, IsPath(path), NEW k \in DOMAIN path
  PROVE  Projected(Outcomes(tree, rule), i, Names(path, k)) =
           IF Sharing(path, rule.when[i].path, k) THEN ElementsOf(tree, rule.when[i], k) ELSE {}
<1> DEFINE w == rule.when[i]
           p == w.path
           n == Len(p)
           prefix == Names(path, k)
           successes == Outcomes(tree, rule)[i].successes
           Whole(c) == Taken(p, c, n)
<1>0. IsPath(p) /\ n \in Nat /\ DOMAIN p = 1..n
  BY DEF IsRule, IsPath
<1>1. Projected(Outcomes(tree, rule), i, prefix) = {UpTo(b, prefix) : b \in {b \in successes : Traverses(b, prefix)}}
  BY DEF Projected
<1>2. \A c : Traverses(Whole(c), prefix) <=> Sharing(path, p, k)
  BY <1>0, SharingMeans
<1>3. HadCollection(p) => successes = {Whole(c) : c \in Hits(tree, w)}
  <2>1. HadCollection(p) => successes = ElementsOf(tree, w, n)
    BY <1>0, OutcomeMeans DEF Outcomes
  <2> QED BY <2>1 DEF ElementsOf
<1>4. ~ HadCollection(p) => successes = {}
  BY <1>0, OutcomeMeans DEF Outcomes
<1>5. Sharing(path, p, k) => HadCollection(p)
  BY DEF Sharing, HadCollection
<1>6. ASSUME Sharing(path, p, k) PROVE \A c : UpTo(Whole(c), prefix) = Taken(p, c, k)
  <2>1. prefix = Names(p, k) /\ k \in 1..n
    BY <1>0, <1>6 DEF Sharing
  <2> QED BY <1>0, <2>1, UpToMeans
<1>7. ASSUME Sharing(path, p, k) PROVE Projected(Outcomes(tree, rule), i, prefix) = {Taken(p, c, k) : c \in Hits(tree, w)}
  <2> HIDE DEF successes, Whole, w, p, n, prefix
  <2> QED BY <1>1, <1>2, <1>3, <1>5, <1>6, <1>7
<1>8. ASSUME ~ Sharing(path, p, k) PROVE Projected(Outcomes(tree, rule), i, prefix) = {}
  <2> HIDE DEF successes, Whole, w, p, n, prefix
  <2> QED BY <1>1, <1>2, <1>3, <1>4, <1>8
<1> QED BY <1>7, <1>8 DEF ElementsOf

\* The conditions that have something to say of a collection are those that select elements of it.
LEMMA GroupsMeans ==
  ASSUME NEW nodes, Closed(nodes), NEW tree \in nodes, NEW rule, IsRule(rule),
         NEW path, IsPath(path), NEW k \in DOMAIN path
  PROVE  Groups(Outcomes(tree, rule), Names(path, k)) = Selecting(tree, rule, path, k)
<1>1. DOMAIN Outcomes(tree, rule) = DOMAIN rule.when
  BY DEF Outcomes
<1>2. \A i \in DOMAIN rule.when : Projected(Outcomes(tree, rule), i, Names(path, k)) # {} <=>
                                   Sharing(path, rule.when[i].path, k) /\ Hits(tree, rule.when[i]) # {}
  BY ProjectedMeans DEF ElementsOf
<1>3. Selecting(tree, rule, path, k) =
        {i \in DOMAIN rule.when : Sharing(path, rule.when[i].path, k) /\ Hits(tree, rule.when[i]) # {}}
  BY DEF Selecting, Sharing
<1> QED BY <1>1, <1>2, <1>3 DEF Groups

\* An element is projected by a condition exactly if the condition is satisfied there.
LEMMA SatisfiesMeans ==
  ASSUME NEW nodes, Closed(nodes), NEW tree \in nodes, NEW rule, IsRule(rule),
         NEW path, IsPath(path), NEW k \in DOMAIN path, NEW i \in Selecting(tree, rule, path, k), NEW c \in Readings(path)
  PROVE  Taken(path, c, k) \in Projected(Outcomes(tree, rule), i, Names(path, k)) <=> Satisfies(tree, rule, i, path, c, k)
<1> DEFINE w == rule.when[i]
           p == w.path
<1>1. i \in DOMAIN rule.when /\ Sharing(path, p, k)
  BY DEF Selecting, Sharing
<1>2. IsPath(p)
  BY <1>1 DEF IsRule
<1>3. Projected(Outcomes(tree, rule), i, Names(path, k)) = ElementsOf(tree, w, k)
  BY <1>1, ProjectedMeans
<1>4. \A d \in Hits(tree, w) : d \in Readings(p)
  BY DEF Hits, ValuesAt
<1>5. \A d \in Hits(tree, w) : SameElement(path, c, p, d, k) <=> Taken(path, c, k) = Taken(p, d, k)
  BY <1>1, <1>2, <1>4, SameMeans DEF Sharing
<1>6. Satisfies(tree, rule, i, path, c, k) <=> \E d \in Hits(tree, w) : SameElement(path, c, p, d, k)
  BY DEF Satisfies
<1>7. Taken(path, c, k) \in ElementsOf(tree, w, k) <=> \E d \in Hits(tree, w) : Taken(path, c, k) = Taken(p, d, k)
  BY DEF ElementsOf
<1> QED BY <1>3, <1>5, <1>6, <1>7

\* The collections on the ways to elements that satisfy a condition.
WaysOf(tree, w) ==
  {Names(w.path, k) : k \in {j \in DOMAIN w.path : w.path[j].collection /\ Hits(tree, w) # {}}}

\* The prefixes of a rule are the ways of its conditions.
LEMMA PrefixesMeans ==
  ASSUME NEW nodes, Closed(nodes), NEW tree \in nodes, NEW rule, IsRule(rule)
  PROVE  \A x : x \in PrefixesOf(Outcomes(tree, rule)) <=> \E i \in DOMAIN rule.when : x \in WaysOf(tree, rule.when[i])
<1> DEFINE outcomes == Outcomes(tree, rule)
           W(i) == rule.when[i]
           P(i) == W(i).path
           Depths(i) == {j \in DOMAIN P(i) : P(i)[j].collection /\ Hits(tree, W(i)) # {}}
           Way(i) == {Names(P(i), k) : k \in Depths(i)}
           Traversed(i) == UNION {{e[1] : e \in b} : b \in outcomes[i].successes}
<1>1. DOMAIN outcomes = DOMAIN rule.when
  BY DEF Outcomes
<1>2. ASSUME NEW i \in DOMAIN rule.when PROVE Traversed(i) = Way(i)
  <2> DEFINE p == P(i)
             n == Len(p)
             successes == outcomes[i].successes
             Element(c, j) == <<Names(p, j), c[j]>>
             hits == Hits(tree, W(i))
  <2>1. IsPath(p) /\ n \in Nat /\ DOMAIN p = 1..n
    BY DEF IsRule, IsPath
  <2>2. successes = IF HadCollection(p) THEN ElementsOf(tree, W(i), n) ELSE {}
    BY <2>1, OutcomeMeans DEF Outcomes
  <2>3. ElementsOf(tree, W(i), n) = {Taken(p, c, n) : c \in hits}
    BY DEF ElementsOf
  <2>4. HadCollection(p) <=> \E j \in 1..n : p[j].collection
    BY <2>1 DEF HadCollection
  <2>5. \A c, e : e \in Taken(p, c, n) <=> \E j \in 1..n : p[j].collection /\ e = Element(c, j)
    BY DEF Taken
  <2>6. \A c, j : Element(c, j)[1] = Names(p, j)
    OBVIOUS
  <2>7. \A j : j \in Depths(i) <=> j \in 1..n /\ p[j].collection /\ hits # {}
    BY <2>1
  <2>8. \A x : x \in Way(i) <=> \E j \in Depths(i) : x = Names(p, j)
    OBVIOUS
  <2>9. \A x : x \in Traversed(i) <=> \E b \in successes : \E e \in b : x = e[1]
    OBVIOUS
  <2> HIDE DEF Element, hits, successes, p, n, Depths, Way, Traversed, outcomes, W
  <2>10. ASSUME NEW x \in Traversed(i) PROVE x \in Way(i)
    <3>1. PICK b \in successes : \E e \in b : x = e[1]
      BY <2>9
    <3>2. PICK c \in hits : b = Taken(p, c, n)
      BY <2>2, <2>3, <3>1
    <3>3. PICK j \in 1..n : p[j].collection /\ x = Element(c, j)[1]
      BY <2>5, <3>1, <3>2
    <3> QED BY <2>6, <2>7, <2>8, <3>2, <3>3
  <2>11. ASSUME NEW x \in Way(i) PROVE x \in Traversed(i)
    <3>1. PICK j \in Depths(i) : x = Names(p, j)
      BY <2>8
    <3>2. PICK c \in hits : TRUE
      BY <2>7
    <3>3. Element(c, j) \in Taken(p, c, n) /\ Element(c, j)[1] = x
      BY <2>5, <2>6, <2>7, <3>1
    <3>4. Taken(p, c, n) \in successes
      BY <2>2, <2>3, <2>4, <2>7, <3>2
    <3> QED BY <2>9, <3>3, <3>4
  <2> QED BY <2>10, <2>11
<1>3. PrefixesOf(outcomes) = UNION {Traversed(i) : i \in DOMAIN outcomes}
  <2>1. \A x : x \in PrefixesOf(outcomes) <=> \E i \in DOMAIN outcomes : \E b \in outcomes[i].successes : \E e \in b : x = e[1]
    BY DEF PrefixesOf
  <2>2. \A x : x \in UNION {Traversed(i) : i \in DOMAIN outcomes} <=>
                 \E i \in DOMAIN outcomes : \E b \in outcomes[i].successes : \E e \in b : x = e[1]
    OBVIOUS
  <2> QED BY <2>1, <2>2
<1> HIDE DEF Traversed, Way, outcomes
<1>4. PrefixesOf(outcomes) = UNION {Way(i) : i \in DOMAIN rule.when}
  BY <1>1, <1>2, <1>3
<1>5. \A i : Way(i) = WaysOf(tree, W(i))
  BY DEF Way, WaysOf
<1> QED BY <1>4, <1>5 DEF outcomes

\* A collection has a selection exactly if a condition selects elements of it.
LEMMA PrefixesSelect ==
  ASSUME NEW nodes, Closed(nodes), NEW tree \in nodes, NEW rule, IsRule(rule), NEW path, IsPath(path), NEW k \in DOMAIN path
  PROVE  Names(path, k) \in PrefixesOf(Outcomes(tree, rule)) <=> Selecting(tree, rule, path, k) # {}
<1> DEFINE P(i) == rule.when[i].path
<1>0. k \in Nat /\ \A i \in DOMAIN rule.when : DOMAIN P(i) = 1..Len(P(i)) /\ Len(P(i)) \in Nat
  BY DEF IsRule, IsPath
<1>1. Names(path, k) \in PrefixesOf(Outcomes(tree, rule)) <=>
        \E i \in DOMAIN rule.when : \E j \in DOMAIN P(i) :
          P(i)[j].collection /\ Hits(tree, rule.when[i]) # {} /\ Names(path, k) = Names(P(i), j)
  <2>1. Names(path, k) \in PrefixesOf(Outcomes(tree, rule)) <=>
          \E i \in DOMAIN rule.when : Names(path, k) \in WaysOf(tree, rule.when[i])
    BY PrefixesMeans
  <2>2. \A w : Names(path, k) \in WaysOf(tree, w) <=>
          \E j \in DOMAIN w.path : w.path[j].collection /\ Hits(tree, w) # {} /\ Names(path, k) = Names(w.path, j)
    BY DEF WaysOf
  <2> QED BY <2>1, <2>2
<1>2. \A i \in DOMAIN rule.when : \A j \in DOMAIN P(i) : Names(path, k) = Names(P(i), j) => j = k
  <2>1. ASSUME NEW i \in DOMAIN rule.when, NEW j \in DOMAIN P(i), Names(path, k) = Names(P(i), j) PROVE j = k
    <3>1. j \in Nat
      BY <1>0
    <3> QED BY <1>0, <2>1, <3>1, NamesLength
  <2> QED BY <2>1
<1>3. Selecting(tree, rule, path, k) =
        {i \in DOMAIN rule.when : k \in DOMAIN P(i) /\ P(i)[k].collection /\ Names(P(i), k) = Names(path, k) /\ Hits(tree, rule.when[i]) # {}}
  BY DEF Selecting
<1> HIDE DEF P
<1> QED BY <1>1, <1>2, <1>3

\* The elements selected in a collection are those the rule is about.
LEMMA SelectedMeans ==
  ASSUME NEW nodes, Closed(nodes), NEW tree \in nodes, NEW rule, IsRule(rule), NEW path, IsPath(path), NEW k \in DOMAIN path,
         Selecting(tree, rule, path, k) # {}, NEW c \in Readings(path)
  PROVE  Taken(path, c, k) \in SelectedAt(Outcomes(tree, rule), rule.mode, Names(path, k)) <=> Selected(tree, rule, path, c, k)
<1> DEFINE about == Selecting(tree, rule, path, k)
           Part(i) == Projected(Outcomes(tree, rule), i, Names(path, k))
           element == Taken(path, c, k)
<1>1. Groups(Outcomes(tree, rule), Names(path, k)) = about
  BY GroupsMeans
<1>2. \A i \in about : element \in Part(i) <=> Satisfies(tree, rule, i, path, c, k)
  BY SatisfiesMeans
<1>3. SelectedAt(Outcomes(tree, rule), rule.mode, Names(path, k)) =
        IF rule.mode = "all" THEN {e \in UNION {Part(i) : i \in about} : \A i \in about : e \in Part(i)}
        ELSE UNION {Part(i) : i \in about}
  BY <1>1 DEF SelectedAt
<1> HIDE DEF Part, element, about
<1>4. about # {}
  BY DEF about
<1>5. element \in SelectedAt(Outcomes(tree, rule), rule.mode, Names(path, k)) <=>
        IF rule.mode = "all" THEN \A i \in about : element \in Part(i) ELSE \E i \in about : element \in Part(i)
  BY <1>3, <1>4
<1>6. Selected(tree, rule, path, c, k) <=>
        IF rule.mode = "all" THEN \A i \in about : Satisfies(tree, rule, i, path, c, k)
        ELSE \E i \in about : Satisfies(tree, rule, i, path, c, k)
  BY <1>4 DEF Selected, about
<1> QED BY <1>2, <1>5, <1>6 DEF element

\* A choice that agrees with the selections at every collection of its path.
Within(tree, rule, path, c) == \A k \in DOMAIN path : path[k].collection => Selected(tree, rule, path, c, k)

\* A choice is within the selections of a rule exactly if the rule is about its elements.
LEMMA WithinMeans ==
  ASSUME NEW nodes, Closed(nodes), NEW tree \in nodes, NEW rule, IsRule(rule), NEW path, IsPath(path), NEW c \in Readings(path)
  PROVE  LET outcomes == Outcomes(tree, rule)
             binding == Taken(path, c, Len(path))
         IN (\A p \in PrefixesOf(outcomes) :
               Traverses(binding, p) => UpTo(binding, p) \in SelectedAt(outcomes, rule.mode, p))
            <=> Within(tree, rule, path, c)
<1> DEFINE outcomes == Outcomes(tree, rule)
           n == Len(path)
           binding == Taken(path, c, n)
           Good(p) == UpTo(binding, p) \in SelectedAt(outcomes, rule.mode, p)
<1>0. n \in Nat /\ DOMAIN path = 1..n
  BY DEF IsPath
<1>1. \A p : Traverses(binding, p) <=> \E j \in DOMAIN path : path[j].collection /\ Names(path, j) = p
  BY <1>0, TraversesMeans
<1>2. \A k \in DOMAIN path : UpTo(binding, Names(path, k)) = Taken(path, c, k)
  BY <1>0, UpToMeans
<1>3. \A k \in DOMAIN path : Names(path, k) \in PrefixesOf(outcomes) <=> Selecting(tree, rule, path, k) # {}
  BY PrefixesSelect
<1>4. \A k \in DOMAIN path : Selecting(tree, rule, path, k) # {} => (Good(Names(path, k)) <=> Selected(tree, rule, path, c, k))
  BY <1>2, SelectedMeans
<1>5. \A k \in DOMAIN path : Selecting(tree, rule, path, k) = {} => Selected(tree, rule, path, c, k)
  BY DEF Selected
<1> HIDE DEF Good, binding, outcomes
<1>6. ASSUME \A p \in PrefixesOf(outcomes) : Traverses(binding, p) => Good(p) PROVE Within(tree, rule, path, c)
  <2>1. ASSUME NEW k \in DOMAIN path, path[k].collection PROVE Selected(tree, rule, path, c, k)
    BY <1>1, <1>3, <1>4, <1>5, <1>6, <2>1
  <2> QED BY <2>1 DEF Within
<1>7. ASSUME Within(tree, rule, path, c), NEW p \in PrefixesOf(outcomes), Traverses(binding, p) PROVE Good(p)
  <2>1. PICK k \in DOMAIN path : path[k].collection /\ Names(path, k) = p
    BY <1>1, <1>7
  <2>2. Selected(tree, rule, path, c, k) /\ Selecting(tree, rule, path, k) # {}
    BY <1>3, <1>7, <2>1 DEF Within
  <2> QED BY <1>4, <2>1, <2>2
<1> QED BY <1>6, <1>7 DEF Good, binding, outcomes

\* The selections of a rule's conditions.
SelectionsOf(tree, rule) == [p \in PrefixesOf(Outcomes(tree, rule)) |-> SelectedAt(Outcomes(tree, rule), rule.mode, p)]

\* The values that a requirement binds are those the rule is about (_apply_selections).
LEMMA ApplicableMeans ==
  ASSUME NEW nodes, Closed(nodes), NEW tree \in nodes, NEW rule, IsRule(rule), NEW path, IsPath(path)
  PROVE  Applicable(Results(tree, path, ValuesAt(tree, path)), SelectionsOf(tree, rule)) =
           Results(tree, path, About(tree, rule, path))
<1> DEFINE outcomes == Outcomes(tree, rule)
           n == Len(path)
           Value(c) == [node |-> At(tree, path, c), binding |-> Taken(path, c, n)]
           Good(b) == \A p \in PrefixesOf(outcomes) : Traverses(b, p) => UpTo(b, p) \in SelectedAt(outcomes, rule.mode, p)
           values == Results(tree, path, ValuesAt(tree, path))
<1>1. \A c : Value(c).binding = Taken(path, c, n)
  OBVIOUS
<1>2. \A c \in ValuesAt(tree, path) : c \in Readings(path)
  BY DEF ValuesAt
<1>3. \A c \in ValuesAt(tree, path) : Good(Taken(path, c, n)) <=> Within(tree, rule, path, c)
  BY <1>2, WithinMeans
<1>4. About(tree, rule, path) = {c \in ValuesAt(tree, path) : Within(tree, rule, path, c)}
  BY DEF About, Within
<1>5. Applicable(values, SelectionsOf(tree, rule)) = {v \in values : Good(v.binding)}
  <2> HIDE DEF values
  <2>1. DOMAIN SelectionsOf(tree, rule) = PrefixesOf(outcomes)
        /\ \A p \in PrefixesOf(outcomes) : SelectionsOf(tree, rule)[p] = SelectedAt(outcomes, rule.mode, p)
    BY DEF SelectionsOf
  <2> HIDE DEF outcomes
  <2> QED BY <2>1 DEF Applicable
<1>6. \A x : x \in values <=> \E c \in ValuesAt(tree, path) : x = Value(c)
  BY DEF Results
<1>7. \A x : x \in Results(tree, path, About(tree, rule, path)) <=> \E c \in About(tree, rule, path) : x = Value(c)
  BY DEF Results
<1> HIDE DEF Value, Good, values
<1>8. \A x : x \in Applicable(values, SelectionsOf(tree, rule)) <=> x \in Results(tree, path, About(tree, rule, path))
  BY <1>1, <1>3, <1>4, <1>5, <1>6, <1>7
<1> QED BY <1>8 DEF values

\* Conditions that share a collection are met by one element of it, if each is met at all.
LEMMA JointMeans ==
  ASSUME NEW nodes, Closed(nodes), NEW tree \in nodes, NEW rule, IsRule(rule),
         rule.mode = "all", \A i \in DOMAIN rule.when : Hits(tree, rule.when[i]) # {}
  PROVE  Joint(tree, rule) <=>
           \A p \in PrefixesOf(Outcomes(tree, rule)) :
             Cardinality(Groups(Outcomes(tree, rule), p)) >= 2 => SelectedAt(Outcomes(tree, rule), rule.mode, p) # {}
<1> DEFINE outcomes == Outcomes(tree, rule)
           P(i) == rule.when[i].path
           Met(i, k) == \E c \in Hits(tree, rule.when[i]) : Selected(tree, rule, P(i), c, k)
           Chosen(p) == SelectedAt(outcomes, rule.mode, p)
           Several(p) == Cardinality(Groups(outcomes, p)) >= 2
<1>0. \A i \in DOMAIN rule.when : IsPath(P(i))
  BY DEF IsRule
<1>1. Joint(tree, rule) <=> \A i \in DOMAIN rule.when : \A k \in DOMAIN P(i) :
                              P(i)[k].collection /\ Several(Names(P(i), k)) => Met(i, k)
  <2>1. \A i \in DOMAIN rule.when : \A k \in DOMAIN P(i) : Groups(outcomes, Names(P(i), k)) = Selecting(tree, rule, P(i), k)
    <3>1. ASSUME NEW i \in DOMAIN rule.when, NEW k \in DOMAIN P(i)
          PROVE  Groups(outcomes, Names(P(i), k)) = Selecting(tree, rule, P(i), k)
      <4>1. IsPath(P(i))
        BY <1>0
      <4> QED BY <4>1, GroupsMeans
    <3> QED BY <3>1
  <2> QED BY <2>1 DEF Joint
<1>2. ASSUME NEW i \in DOMAIN rule.when, NEW k \in DOMAIN P(i), P(i)[k].collection
      PROVE  Chosen(Names(P(i), k)) # {} <=> Met(i, k)
  <2> DEFINE about == Selecting(tree, rule, P(i), k)
  <2>1. IsPath(P(i))
    BY <1>0
  <2>2. i \in about
    BY <1>2 DEF Selecting
  <2>3. Sharing(P(i), P(i), k)
    BY <1>2 DEF Sharing
  <2>4. Projected(outcomes, i, Names(P(i), k)) = ElementsOf(tree, rule.when[i], k)
    BY <2>1, <2>3, ProjectedMeans
  <2>5. Groups(outcomes, Names(P(i), k)) = about
    BY <2>1, GroupsMeans
  <2>6. \A e \in Chosen(Names(P(i), k)) : e \in ElementsOf(tree, rule.when[i], k)
    <3> HIDE DEF about
    <3> QED BY <2>2, <2>4, <2>5 DEF SelectedAt
  <2>7. \A c \in Hits(tree, rule.when[i]) : Taken(P(i), c, k) \in Chosen(Names(P(i), k)) <=> Selected(tree, rule, P(i), c, k)
    <3>1. \A c \in Hits(tree, rule.when[i]) : c \in Readings(P(i))
      BY DEF Hits, ValuesAt
    <3>2. about # {}
      BY <2>2
    <3> QED BY <2>1, <3>1, <3>2, SelectedMeans
  <2>8. \A e \in ElementsOf(tree, rule.when[i], k) : \E c \in Hits(tree, rule.when[i]) : e = Taken(P(i), c, k)
    BY DEF ElementsOf
  <2> HIDE DEF Chosen, P
  <2> QED BY <2>6, <2>7, <2>8
<1>3. \A p : p \in PrefixesOf(outcomes) <=> \E i \in DOMAIN rule.when : \E k \in DOMAIN P(i) : P(i)[k].collection /\ p = Names(P(i), k)
  <2>1. \A p : p \in PrefixesOf(outcomes) <=> \E i \in DOMAIN rule.when : p \in WaysOf(tree, rule.when[i])
    BY PrefixesMeans
  <2>2. \A p, w : p \in WaysOf(tree, w) <=> \E k \in DOMAIN w.path : w.path[k].collection /\ Hits(tree, w) # {} /\ p = Names(w.path, k)
    BY DEF WaysOf
  <2> HIDE DEF outcomes
  <2> QED BY <2>1, <2>2
<1> HIDE DEF Chosen, Several, Met, P, outcomes
<1>4. Joint(tree, rule) <=> \A p \in PrefixesOf(outcomes) : Several(p) => Chosen(p) # {}
  BY <1>1, <1>2, <1>3
<1> QED BY <1>4 DEF Chosen, Several, outcomes

\* What the conditions of a rule come to (evaluate of the conditions).
LEMMA ConditionMeans ==
  ASSUME NEW nodes, Closed(nodes), NEW tree \in nodes, NEW rule, IsRule(rule)
  PROVE  LET condition == ConditionOutcome(tree, rule)
         IN /\ condition.matched <=> Applies(tree, rule)
            /\ condition.selections = SelectionsOf(tree, rule)
            /\ condition.errors = ConditionErrors(tree, rule)
<1> DEFINE outcomes == Outcomes(tree, rule)
           projection == ProjectSelections(outcomes, rule.mode)
           condition == ConditionOutcome(tree, rule)
<1>1. DOMAIN outcomes = DOMAIN rule.when
      /\ \A i \in DOMAIN rule.when : (outcomes[i].matched <=> Hits(tree, rule.when[i]) # {})
                                     /\ outcomes[i].errors = ErrorsOf(tree, rule.when[i])
  BY OutcomeMeans DEF Outcomes, IsRule
<1>2. /\ projection.joint <=> \A p \in PrefixesOf(outcomes) :
           rule.mode = "all" /\ Cardinality(Groups(outcomes, p)) >= 2 => SelectedAt(outcomes, rule.mode, p) # {}
      /\ projection.selections = SelectionsOf(tree, rule)
  BY ProjectionMeans DEF SelectionsOf
<1>3. ConditionOutcome(tree, rule) = Joined(rule.mode, outcomes, projection)
  BY DEF ConditionOutcome, ConditionsOf
<1> HIDE DEF outcomes, projection
<1>4. /\ condition.matched = CASE rule.mode = "always" -> TRUE
                               [] rule.mode = "all" -> projection.joint /\ \A k \in DOMAIN outcomes : outcomes[k].matched
                               [] OTHER -> \E k \in DOMAIN outcomes : outcomes[k].matched
      /\ condition.selections = projection.selections
      /\ condition.errors = UNION {outcomes[k].errors : k \in DOMAIN outcomes}
  BY <1>3 DEF Joined
<1>5. condition.errors = ConditionErrors(tree, rule)
  <2>1. ConditionErrors(tree, rule) = UNION {ErrorsOf(tree, rule.when[i]) : i \in DOMAIN rule.when}
    BY Zenon DEF ConditionErrors, ErrorsOf
  <2> QED BY <1>1, <1>4, <2>1
<1>6. condition.matched <=> Applies(tree, rule)
  <2> HIDE DEF condition
  <2>1. CASE rule.mode = "always"
    BY <1>4, <2>1 DEF Applies
  <2>2. CASE rule.mode = "all"
    <3>1. Applies(tree, rule) <=> Joint(tree, rule) /\ \A i \in DOMAIN rule.when : Hits(tree, rule.when[i]) # {}
      BY <2>2 DEF Applies
    <3>2. condition.matched <=> projection.joint /\ \A k \in DOMAIN outcomes : outcomes[k].matched
      BY <1>4, <2>2
    <3>3. (\A k \in DOMAIN outcomes : outcomes[k].matched) <=> \A i \in DOMAIN rule.when : Hits(tree, rule.when[i]) # {}
      BY <1>1
    <3>4. ASSUME \A i \in DOMAIN rule.when : Hits(tree, rule.when[i]) # {} PROVE projection.joint <=> Joint(tree, rule)
      BY <1>2, <2>2, <3>4, JointMeans DEF outcomes
    <3> QED BY <3>1, <3>2, <3>3, <3>4
  <2>3. CASE rule.mode # "always" /\ rule.mode # "all"
    BY <1>1, <1>4, <2>3 DEF Applies
  <2> QED BY <2>1, <2>2, <2>3
<1> QED BY <1>2, <1>4, <1>5, <1>6

\* What a requirement comes to on the values that the rule is about.
LEMMA RequirementMeans ==
  ASSUME NEW nodes, Closed(nodes), NEW tree \in nodes, NEW rule, IsRule(rule), NEW r, IsPath(r.path)
  PROVE  Requirement(tree, rule, r, SelectionsOf(tree, rule)) = Unmet(tree, rule, r)
<1> DEFINE errors == BrokenReadings(tree, r.path)
           about == About(tree, rule, r.path)
           judged == JudgedOf(tree, r, about)
           Verdict(c) == [binding |-> Taken(r.path, c, Len(r.path)), answer |-> Says(tree, r, c)]
           Reports(c) == Finding(rule, Failure(Says(tree, r, c)), Taken(r.path, c, Len(r.path)))
           failing == {j \in judged : j.answer # "yes"}
           wrong == {c \in about : Says(tree, r, c) # "yes"}
<1>1. Requirement(tree, rule, r, SelectionsOf(tree, rule)) = RequirementOn(rule, r, errors, judged)
  <2>1. Resolve(tree, r.path).values = Results(tree, r.path, ValuesAt(tree, r.path)) /\ Resolve(tree, r.path).errors = errors
    BY ResolveMeans
  <2>2. Applicable(Resolve(tree, r.path).values, SelectionsOf(tree, rule)) = Results(tree, r.path, about)
    BY <2>1, ApplicableMeans
  <2> HIDE DEF errors, about
  <2> QED BY <2>1, <2>2 DEF Requirement, JudgedOf
<1>2. judged = {Verdict(c) : c \in about}
  BY JudgedMeans DEF VerdictsOf
<1>3. RequirementOn(rule, r, errors, judged) =
        IF errors # {} THEN {Finding(rule, e.code, e.binding) : e \in errors}
        ELSE IF HadCollection(r.path) /\ judged = {} THEN {Finding(rule, "RULE_EMPTY_COLLECTION", {})}
        ELSE {Finding(rule, Failure(j.answer), j.binding) : j \in failing}
  BY DEF RequirementOn
<1>4. Unmet(tree, rule, r) =
        IF errors # {} THEN {Finding(rule, e.code, e.binding) : e \in errors}
        ELSE IF HadCollection(r.path) /\ about = {} THEN {Finding(rule, "RULE_EMPTY_COLLECTION", {})}
        ELSE {Reports(c) : c \in wrong}
  BY Zenon DEF Unmet
<1>5. \A c : Verdict(c).binding = Taken(r.path, c, Len(r.path)) /\ Verdict(c).answer = Says(tree, r, c)
  OBVIOUS
<1>6. \A c : Reports(c) = Finding(rule, Failure(Verdict(c).answer), Verdict(c).binding)
  BY <1>5
<1>7. \A c \in about : c \in wrong <=> Verdict(c).answer # "yes"
  BY <1>5
<1>8. wrong \subseteq about
  OBVIOUS
<1> HIDE DEF judged, Verdict, Reports, wrong, about, errors
<1>9. judged = {} <=> about = {}
  BY <1>2
<1>10. {Finding(rule, Failure(j.answer), j.binding) : j \in failing} = {Reports(c) : c \in wrong}
  <2>1. \A j : j \in failing <=> \E c \in wrong : j = Verdict(c)
    BY <1>2, <1>7, <1>8
  <2> HIDE DEF failing
  <2> QED BY <1>6, <2>1
<1> HIDE DEF failing
<1> QED BY <1>1, <1>3, <1>4, <1>9, <1>10

\* A rule is evaluated to what it means.
THEOREM EvaluateMeans ==
  ASSUME NEW nodes, Closed(nodes), NEW tree \in nodes, NEW rule, IsRule(rule)
  PROVE  EvaluateRule(tree, rule) = Meaning(tree, rule)
<1> DEFINE condition == ConditionOutcome(tree, rule)
           errors == ConditionErrors(tree, rule)
           Reported(e) == Finding(rule, e.code, e.binding)
           Required(i) == Requirement(tree, rule, rule.requirements[i], SelectionsOf(tree, rule))
           Missed(i) == Unmet(tree, rule, rule.requirements[i])
<1>1. /\ condition.matched <=> Applies(tree, rule)
      /\ condition.selections = SelectionsOf(tree, rule)
      /\ condition.errors = errors
  BY ConditionMeans
<1>2. \A i \in DOMAIN rule.requirements : Required(i) = Missed(i)
  BY RequirementMeans DEF IsRule
<1>3. ReadErrors(condition) = errors
  BY <1>1 DEF ReadErrors
<1>4. EvaluateRule(tree, rule) =
        IF errors # {} THEN {Reported(e) : e \in errors}
        ELSE IF ~ condition.matched THEN {}
        ELSE UNION {Required(i) : i \in DOMAIN rule.requirements}
  <2> HIDE DEF condition, errors
  <2>1. EvaluateRule(tree, rule) = EvaluateUnder(tree, rule, condition)
    BY DEF EvaluateRule, condition
  <2> QED BY <1>1, <1>3, <2>1 DEF EvaluateUnder
<1>5. Meaning(tree, rule) =
        IF errors # {} THEN {Reported(e) : e \in errors}
        ELSE IF ~ Applies(tree, rule) THEN {}
        ELSE UNION {Missed(i) : i \in DOMAIN rule.requirements}
  BY Zenon DEF Meaning
<1> HIDE DEF condition, errors, Reported, Required, Missed
<1>6. UNION {Required(i) : i \in DOMAIN rule.requirements} = UNION {Missed(i) : i \in DOMAIN rule.requirements}
  BY <1>2
<1> QED BY <1>1, <1>4, <1>5, <1>6

\* The findings of a rule bear its name.
LEMMA FindingsNamed ==
  ASSUME NEW tree, NEW rule, NEW f \in Meaning(tree, rule)
  PROVE  f.rule = rule.id
<1> DEFINE errors == ConditionErrors(tree, rule)
           Bears(S) == \A x \in S : x.rule = rule.id
<1>1. \A code, b : Finding(rule, code, b).rule = rule.id
  BY DEF Finding
<1>2. Bears({Finding(rule, e.code, e.binding) : e \in errors})
  BY <1>1
<1>3. ASSUME NEW r PROVE Bears(Unmet(tree, rule, r))
  <2> DEFINE broken == BrokenReadings(tree, r.path)
             about == About(tree, rule, r.path)
             wrong == {d \in about : Says(tree, r, d) # "yes"}
  <2>1. Unmet(tree, rule, r) =
          IF broken # {} THEN {Finding(rule, b.code, b.binding) : b \in broken}
          ELSE IF HadCollection(r.path) /\ about = {} THEN {Finding(rule, "RULE_EMPTY_COLLECTION", {})}
          ELSE {Finding(rule, Failure(Says(tree, r, c)), Taken(r.path, c, Len(r.path))) : c \in wrong}
    BY Zenon DEF Unmet
  <2> HIDE DEF broken, about, wrong
  <2> QED BY <1>1, <2>1
<1>4. Meaning(tree, rule) =
        IF errors # {} THEN {Finding(rule, e.code, e.binding) : e \in errors}
        ELSE IF ~ Applies(tree, rule) THEN {}
        ELSE UNION {Unmet(tree, rule, rule.requirements[i]) : i \in DOMAIN rule.requirements}
  BY Zenon DEF Meaning
<1> HIDE DEF errors
<1> QED BY <1>2, <1>3, <1>4

\* The findings that bear the name of a rule are those the rule asks for, if no two rules share a name.
LEMMA RulesMean ==
  ASSUME NEW nodes, Closed(nodes), NEW tree \in nodes, NEW rules, \A r \in rules : IsRule(r),
         \A r, q \in rules : r.id = q.id => r = q, NEW r \in rules
  PROVE  {f \in EvaluateRules(tree, rules) : f.rule = r.id} = Meaning(tree, r)
<1>1. \A q \in rules : EvaluateRule(tree, q) = Meaning(tree, q)
  BY EvaluateMeans
<1>2. \A f : f \in EvaluateRules(tree, rules) <=> \E q \in rules : f \in Meaning(tree, q)
  BY <1>1 DEF EvaluateRules
<1>3. \A q \in rules : \A f \in Meaning(tree, q) : f.rule = q.id
  BY FindingsNamed
<1> QED BY <1>2, <1>3

\* A rule that a pack may have, under the name it gets in a composition.
LEMMA AdmittedIsRule ==
  ASSUME NEW r, AdmittedRule(r), NEW name
  PROVE  [r EXCEPT !.id = name].id = name /\ IsRule([r EXCEPT !.id = name])
<1> DEFINE q == [r EXCEPT !.id = name]
<1>1. r = [id |-> r.id, severity |-> r.severity, mode |-> r.mode, when |-> r.when, requirements |-> r.requirements]
      /\ \A predicate \in Elements(r.when) \cup Elements(r.requirements) :
           predicate.path \in Seq(Elements(predicate.path)) /\ predicate.operator \in Operators
  BY DEF AdmittedRule
<1>2. q.id = name /\ q.when = r.when /\ q.requirements = r.requirements
  BY <1>1
<1> HIDE DEF q
<1>3. \A path : path \in Seq(Elements(path)) => IsPath(path)
  BY DEF IsPath
<1>4. /\ \A i \in DOMAIN r.when : r.when[i] \in Elements(r.when)
      /\ \A i \in DOMAIN r.requirements : r.requirements[i] \in Elements(r.requirements)
  BY DEF Elements
<1>5. /\ \A i \in DOMAIN r.when : IsPath(r.when[i].path) /\ r.when[i].operator \in Operators
      /\ \A i \in DOMAIN r.requirements : IsPath(r.requirements[i].path) /\ r.requirements[i].operator \in Operators
  BY <1>1, <1>3, <1>4
<1>6. IsRule(q)
  BY <1>2, <1>5 DEF IsRule
<1> QED BY <1>2, <1>6 DEF q

\* The rules of packs that compose: no two have one name.
LEMMA MergedRulesNamed ==
  ASSUME NEW selected, \A p \in selected : AdmittedPack(p.payload) /\ ~ DuplicateIds(p),
         \A p, q \in selected : p.payload.id = q.payload.id => p.payload = q.payload
  PROVE  /\ \A r \in MergedRules(selected) : IsRule(r) /\ r.id # << >>
         /\ \A r, q \in MergedRules(selected) : r.id = q.id => r = q
<1> DEFINE InPack(p, x) == [x EXCEPT !.id = <<p.payload.id, x.id>>]
<1>1. \A r : r \in MergedRules(selected) <=> \E p \in selected : \E x \in Elements(p.payload.rules) : r = InPack(p, x)
  BY DEF MergedRules
<1>2. \A p \in selected : \A x \in Elements(p.payload.rules) :
        InPack(p, x).id = <<p.payload.id, x.id>> /\ IsRule(InPack(p, x))
  <2>1. \A p \in selected : \A x \in Elements(p.payload.rules) : AdmittedRule(x)
    BY DEF AdmittedPack
  <2> QED BY <2>1, AdmittedIsRule
<1>3. ASSUME NEW p \in selected, NEW x \in Elements(p.payload.rules), NEW y \in Elements(p.payload.rules), x.id = y.id
      PROVE  x = y
  <2> DEFINE rules == p.payload.rules
  <2>1. rules \in Seq(Elements(rules)) /\ ~ DuplicateIds(p)
    BY DEF AdmittedPack
  <2>2. \A i, j \in DOMAIN rules : ~ (i < j /\ rules[i].id = rules[j].id)
    BY <2>1 DEF DuplicateIds
  <2>3. \A i \in DOMAIN rules : i \in Nat
    BY <2>1
  <2>4. PICK i \in DOMAIN rules, j \in DOMAIN rules : x = rules[i] /\ y = rules[j]
    BY DEF Elements
  <2>5. i = j
    BY <1>3, <2>2, <2>3, <2>4
  <2> QED BY <2>4, <2>5
<1> HIDE DEF InPack
<1>4. ASSUME NEW r \in MergedRules(selected), NEW q \in MergedRules(selected), r.id = q.id PROVE r = q
  <2>1. PICK p \in selected : \E x \in Elements(p.payload.rules) : r = InPack(p, x)
    BY <1>1
  <2>2. PICK x \in Elements(p.payload.rules) : r = InPack(p, x)
    BY <2>1
  <2>3. PICK o \in selected : \E y \in Elements(o.payload.rules) : q = InPack(o, y)
    BY <1>1
  <2>4. PICK y \in Elements(o.payload.rules) : q = InPack(o, y)
    BY <2>3
  <2>5. <<p.payload.id, x.id>> = <<o.payload.id, y.id>>
    BY <1>2, <1>4, <2>2, <2>4
  <2>6. p.payload = o.payload /\ x.id = y.id
    BY <2>5
  <2>7. x = y
    BY <1>3, <2>6
  <2> QED BY <2>2, <2>4, <2>6, <2>7 DEF InPack
<1> QED BY <1>1, <1>2, <1>4

(***************************************************************************)
(* Values of the wrong type.                                               *)
(***************************************************************************)
\* One more level of documents in which a value is replaced.
Deeper(damaged) ==
  [node \in DocumentNodes |->
     UNION {{Put(node, c, new) : new \in {Odd(Child(node, c))} \cup damaged[Child(node, c)]} : c \in Children(node)}]
Levels ==
  CHOOSE damaged : damaged = [k \in 0..MaxDepth |-> IF k = 0 THEN [node \in DocumentNodes |-> {}] ELSE Deeper(damaged[k - 1])]

\* The documents that Damaged gives, level by level.
LEMMA LevelsMean ==
  /\ \A node : Damaged(node) = Levels[MaxDepth][node]
  /\ Levels[0] = [node \in DocumentNodes |-> {}]
  /\ \A k \in 1..MaxDepth : Levels[k] = Deeper(Levels[k - 1])
<1> DEFINE none == [node \in DocumentNodes |-> {}]
           F(f, m) == [k \in 0..m |-> IF k = 0 THEN none ELSE Deeper(f[k - 1])]
           Solved == {m \in Nat : \E f : f = F(f, m)}
           n == MaxDepth
<1>0. n \in Nat
  BY NodesAssumption
<1> HIDE DEF none, n
<1>1. 0 \in Solved
  <2> DEFINE f == [k \in 0..0 |-> none]
  <2>1. f = F(f, 0)
    OBVIOUS
  <2> QED BY <2>1
<1>2. ASSUME NEW m \in 0..(n - 1), m \in Solved PROVE m + 1 \in Solved
  <2>1. PICK f : f = F(f, m)
    BY <1>2
  <2> DEFINE g == [k \in 0..(m + 1) |-> IF k = m + 1 THEN Deeper(f[m]) ELSE f[k]]
  <2>2. ASSUME NEW k \in 0..(m + 1) PROVE g[k] = IF k = 0 THEN none ELSE Deeper(g[k - 1])
    <3>1. CASE k = m + 1
      BY <1>0, <3>1
    <3>2. CASE k # m + 1
      <4>1. k \in 0..m /\ g[k] = f[k] /\ (k # 0 => k - 1 \in 0..m /\ g[k - 1] = f[k - 1])
        BY <1>0, <3>2
      <4>2. f[k] = IF k = 0 THEN none ELSE Deeper(f[k - 1])
        <5>1. F(f, m)[k] = IF k = 0 THEN none ELSE Deeper(f[k - 1])
          BY <4>1
        <5> HIDE DEF F
        <5> QED BY <2>1, <5>1
      <4> HIDE DEF g
      <4> QED BY <4>1, <4>2
    <3> QED BY <3>1, <3>2
  <2>3. g = F(g, m + 1)
    <3>1. g = [k \in 0..(m + 1) |-> g[k]]
      OBVIOUS
    <3> HIDE DEF g
    <3> QED BY <2>2, <3>1
  <2> HIDE DEF F
  <2> QED BY <1>0, <2>3
<1>3. n \in Solved
  <2> HIDE DEF Solved, F
  <2>2. \A k \in 0..n : k \in Solved
    BY <1>0, <1>1, <1>2, UpTheLine
  <2> QED BY <1>0, <2>2
<1>4. Levels = CHOOSE f : f = F(f, n)
  BY DEF Levels, none, n
<1>5. Levels = F(Levels, n)
  <2> HIDE DEF F
  <2> QED BY <1>3, <1>4
<1>6. \A k \in 0..n : F(Levels, n)[k] = IF k = 0 THEN none ELSE Deeper(Levels[k - 1])
  OBVIOUS
<1>7. \A k \in 0..n : Levels[k] = IF k = 0 THEN none ELSE Deeper(Levels[k - 1])
  <2> HIDE DEF F
  <2> QED BY <1>5, <1>6
<1>8. \A node : Damaged(node) = Levels[MaxDepth][node]
  BY DEF Damaged, Levels, Deeper
<1> QED BY <1>0, <1>7, <1>8 DEF none, n

OddScalar == Scalar("strange")
OddMap == Map([strange |-> OddScalar])

\* A value and what becomes of it where at most one value in it is replaced, itself perhaps.
Near(node, new) ==
  \/ new = node
  \/ node \in DocumentNodes /\ (new = Odd(node) \/ \E k \in 0..MaxDepth : new \in Levels[k][node])

\* What it means to replace a part of a value.
LEMMA PutMeans ==
  ASSUME NEW node \in DocumentNodes, NEW c \in Children(node), NEW new
  PROVE  /\ Child(node, c) \in DocumentNodes
         /\ \/ node.t = "map" /\ \E name \in DOMAIN node.f :
                 Child(node, c) = node.f[name] /\ Put(node, c, new) = Map([node.f EXCEPT ![name] = new])
            \/ node.t = "list" /\ \E i \in DOMAIN node.s :
                 Child(node, c) = node.s[i] /\ Put(node, c, new) = List([node.s EXCEPT ![i] = new])
<1>0. MadeOf(node, DocumentNodes)
  BY NodesAssumption
<1>1. CASE node.t = "map"
  <2>1. node = Map(node.f) /\ node.f \in [DOMAIN node.f -> DocumentNodes]
    BY <1>0, <1>1 DEF MadeOf
  <2>2. PICK name \in DOMAIN node.f : c = <<"f", name>>
    BY <1>1 DEF Children
  <2>3. c[1] = "f" /\ c[2] = name
    BY <2>2
  <2>4. Child(node, c) = node.f[name] /\ Put(node, c, new) = [node EXCEPT !.f[name] = new]
    BY <2>3 DEF Child, Put
  <2>5. ASSUME NEW f PROVE [Map(f) EXCEPT !.f[name] = new] = Map([f EXCEPT ![name] = new])
    BY DEF Map
  <2>6. [node EXCEPT !.f[name] = new] = Map([node.f EXCEPT ![name] = new])
    BY <2>1, <2>5
  <2>7. Child(node, c) = node.f[name] /\ Put(node, c, new) = Map([node.f EXCEPT ![name] = new])
    BY <2>4, <2>6
  <2>8. Child(node, c) \in DocumentNodes
    BY <2>1, <2>4
  <2> QED BY <1>1, <2>7, <2>8, Zenon
<1>2. CASE node.t = "list"
  <2>1. node = List(node.s) /\ node.s \in Seq(DocumentNodes)
    BY <1>0, <1>2 DEF MadeOf
  <2>2. PICK i \in DOMAIN node.s : c = <<"s", i>>
    BY <1>2 DEF Children
  <2>3. c[1] = "s" /\ c[2] = i
    BY <2>2
  <2>4. Child(node, c) = node.s[i] /\ Put(node, c, new) = [node EXCEPT !.s[i] = new]
    BY <2>3 DEF Child, Put
  <2>5. ASSUME NEW s PROVE [List(s) EXCEPT !.s[i] = new] = List([s EXCEPT ![i] = new])
    BY DEF List
  <2>6. [node EXCEPT !.s[i] = new] = List([node.s EXCEPT ![i] = new])
    BY <2>1, <2>5
  <2>7. Child(node, c) = node.s[i] /\ Put(node, c, new) = List([node.s EXCEPT ![i] = new])
    BY <2>4, <2>6
  <2>8. Child(node, c) \in DocumentNodes
    BY <2>1, <2>4
  <2> QED BY <1>2, <2>7, <2>8, Zenon
<1>3. CASE node.t \notin {"map", "list"}
  BY <1>3 DEF Children
<1> QED BY <1>1, <1>2, <1>3

\* What differs from a mapping or a list in one value inside it.
MapNear(node, new) ==
  /\ new = Map(new.f) /\ new.t = "map" /\ DOMAIN new.f = DOMAIN node.f
  /\ new.f = [name \in DOMAIN node.f |-> new.f[name]]
  /\ \A name \in DOMAIN node.f : Near(node.f[name], new.f[name])
ListNear(node, new) ==
  /\ new = List(new.s) /\ new.t = "list" /\ DOMAIN new.s = DOMAIN node.s
  /\ new.s = [i \in DOMAIN node.s |-> new.s[i]]
  /\ \A i \in DOMAIN node.s : Near(node.s[i], new.s[i])

\* Nearness, type by type.
LEMMA NearMeans ==
  ASSUME NEW node \in DocumentNodes, NEW new, Near(node, new)
  PROVE  /\ node.t \in {"map", "list", "scalar", "approval"}
         /\ node.t = "scalar" => new \in {node, OddMap}
         /\ node.t = "approval" => new \in {node, OddScalar}
         /\ node.t = "map" => new = OddScalar \/ MapNear(node, new)
         /\ node.t = "list" => new = OddScalar \/ ListNear(node, new)
<1>0. MadeOf(node, DocumentNodes)
  BY NodesAssumption
<1>1. node.t \in {"map", "list", "scalar", "approval"}
  BY <1>0 DEF MadeOf
<1>2. node.t = "map" => MapNear(node, node)
  BY <1>0 DEF MadeOf, MapNear, Near
<1>3. node.t = "list" => ListNear(node, node)
  BY <1>0 DEF MadeOf, ListNear, Near
<1>4. CASE new = node
  BY <1>1, <1>2, <1>3, <1>4
<1>5. CASE new = Odd(node)
  BY <1>1, <1>5 DEF Odd, OddScalar, OddMap
<1>6. CASE \E k \in 0..MaxDepth : new \in Levels[k][node]
  <2>1. PICK k \in 0..MaxDepth : new \in Levels[k][node]
    BY <1>6
  <2>2. k # 0
    BY <2>1, LevelsMean
  <2>3. k \in 1..MaxDepth /\ k - 1 \in 0..MaxDepth
    BY <2>1, <2>2, NodesAssumption
  <2>4. new \in Deeper(Levels[k - 1])[node]
    BY <2>1, <2>3, LevelsMean
  <2>5. PICK c \in Children(node) : \E x \in {Odd(Child(node, c))} \cup Levels[k - 1][Child(node, c)] : new = Put(node, c, x)
    BY <2>4 DEF Deeper
  <2>6. PICK x \in {Odd(Child(node, c))} \cup Levels[k - 1][Child(node, c)] : new = Put(node, c, x)
    BY <2>5
  <2>7. Child(node, c) \in DocumentNodes
    BY PutMeans
  <2>8. Near(Child(node, c), x)
    BY <2>3, <2>6, <2>7 DEF Near
  <2>9. \A y : Near(y, y)
    BY DEF Near
  <2>10. CASE node.t = "map"
    <3>1. PICK name \in DOMAIN node.f : Child(node, c) = node.f[name] /\ new = Map([node.f EXCEPT ![name] = x])
      BY <2>6, <2>10, PutMeans
    <3>2. node.f \in [DOMAIN node.f -> DocumentNodes]
      BY <1>0, <2>10 DEF MadeOf
    <3>3. new.t = "map" /\ new.f = [node.f EXCEPT ![name] = x]
      BY <3>1 DEF Map
    <3>4. \A other \in DOMAIN node.f : new.f[other] = IF other = name THEN x ELSE node.f[other]
      BY <3>2, <3>3
    <3>5. MapNear(node, new)
      BY <2>8, <2>9, <3>1, <3>2, <3>3, <3>4 DEF MapNear
    <3> QED BY <2>10, <3>5
  <2>11. CASE node.t = "list"
    <3>1. PICK i \in DOMAIN node.s : Child(node, c) = node.s[i] /\ new = List([node.s EXCEPT ![i] = x])
      BY <2>6, <2>11, PutMeans
    <3>2. node.s \in Seq(DocumentNodes)
      BY <1>0, <2>11 DEF MadeOf
    <3>3. new.t = "list" /\ new.s = [node.s EXCEPT ![i] = x]
      BY <3>1 DEF List
    <3>4. \A j \in DOMAIN node.s : new.s[j] = IF j = i THEN x ELSE node.s[j]
      BY <3>2, <3>3
    <3>5. ListNear(node, new)
      BY <2>8, <2>9, <3>1, <3>2, <3>3, <3>4 DEF ListNear
    <3> QED BY <2>11, <3>5
  <2>12. CASE node.t \in {"scalar", "approval"}
    BY <2>5, <2>12 DEF Children
  <2> QED BY <1>1, <2>10, <2>11, <2>12
<1> QED BY <1>4, <1>5, <1>6 DEF Near

\* The values of documents and of those in which one is replaced: as closed as documents are.
Wide ==
  DocumentNodes \cup {OddScalar, OddMap} \cup UNION {Levels[k[1]][k[2]] : k \in (0..MaxDepth) \X DocumentNodes}

\* What is near a value of a document is one of these.
LEMMA NearIsWide ==
  ASSUME NEW node \in DocumentNodes, NEW new, Near(node, new)
  PROVE  new \in Wide
<1>1. Odd(node) \in {OddScalar, OddMap}
  BY DEF Odd, OddScalar, OddMap
<1>2. ASSUME NEW k \in 0..MaxDepth, new \in Levels[k][node] PROVE new \in Wide
  <2>1. <<k, node>> \in (0..MaxDepth) \X DocumentNodes /\ new \in Levels[<<k, node>>[1]][<<k, node>>[2]]
    BY <1>2
  <2> QED BY <2>1 DEF Wide
<1> QED BY <1>1, <1>2 DEF Near, Wide

\* The parts of these values are among them.
LEMMA WideIsClosed == Closed(DocumentNodes) /\ Closed(Wide)
<1>1. ASSUME NEW node \in DocumentNodes, NEW new, Near(node, new) PROVE MadeOf(new, Wide)
  <2>0. MadeOf(node, DocumentNodes) /\ DocumentNodes \subseteq Wide
    BY NodesAssumption DEF Wide
  <2>1. /\ node.t = "scalar" => new \in {node, OddMap}
        /\ node.t = "approval" => new \in {node, OddScalar}
        /\ node.t = "map" => new = OddScalar \/ MapNear(node, new)
        /\ node.t = "list" => new = OddScalar \/ ListNear(node, new)
        /\ node.t \in {"map", "list", "scalar", "approval"}
    BY <1>1, NearMeans
  <2>2. MadeOf(OddScalar, Wide)
    BY DEF OddScalar, Scalar, MadeOf
  <2>3. MadeOf(OddMap, Wide)
    <3>1. OddMap.t = "map" /\ OddMap.f = [strange |-> OddScalar]
      BY DEF OddMap, Map
    <3>2. [strange |-> OddScalar] \in [DOMAIN [strange |-> OddScalar] -> Wide]
      BY DEF Wide
    <3> QED BY <3>1, <3>2 DEF MadeOf, OddMap
  <2>4. ASSUME node.t = "map", MapNear(node, new) PROVE MadeOf(new, Wide)
    <3>1. \A name \in DOMAIN node.f : node.f[name] \in DocumentNodes
      BY <2>0, <2>4 DEF MadeOf
    <3>2. \A name \in DOMAIN node.f : new.f[name] \in Wide
      BY <2>4, <3>1, NearIsWide DEF MapNear
    <3>3. new.f \in [DOMAIN new.f -> Wide]
      BY <2>4, <3>2 DEF MapNear
    <3> QED BY <2>4, <3>3 DEF MadeOf, MapNear
  <2>5. ASSUME node.t = "list", ListNear(node, new) PROVE MadeOf(new, Wide)
    <3>1. node.s \in Seq(DocumentNodes) /\ Len(node.s) <= MaxWidth
      BY <2>0, <2>5 DEF MadeOf
    <3>2. DOMAIN node.s = 1..Len(node.s) /\ Len(node.s) \in Nat /\ \A i \in DOMAIN node.s : node.s[i] \in DocumentNodes
      BY <3>1
    <3>3. \A i \in DOMAIN node.s : new.s[i] \in Wide
      BY <2>5, <3>2, NearIsWide DEF ListNear
    <3>4. new.s \in [1..Len(node.s) -> Wide]
      BY <2>5, <3>2, <3>3 DEF ListNear
    <3>5. new.s \in Seq(Wide) /\ Len(new.s) = Len(node.s)
      BY <3>2, <3>4, SeqDef
    <3> QED BY <2>5, <3>1, <3>5 DEF MadeOf, ListNear
  <2>6. CASE node.t \in {"scalar", "approval"} /\ new = node
    BY <2>6 DEF MadeOf
  <2> QED BY <2>1, <2>2, <2>3, <2>4, <2>5, <2>6
<1>2. \A new \in Wide : new \in {OddScalar, OddMap} \/ \E node \in DocumentNodes : Near(node, new)
  BY DEF Wide, Near
<1>3. MadeOf(OddScalar, Wide)
  BY DEF OddScalar, Scalar, MadeOf
<1>4. MadeOf(OddMap, Wide)
  <2>1. OddMap.t = "map" /\ OddMap.f = [strange |-> OddScalar]
    BY DEF OddMap, Map
  <2>2. [strange |-> OddScalar] \in [DOMAIN [strange |-> OddScalar] -> Wide]
    BY DEF Wide
  <2> QED BY <2>1, <2>2 DEF MadeOf, OddMap
<1> QED BY <1>1, <1>2, <1>3, <1>4, NodesAssumption DEF Closed

\* A segment leads from near values to near values, or one of them breaks.
LEMMA EnteredNear ==
  ASSUME NEW node \in DocumentNodes \cup {MissingNode} \cup Ends, NEW new, Near(node, new), NEW segment, NEW index
  PROVE  \/ Entered(node, segment, index).t = "broken"
         \/ Entered(new, segment, index).t = "broken"
         \/ Near(Entered(node, segment, index), Entered(new, segment, index))
<1> DEFINE Part(x) == IF x.t = "map" /\ segment.name \in DOMAIN x.f THEN x.f[segment.name] ELSE MissingNode
           Taking(child) ==
             CASE child.t = "missing" -> Void
               [] child.t = "list" -> IF index \in DOMAIN child.s THEN child.s[index] ELSE Void
               [] OTHER -> Broken("RULE_COLLECTION_TYPE_ERROR")
<1>0. \A x : /\ x.t \in {"list", "scalar", "approval"} => Entered(x, segment, index) = Broken("RULE_PATH_TYPE_ERROR")
             /\ x.t = "map" => Entered(x, segment, index) = IF ~ segment.collection THEN Part(x) ELSE Taking(Part(x))
  BY DEF Entered
<1>1. CASE new = node
  BY <1>1 DEF Near
<1>2. CASE node \in DocumentNodes /\ node.t # "map"
  <2>1. Entered(node, segment, index) = Broken("RULE_PATH_TYPE_ERROR")
    BY <1>0, <1>2, NearMeans
  <2> QED BY <2>1 DEF Broken
<1>3. CASE node \in DocumentNodes /\ node.t = "map" /\ new = OddScalar
  <2>1. Entered(new, segment, index) = Broken("RULE_PATH_TYPE_ERROR")
    BY <1>0, <1>3 DEF OddScalar, Scalar
  <2> QED BY <2>1 DEF Broken
<1>4. CASE node \in DocumentNodes /\ node.t = "map" /\ MapNear(node, new)
  <2> DEFINE child == Part(node)
             changed == Part(new)
  <2>1. /\ Entered(node, segment, index) = IF ~ segment.collection THEN child ELSE Taking(child)
        /\ Entered(new, segment, index) = IF ~ segment.collection THEN changed ELSE Taking(changed)
    BY <1>0, <1>4 DEF MapNear
  <2>2. CASE segment.name \notin DOMAIN node.f
    <3>1. child = MissingNode /\ changed = MissingNode
      BY <1>4, <2>2 DEF MapNear
    <3> QED BY <2>1, <3>1 DEF Near
  <2>3. CASE segment.name \in DOMAIN node.f
    <3>1. child \in DocumentNodes /\ Near(child, changed)
      <4>1. child = node.f[segment.name] /\ changed = new.f[segment.name]
        BY <1>4, <2>3 DEF MapNear
      <4>2. MadeOf(node, DocumentNodes)
        BY <1>4, NodesAssumption
      <4>3. node.f[segment.name] \in DocumentNodes
        BY <1>4, <2>3, <4>2 DEF MadeOf
      <4> QED BY <1>4, <2>3, <4>1, <4>3 DEF MapNear
    <3> HIDE DEF child, changed
    <3>2. CASE ~ segment.collection
      BY <2>1, <3>1, <3>2
    <3>3. CASE segment.collection /\ child.t = "list"
      <4>1. changed = OddScalar \/ ListNear(child, changed)
        BY <3>1, <3>3, NearMeans
      <4>2. CASE changed = OddScalar
        <5>1. Taking(changed) = Broken("RULE_COLLECTION_TYPE_ERROR")
          BY <4>2 DEF OddScalar, Scalar
        <5> QED BY <2>1, <3>3, <5>1 DEF Broken
      <4>3. CASE ListNear(child, changed)
        <5>1. Taking(child) = (IF index \in DOMAIN child.s THEN child.s[index] ELSE Void)
          BY <3>3
        <5>2. Taking(changed) = IF index \in DOMAIN child.s THEN changed.s[index] ELSE Void
          BY <4>3 DEF ListNear
        <5>3. Near(Taking(child), Taking(changed))
          <6> HIDE DEF Taking
          <6>1. CASE index \in DOMAIN child.s
            BY <4>3, <5>1, <5>2, <6>1 DEF ListNear
          <6>2. CASE index \notin DOMAIN child.s
            BY <5>1, <5>2, <6>2 DEF Near
          <6> QED BY <6>1, <6>2
        <5> QED BY <2>1, <3>3, <5>3
      <4> QED BY <4>1, <4>2, <4>3
    <3>4. CASE segment.collection /\ child.t # "list"
      <4>1. child.t \in {"map", "scalar", "approval"}
        BY <3>1, <3>4, NearMeans
      <4>2. Taking(child) = Broken("RULE_COLLECTION_TYPE_ERROR")
        BY <4>1
      <4> QED BY <2>1, <3>4, <4>2 DEF Broken
    <3> QED BY <3>2, <3>3, <3>4
  <2> QED BY <2>2, <2>3
<1>5. node \notin DocumentNodes => new = node
  BY DEF Near
<1> QED BY <1>1, <1>2, <1>3, <1>4, <1>5, NearMeans

\* So does a path, and what is broken stays broken.
LEMMA TrailNear ==
  ASSUME NEW tree \in DocumentNodes, NEW new, Near(tree, new), NEW path, IsPath(path), NEW c,
         At(tree, path, c).t # "broken", At(new, path, c).t # "broken"
  PROVE  Near(At(tree, path, c), At(new, path, c)) /\ At(tree, path, c) \in DocumentNodes \cup {MissingNode} \cup Ends
<1> DEFINE n == Len(path)
           t == Trail(tree, path, c)
           u == Trail(new, path, c)
           S == {j \in 0..n : t[j].t = "broken" \/ u[j].t = "broken" \/ Near(t[j], u[j])}
<1>0. n \in Nat
  BY DEF IsPath
<1>1. t[n].t # "broken" /\ u[n].t # "broken" /\ At(tree, path, c) = t[n] /\ At(new, path, c) = u[n]
  BY DEF At
<1>2. \A k \in 0..n : t[k] \in DocumentNodes \cup {MissingNode} \cup Ends
  BY TrailTyped, WideIsClosed
<1> HIDE DEF n, t, u
<1>3. /\ t[0] = tree /\ \A j \in 1..n : t[j] = Entered(t[j - 1], path[j], c[j])
      /\ u[0] = new /\ \A j \in 1..n : u[j] = Entered(u[j - 1], path[j], c[j])
  BY <1>0, TrailMeans DEF n, t, u
<1>4. 0 \in S
  BY <1>0, <1>3
<1>5. ASSUME NEW j \in 0..(n - 1), j \in S PROVE j + 1 \in S
  <2>1. j + 1 \in 1..n /\ j + 1 \in 0..n /\ (j + 1) - 1 = j /\ j \in 0..n
    BY <1>0
  <2>2. t[j + 1] = Entered(t[j], path[j + 1], c[j + 1]) /\ u[j + 1] = Entered(u[j], path[j + 1], c[j + 1])
    BY <1>3, <2>1
  <2>3. CASE t[j].t = "broken"
    BY <2>1, <2>2, <2>3 DEF Entered
  <2>4. CASE u[j].t = "broken"
    BY <2>1, <2>2, <2>4 DEF Entered
  <2>5. CASE Near(t[j], u[j])
    BY <1>2, <2>1, <2>2, <2>5, EnteredNear
  <2> QED BY <1>5, <2>3, <2>4, <2>5
<1> HIDE DEF S
<1>6. \A j \in 0..n : j \in S
  BY <1>0, <1>4, <1>5, UpTheLine
<1> QED BY <1>0, <1>1, <1>2, <1>6 DEF S

\* A part that is missing has nothing near it.
LEMMA NearPresent ==
  ASSUME NEW node \in DocumentNodes \cup {MissingNode}, NEW new, Near(node, new)
  PROVE  /\ node = MissingNode => new = MissingNode
         /\ node # MissingNode => node \in DocumentNodes /\ node.t # "missing" /\ new.t # "missing"
<1>1. \A x \in DocumentNodes : x.t \in {"map", "list", "scalar", "approval"}
  BY NodesAssumption DEF MadeOf
<1>2. MissingNode \notin DocumentNodes
  BY <1>1 DEF MissingNode
<1>3. node = MissingNode => new = MissingNode
  BY <1>2 DEF Near
<1>4. ASSUME node \in DocumentNodes PROVE new.t # "missing"
  <2>1. /\ node.t = "scalar" => new \in {node, OddMap}
        /\ node.t = "approval" => new \in {node, OddScalar}
        /\ node.t = "map" => new = OddScalar \/ new.t = "map"
        /\ node.t = "list" => new = OddScalar \/ new.t = "list"
    BY <1>4, NearMeans DEF MapNear, ListNear
  <2>2. OddScalar.t = "scalar" /\ OddMap.t = "map"
    BY DEF OddScalar, OddMap, Scalar, Map
  <2> QED BY <1>1, <1>4, <2>1, <2>2
<1> QED BY <1>1, <1>3, <1>4

\* An operator that looks for no member answers as before, or finds a value that it cannot read.
LEMMA AnswerKept ==
  ASSUME NEW node \in DocumentNodes \cup {MissingNode}, NEW new, Near(node, new),
         NEW operator \in Operators \ MemberOperators, NEW operand,
         Matches(node, operator, operand) # "error"
  PROVE  Matches(new, operator, operand) \in {Matches(node, operator, operand), "error"}
<1>1. CASE node = MissingNode
  BY <1>1, NearPresent
<1>2. CASE node # MissingNode
  <2>0. node \in DocumentNodes /\ node.t # "missing" /\ new.t # "missing"
    BY <1>2, NearPresent
  <2>1. operator \in {"exists", "not_exists", "min_count", "max_count"} \cup ScalarOperators
    BY DEF Operators, MemberOperators, CollectionOperators, ReferenceOperators
  <2>2. CASE operator \in {"exists", "not_exists"}
    BY <2>0, <2>2 DEF Matches, ScalarOperators, CollectionOperators
  <2>3. CASE operator \in ScalarOperators
    <3>1. \A x : x.t # "missing" => Matches(x, operator, operand) = IF x.t = "scalar" THEN ScalarAnswer(x.v, operator, operand) ELSE "error"
      BY <2>3 DEF Matches, ScalarOperators, CollectionOperators
    <3>2. node.t = "scalar"
      BY <2>0, <3>1
    <3>3. new \in {node, OddMap}
      BY <2>0, <3>2, NearMeans
    <3>4. OddMap.t = "map"
      BY DEF OddMap, Map
    <3> QED BY <2>0, <3>1, <3>3, <3>4
  <2>4. CASE operator \in {"min_count", "max_count"}
    <3>1. \A x : x.t # "missing" => Matches(x, operator, operand) = IF x.t = "list" THEN CollectionAnswer(x, operator, operand) ELSE "error"
      BY <2>4 DEF Matches, ScalarOperators, CollectionOperators
    <3>2. node.t = "list"
      BY <2>0, <3>1
    <3>3. new = OddScalar \/ ListNear(node, new)
      BY <2>0, <3>2, NearMeans
    <3>4. OddScalar.t = "scalar"
      BY DEF OddScalar, Scalar
    <3>5. ASSUME ListNear(node, new) PROVE Len(new.s) = Len(node.s)
      <4>1. node.s \in Seq(DocumentNodes)
        BY <2>0, <3>2, NodesAssumption DEF MadeOf
      <4>2. DOMAIN node.s = 1..Len(node.s) /\ Len(node.s) \in Nat
        BY <4>1
      <4>3. new.s \in [1..Len(node.s) -> {new.s[i] : i \in DOMAIN node.s}]
        BY <3>5, <4>2 DEF ListNear
      <4> QED BY <4>2, <4>3, SeqDef
    <3>6. ListNear(node, new) => CollectionAnswer(new, operator, operand) = CollectionAnswer(node, operator, operand)
      BY <2>4, <3>5 DEF CollectionAnswer
    <3> QED BY <2>0, <3>1, <3>2, <3>3, <3>4, <3>6
  <2> QED BY <2>1, <2>2, <2>3, <2>4
<1> QED BY <1>1, <1>2

\* The types of near values.
LEMMA TypesNear ==
  ASSUME NEW node \in DocumentNodes \cup {MissingNode}, NEW new, Near(node, new)
  PROVE  /\ node.t = "scalar" => new \in {node, OddMap}
         /\ node.t # "scalar" => new = OddScalar \/ new.t = node.t
         /\ node.t = "approval" => new \in {node, OddScalar}
         /\ OddScalar.t = "scalar" /\ OddScalar.v = "strange" /\ OddMap.t = "map" /\ OddMap.f = [strange |-> OddScalar]
<1>1. OddScalar.t = "scalar" /\ OddScalar.v = "strange" /\ OddMap.t = "map" /\ OddMap.f = [strange |-> OddScalar]
  BY DEF OddScalar, OddMap, Scalar, Map
<1>2. CASE node = MissingNode
  <2>1. node.t = "missing" /\ new = node
    BY <1>2, NearPresent DEF MissingNode
  <2> QED BY <1>1, <2>1
<1>3. CASE node \in DocumentNodes
  <2>1. /\ node.t \in {"map", "list", "scalar", "approval"}
        /\ node.t = "scalar" => new \in {node, OddMap}
        /\ node.t = "approval" => new \in {node, OddScalar}
        /\ node.t = "map" => new = OddScalar \/ MapNear(node, new)
        /\ node.t = "list" => new = OddScalar \/ ListNear(node, new)
    BY <1>3, NearMeans
  <2>2. /\ MapNear(node, new) => new.t = "map"
        /\ ListNear(node, new) => new.t = "list"
    BY DEF MapNear, ListNear
  <2> QED BY <1>1, <2>1, <2>2
<1> QED BY <1>2, <1>3

\* The items of near lists.
LEMMA ItemsNear ==
  ASSUME NEW node \in DocumentNodes, node.t = "list", NEW new, ListNear(node, new)
  PROVE  /\ \A i \in DOMAIN node.s : node.s[i] \in DocumentNodes /\ Near(node.s[i], new.s[i])
         /\ Items(node) = {node.s[i] : i \in DOMAIN node.s}
         /\ Items(new) = {new.s[i] : i \in DOMAIN node.s}
<1>1. node.s \in Seq(DocumentNodes)
  BY NodesAssumption DEF MadeOf
<1>2. \A i \in DOMAIN node.s : node.s[i] \in DocumentNodes
  BY <1>1
<1>3. new.t = "list" /\ DOMAIN new.s = DOMAIN node.s /\ \A i \in DOMAIN node.s : Near(node.s[i], new.s[i])
  BY DEF ListNear
<1>4. Items(node) = {node.s[i] : i \in DOMAIN node.s} /\ Items(new) = {new.s[i] : i \in DOMAIN new.s}
  BY <1>3 DEF Items
<1> QED BY <1>2, <1>3, <1>4

\* The scalars of a list that a replaced value adds to are the odd one.
LEMMA ScalarsNear ==
  ASSUME NEW node \in DocumentNodes, node.t = "list", NEW new, ListNear(node, new)
  PROVE  Scalars(new) \subseteq Scalars(node) \cup {"strange"}
<1>1. SUFFICES ASSUME NEW i \in DOMAIN node.s, new.s[i].t = "scalar" PROVE new.s[i].v \in Scalars(node) \cup {"strange"}
  BY DEF Scalars, ListNear
<1>2. node.s[i] \in DocumentNodes /\ Near(node.s[i], new.s[i])
  BY ItemsNear
<1>3. OddScalar.v = "strange"
  BY DEF OddScalar, Scalar
<1>4. new.s[i] = node.s[i] \/ new.s[i] = OddScalar
  BY <1>1, <1>2, TypesNear
<1>5. new.s[i] = node.s[i] => node.s[i].v \in Scalars(node)
  BY <1>1 DEF Scalars
<1> QED BY <1>3, <1>4, <1>5

\* The roles of approvals are what they were, or cannot be read.
LEMMA RolesKept ==
  ASSUME NEW node \in DocumentNodes, NEW new, Near(node, new), ApprovalRoles(node) # None
  PROVE  ApprovalRoles(new) \in {ApprovalRoles(node), None}
<1> DEFINE Readable(x) == \A item \in Items(x) : item.t \in {"approval", "map"}
           Declaring(x) == {item \in Items(x) : item.t = "approval"}
<1>1. \A x : ApprovalRoles(x) =
               IF ~ Readable(x) THEN None
               ELSE RolesOf({NormalizeApproval(a.source, a.shape, "document") : a \in Declaring(x)})
  BY DEF ApprovalRoles
<1>2. OddScalar.t = "scalar" /\ OddMap.t = "map"
  BY DEF OddScalar, OddMap, Scalar, Map
<1>3. Readable(node)
  BY <1>1
<1>4. ~ Readable(OddScalar)
  BY <1>2 DEF Items
<1>5. SUFFICES ASSUME Readable(new) PROVE Declaring(new) = Declaring(node)
  <2> HIDE DEF Readable, Declaring
  <2> QED BY <1>1, <1>3
<1>6. CASE node.t = "list"
  <2>1. ListNear(node, new)
    BY <1>4, <1>5, <1>6, NearMeans
  <2>2. ASSUME NEW i \in DOMAIN node.s
        PROVE  /\ new.s[i].t = "approval" <=> node.s[i].t = "approval"
               /\ new.s[i].t = "approval" => new.s[i] = node.s[i]
    <3>1. /\ node.s[i] \in DocumentNodes /\ Near(node.s[i], new.s[i])
          /\ node.s[i] \in Items(node) /\ new.s[i] \in Items(new)
      BY <1>6, <2>1, ItemsNear
    <3>2. node.s[i].t \in {"approval", "map"} /\ new.s[i].t \in {"approval", "map"}
      BY <1>3, <1>5, <3>1
    <3> QED BY <3>1, <3>2, TypesNear
  <2>3. Items(node) = {node.s[i] : i \in DOMAIN node.s} /\ Items(new) = {new.s[i] : i \in DOMAIN node.s}
    BY <1>6, <2>1, ItemsNear
  <2> QED BY <2>2, <2>3
<1>7. CASE node.t # "list"
  <2>1. Items(node) = {node} /\ node.t \in {"approval", "map"}
    BY <1>3, <1>7 DEF Items
  <2>2. new = node \/ (new.t = "map" /\ node.t = "map")
    BY <1>4, <1>5, <2>1, TypesNear
  <2> QED BY <2>1, <2>2 DEF Items
<1> QED BY <1>6, <1>7

\* Nearness of what mappings hold under a name.
LEMMA FieldNear ==
  ASSUME NEW node \in DocumentNodes, node.t = "map", NEW new, MapNear(node, new), NEW name
  PROVE  /\ Field(node, name) \in DocumentNodes \cup {MissingNode}
         /\ Near(Field(node, name), Field(new, name))
<1>1. \A n \in DOMAIN node.f : node.f[n] \in DocumentNodes
  BY NodesAssumption DEF MadeOf
<1> QED BY <1>1 DEF Field, MapNear, Near

\* What an item refers to is what it was, the odd value, or cannot be read.
LEMMA ReferenceIdNear ==
  ASSUME NEW item \in DocumentNodes, NEW new, Near(item, new), ReferenceId(item) # IllTyped
  PROVE  ReferenceId(new) \in {ReferenceId(item), "strange", IllTyped}
<1> DEFINE Read(x) == IF x.t = "scalar" /\ x.v # None THEN x.v ELSE IllTyped
           Chosen(x) == Field(x, IF Falsy(Field(x, "id")) THEN "name" ELSE "id")
<1>0. /\ OddScalar.t = "scalar" /\ OddScalar.v = "strange"
      /\ OddMap.t = "map" /\ OddMap.f = [strange |-> OddScalar] /\ MissingNode.t = "missing"
  BY DEF OddScalar, OddMap, Scalar, Map, MissingNode
<1>1. \A x : /\ x.t = "map" => ReferenceId(x) = Read(Chosen(x))
             /\ x.t \in {"scalar", "list"} => ReferenceId(x) = Read(x)
  BY DEF ReferenceId
<1>2. Read(OddScalar) \in {"strange", IllTyped} /\ Read(OddMap) = IllTyped
  BY <1>0
<1>3. ReferenceId(OddScalar) = Read(OddScalar)
  BY <1>0, <1>1
<1>4. ReferenceId(OddMap) = IllTyped
  <2>1. Field(OddMap, "id") = MissingNode /\ Field(OddMap, "name") = MissingNode
    BY <1>0 DEF Field
  <2>2. Read(MissingNode) = IllTyped
    BY <1>0
  <2>3. ReferenceId(OddMap) = Read(Chosen(OddMap))
    BY <1>0, <1>1
  <2> QED BY <2>1, <2>2, <2>3
<1>5. CASE item.t \in {"scalar", "approval"}
  BY <1>2, <1>3, <1>4, <1>5, NearMeans
<1>6. CASE item.t = "list"
  BY <1>1, <1>6
<1>7. CASE item.t = "map" /\ new = OddScalar
  BY <1>2, <1>3, <1>7
<1>8. CASE item.t = "map" /\ MapNear(item, new)
  <2> DEFINE a == Field(item, "id")
             b == Field(new, "id")
             p == Field(item, "name")
             q == Field(new, "name")
  <2>1. /\ a \in DocumentNodes \cup {MissingNode} /\ Near(a, b)
        /\ p \in DocumentNodes \cup {MissingNode} /\ Near(p, q)
    BY <1>8, FieldNear
  <2>2. /\ ReferenceId(item) = Read(IF Falsy(a) THEN p ELSE a)
        /\ ReferenceId(new) = Read(IF Falsy(b) THEN q ELSE b)
    <3>1. new.t = "map"
      BY <1>8 DEF MapNear
    <3>2. Chosen(item) = (IF Falsy(a) THEN p ELSE a) /\ Chosen(new) = (IF Falsy(b) THEN q ELSE b)
      OBVIOUS
    <3> HIDE DEF Read, Chosen, a, b, p, q
    <3> QED BY <1>1, <1>8, <3>1, <3>2
  <2> HIDE DEF a, b, p, q
  <2>3. \A x \in DocumentNodes \cup {MissingNode} : \A y :
          Near(x, y) => /\ x.t = "scalar" => y \in {x, OddMap}
                        /\ x.t # "scalar" => y = OddScalar \/ y.t = x.t
    BY TypesNear
  <2>4. Read(p) # IllTyped => Read(q) \in {Read(p), IllTyped}
    BY <1>2, <2>1, <2>3
  <2>5. CASE Falsy(a)
    <3>1. Read(p) # IllTyped /\ ReferenceId(item) = Read(p)
      BY <2>2, <2>5
    <3>2. Falsy(b) => ReferenceId(new) \in {ReferenceId(item), IllTyped}
      BY <2>2, <2>4, <3>1
    <3>3. ~ Falsy(b) => Read(b) \in {"strange", IllTyped}
      <4>1. CASE a.t = "scalar"
        BY <1>2, <2>1, <2>3, <2>5, <4>1
      <4>2. CASE a.t # "scalar"
        BY <1>2, <2>1, <2>3, <4>2
      <4> QED BY <4>1, <4>2
    <3> QED BY <2>2, <3>2, <3>3
  <2>6. CASE ~ Falsy(a)
    <3>1. Read(a) # IllTyped /\ ReferenceId(item) = Read(a)
      BY <2>2, <2>6
    <3>2. b \in {a, OddMap}
      BY <2>1, <2>3, <3>1
    <3>3. ~ Falsy(OddMap)
      BY <1>0 DEF Falsy
    <3> QED BY <1>2, <2>2, <2>6, <3>1, <3>2, <3>3
  <2> QED BY <2>5, <2>6
<1> QED BY <1>5, <1>6, <1>7, <1>8, NearMeans

\* References are among what they were and the odd value, or cannot be read.
LEMMA ReferencesNear ==
  ASSUME NEW node \in DocumentNodes, NEW new, Near(node, new), ~ Ambiguous(node), ReferenceIds(node) # None
  PROVE  ReferenceIds(new) = None \/ ReferenceIds(new) \subseteq ReferenceIds(node) \cup {"strange"}
<1> DEFINE Listed(x) == IF x.t = "map" /\ Field(x, "required").t = "list" THEN Items(Field(x, "required")) ELSE Items(x)
           Referenced(x) == {ReferenceId(i) : i \in Listed(x)}
<1>0. OddScalar.t = "scalar" /\ MissingNode.t = "missing"
  BY DEF OddScalar, Scalar, MissingNode
<1>1. \A x : ReferenceIds(x) = IF x.t = "scalar" \/ IllTyped \in Referenced(x) THEN None ELSE Referenced(x)
  BY Zenon DEF ReferenceIds
<1>2. node.t # "scalar" /\ IllTyped \notin Referenced(node) /\ ReferenceIds(node) = Referenced(node)
  <2> HIDE DEF Referenced
  <2> QED BY <1>1
<1>3. SUFFICES ASSUME new # OddScalar PROVE IllTyped \in Referenced(new) \/ Referenced(new) \subseteq Referenced(node) \cup {"strange"}
  <2> HIDE DEF Referenced
  <2> QED BY <1>0, <1>1, <1>2
<1>4. new.t = node.t
  BY <1>2, <1>3, TypesNear
<1>5. ASSUME NEW list \in DocumentNodes, list.t = "list", NEW changed, ListNear(list, changed),
             Listed(node) = Items(list), Listed(new) = Items(changed)
      PROVE  IllTyped \in Referenced(new) \/ Referenced(new) \subseteq Referenced(node) \cup {"strange"}
  <2>1. /\ \A i \in DOMAIN list.s : list.s[i] \in DocumentNodes /\ Near(list.s[i], changed.s[i])
        /\ Listed(node) = {list.s[i] : i \in DOMAIN list.s} /\ Listed(new) = {changed.s[i] : i \in DOMAIN list.s}
    BY <1>5, ItemsNear
  <2> HIDE DEF Listed
  <2>2. \A i \in DOMAIN list.s : ReferenceId(list.s[i]) \in Referenced(node)
    BY <2>1
  <2>3. \A i \in DOMAIN list.s : ReferenceId(changed.s[i]) \in Referenced(node) \cup {"strange", IllTyped}
    BY <1>2, <2>1, <2>2, ReferenceIdNear
  <2>4. Referenced(new) \subseteq Referenced(node) \cup {"strange", IllTyped}
    BY <2>1, <2>3
  <2> HIDE DEF Referenced
  <2> QED BY <2>4
<1>6. ASSUME Listed(node) = {node}, Listed(new) = {new}
      PROVE  IllTyped \in Referenced(new) \/ Referenced(new) \subseteq Referenced(node) \cup {"strange"}
  <2>1. Referenced(node) = {ReferenceId(node)} /\ Referenced(new) = {ReferenceId(new)}
    BY <1>6
  <2> HIDE DEF Referenced, Listed
  <2>2. ReferenceId(new) \in {ReferenceId(node), "strange", IllTyped}
    BY <1>2, <2>1, ReferenceIdNear
  <2> QED BY <2>1, <2>2
<1>7. CASE node.t = "list"
  <2>1. ListNear(node, new)
    BY <1>3, <1>7, NearMeans
  <2>2. Listed(node) = Items(node) /\ Listed(new) = Items(new)
    BY <1>4, <1>7
  <2> HIDE DEF Listed, Referenced
  <2> QED BY <1>5, <1>7, <2>1, <2>2
<1>8. CASE node.t \notin {"list", "map"}
  <2>1. Listed(node) = {node} /\ Listed(new) = {new}
    BY <1>4, <1>8 DEF Items
  <2> HIDE DEF Listed, Referenced
  <2> QED BY <1>6, <2>1
<1>9. CASE node.t = "map"
  <2> DEFINE required == Field(node, "required")
             changed == Field(new, "required")
  <2>1. MapNear(node, new) /\ new.t = "map"
    BY <1>3, <1>4, <1>9, NearMeans
  <2>2. required \in DocumentNodes \cup {MissingNode} /\ Near(required, changed)
    BY <1>9, <2>1, FieldNear
  <2>3. /\ Listed(node) = IF required.t = "list" THEN Items(required) ELSE {node}
        /\ Listed(new) = IF changed.t = "list" THEN Items(changed) ELSE {new}
    BY <1>9, <2>1 DEF Items
  <2>4. CASE required.t # "list"
    <3>1. changed.t # "list"
      <4> HIDE DEF required, changed
      <4> QED BY <2>2, <2>4, TypesNear
    <3>2. Listed(node) = {node} /\ Listed(new) = {new}
      <4> HIDE DEF Listed, required, changed
      <4> QED BY <2>3, <2>4, <3>1
    <3> HIDE DEF Listed, Referenced
    <3> QED BY <1>6, <3>2
  <2>5. CASE required.t = "list" /\ changed # OddScalar
    <3>1. required \in DocumentNodes /\ changed.t = "list"
      <4> HIDE DEF required, changed
      <4> QED BY <1>0, <2>2, <2>5, TypesNear
    <3>2. ListNear(required, changed)
      <4> HIDE DEF required, changed
      <4> QED BY <2>2, <2>5, <3>1, NearMeans
    <3>3. Listed(node) = Items(required) /\ Listed(new) = Items(changed)
      <4> HIDE DEF Listed, required, changed
      <4> QED BY <2>3, <2>5, <3>1
    <3> HIDE DEF Listed, Referenced, required, changed
    <3> QED BY <1>5, <2>5, <3>1, <3>2, <3>3
  <2>6. CASE required.t = "list" /\ changed = OddScalar
    <3>1. "required" \in DOMAIN node.f
      BY <1>0, <2>6 DEF Field
    <3>2. "id" \notin DOMAIN new.f /\ "name" \notin DOMAIN new.f
      BY <1>9, <2>1, <3>1 DEF Ambiguous, MapNear
    <3>3. Field(new, "id") = MissingNode /\ Field(new, "name") = MissingNode
      BY <3>2 DEF Field
    <3>4. ReferenceId(new) = IllTyped
      BY <1>0, <2>1, <3>3 DEF ReferenceId
    <3>5. Listed(new) = {new}
      <4> HIDE DEF Listed, required, changed
      <4> QED BY <1>0, <2>3, <2>6
    <3> HIDE DEF Listed
    <3> QED BY <3>4, <3>5
  <2> QED BY <2>4, <2>5, <2>6
<1> QED BY <1>7, <1>8, <1>9

\* What an operator refuses, it refuses in a near value too, unless the odd value is what it looks for.
LEMMA RefusalKept ==
  ASSUME NEW node \in DocumentNodes \cup {MissingNode}, NEW new, Near(node, new), NEW operator \in Operators, NEW operand,
         Matches(node, operator, operand) \notin {"yes", "error"},
         operator \in MemberOperators => "strange" \notin (IF operator = "contains_all" THEN operand ELSE {operand}),
         operator \in {"references_evidence", "references_approval"} => ~ Ambiguous(node)
  PROVE  Matches(new, operator, operand) # "yes"
<1>1. CASE node = MissingNode
  BY <1>1, NearPresent
<1>2. CASE operator \notin MemberOperators
  BY <1>2, AnswerKept
<1>3. CASE node # MissingNode /\ operator \in MemberOperators
  <2>0. node \in DocumentNodes /\ node.t # "missing" /\ new.t # "missing"
    BY <1>3, NearPresent
  <2>1. \A names : Referred(names, operand) = IF names = None THEN "error" ELSE IF operand \in names THEN "yes" ELSE "no"
    BY DEF Referred, Answer
  <2>2. CASE operator \in {"contains", "contains_all"}
    <3>1. \A x : x.t # "missing" => Matches(x, operator, operand) = IF x.t = "list" THEN CollectionAnswer(x, operator, operand) ELSE "error"
      BY <2>2 DEF Matches, ScalarOperators, CollectionOperators
    <3>2. \A x : CollectionAnswer(x, operator, operand) =
                   Answer(IF operator = "contains" THEN operand \in Scalars(x) ELSE operand \subseteq Scalars(x))
      BY <2>2 DEF CollectionAnswer
    <3>3. node.t = "list" /\ (new.t = "list" => ListNear(node, new))
      BY <2>0, <3>1, NearMeans, TypesNear
    <3>4. ASSUME new.t = "list" PROVE CollectionAnswer(new, operator, operand) # "yes"
      <4>1. Scalars(new) \subseteq Scalars(node) \cup {"strange"}
        BY <2>0, <3>3, <3>4, ScalarsNear
      <4>2. CollectionAnswer(node, operator, operand) # "yes"
        BY <2>0, <3>1, <3>3
      <4>3. CASE operator = "contains"
        BY <1>3, <3>2, <4>1, <4>2, <4>3 DEF Answer
      <4>4. CASE operator = "contains_all"
        BY <1>3, <3>2, <4>1, <4>2, <4>4 DEF Answer
      <4> QED BY <2>2, <4>3, <4>4
    <3> QED BY <2>0, <3>1, <3>4
  <2>3. CASE operator = "references_role"
    <3>1. \A x : x.t # "missing" => Matches(x, operator, operand) = Referred(ApprovalRoles(x), operand)
      BY <2>3 DEF Matches, ScalarOperators, CollectionOperators
    <3>2. ApprovalRoles(node) # None /\ operand \notin ApprovalRoles(node)
      BY <2>0, <2>1, <3>1
    <3> QED BY <2>0, <2>1, <3>1, <3>2, RolesKept
  <2>4. CASE operator \in {"references_evidence", "references_approval"}
    <3>1. \A x : x.t # "missing" => Matches(x, operator, operand) = Referred(ReferenceIds(x), operand)
      BY <2>4 DEF Matches, ScalarOperators, CollectionOperators
    <3>2. ReferenceIds(node) # None /\ operand \notin ReferenceIds(node)
      BY <2>0, <2>1, <3>1
    <3>3. operand # "strange"
      BY <1>3, <2>4
    <3>4. ReferenceIds(new) = None \/ operand \notin ReferenceIds(new)
      BY <2>0, <2>4, <3>2, <3>3, ReferencesNear
    <3> QED BY <2>0, <2>1, <3>1, <3>4
  <2> QED BY <1>3, <2>2, <2>3, <2>4 DEF MemberOperators, ReferenceOperators
<1> QED BY <1>1, <1>2, <1>3

\* A path of a rule that the tree answers leads nowhere to an error.
LEMMA NothingBroken ==
  ASSUME NEW tree, NEW path, BrokenReadings(tree, path) = {}
  PROVE  \A c \in Readings(path) : At(tree, path, c).t # "broken"
<1> DEFINE broken == {[code |-> At(tree, path, c).code, binding |-> Taken(path, c, BreaksAt(tree, path, c))] :
                        c \in {d \in Readings(path) : At(tree, path, d).t = "broken"}}
<1>1. StepLimit # {}
  BY DEF StepLimit
<1>2. broken = {}
  <2>1. BrokenReadings(tree, path) = IF Cardinality(Lookups(tree, path)) > MaxSteps THEN StepLimit ELSE broken
    BY DEF BrokenReadings
  <2> HIDE DEF broken
  <2> QED BY <1>1, <2>1
<1> QED BY <1>2

\* The codes of the findings that only say a document does not meet a rule.
Refusals == {"RULE_REQUIREMENT_FAILED", "RULE_PATH_MISSING", "RULE_EMPTY_COLLECTION"}

\* What breaks a path is none of these.
LEMMA BrokenCodes ==
  ASSUME NEW tree \in DocumentNodes, NEW path, IsPath(path), NEW b \in BrokenReadings(tree, path)
  PROVE  b.code \notin Refusals
<1>1. \A e \in StepLimit : e.code \notin Refusals
  BY DEF StepLimit, Refusals
<1>2. ASSUME NEW c, At(tree, path, c).t = "broken" PROVE At(tree, path, c).code \notin Refusals
  <2>1. At(tree, path, c) \in DocumentNodes \cup {MissingNode} \cup Ends
    BY TrailTyped, WideIsClosed DEF At, IsPath
  <2>2. At(tree, path, c) \in Ends
    BY <1>2, <2>1, WideIsClosed, NodeTypes DEF Live
  <2> QED BY <1>2, <2>2 DEF Ends, Void, Broken, Refusals
<1>3. b \in StepLimit \/ \E c \in Readings(path) : At(tree, path, c).t = "broken" /\ b.code = At(tree, path, c).code
  BY DEF BrokenReadings
<1> QED BY <1>1, <1>2, <1>3

\* Paths that break in neither of two near documents lead to near values.
LEMMA ValuesNear ==
  ASSUME NEW tree \in DocumentNodes, NEW new, Near(tree, new), NEW path, IsPath(path),
         BrokenReadings(tree, path) = {}, BrokenReadings(new, path) = {}
  PROVE  /\ ValuesAt(new, path) = ValuesAt(tree, path)
         /\ \A c \in ValuesAt(tree, path) : /\ At(tree, path, c) \in DocumentNodes \cup {MissingNode}
                                            /\ Near(At(tree, path, c), At(new, path, c))
<1>1. ASSUME NEW c \in Readings(path)
      PROVE  /\ At(tree, path, c).t # "broken" /\ At(new, path, c).t # "broken"
             /\ At(tree, path, c) \in DocumentNodes \cup {MissingNode} \cup Ends
             /\ Near(At(tree, path, c), At(new, path, c))
  <2>1. At(tree, path, c).t # "broken" /\ At(new, path, c).t # "broken"
    BY NothingBroken
  <2> QED BY <2>1, TrailNear
<1>2. \A x \in DocumentNodes \cup {MissingNode} : x.t \notin {"void", "broken"}
  BY WideIsClosed, NodeTypes DEF Live
<1>3. ASSUME NEW c \in Readings(path), At(tree, path, c).t # "void"
      PROVE  At(tree, path, c) \in DocumentNodes \cup {MissingNode} /\ At(new, path, c).t # "void"
  <2>1. At(tree, path, c) \in DocumentNodes \cup {MissingNode}
    BY <1>1, <1>3 DEF Ends, Void, Broken
  <2>2. At(new, path, c).t \in {At(tree, path, c).t, "scalar", "map"}
    BY <1>1, <2>1, TypesNear
  <2> QED BY <1>2, <2>1, <2>2
<1>4. ASSUME NEW c \in Readings(path), At(tree, path, c).t = "void" PROVE At(new, path, c) = At(tree, path, c)
  BY <1>1, <1>2, <1>4 DEF Near
<1> QED BY <1>1, <1>3, <1>4 DEF ValuesAt

\* A condition that looks for no member holds of the same choices in both.
LEMMA HitsKept ==
  ASSUME NEW tree \in DocumentNodes, NEW new, Near(tree, new), NEW w, IsPath(w.path), w.operator \in Operators \ MemberOperators,
         BrokenReadings(tree, w.path) = {}, BrokenReadings(new, w.path) = {},
         \A c \in ValuesAt(tree, w.path) : Says(tree, w, c) # "error",
         \A c \in ValuesAt(new, w.path) : Says(new, w, c) # "error"
  PROVE  Hits(new, w) = Hits(tree, w)
<1>1. /\ ValuesAt(new, w.path) = ValuesAt(tree, w.path)
      /\ \A c \in ValuesAt(tree, w.path) : /\ At(tree, w.path, c) \in DocumentNodes \cup {MissingNode}
                                           /\ Near(At(tree, w.path, c), At(new, w.path, c))
  BY ValuesNear
<1>2. \A c \in ValuesAt(tree, w.path) : Says(new, w, c) = Says(tree, w, c)
  BY <1>1, AnswerKept DEF Says
<1> QED BY <1>1, <1>2 DEF Hits

\* What goes wrong in a condition.
LEMMA ConditionFails ==
  ASSUME NEW tree, NEW rule, ConditionErrors(tree, rule) = {}, NEW i \in DOMAIN rule.when
  PROVE  /\ BrokenReadings(tree, rule.when[i].path) = {}
         /\ \A c \in ValuesAt(tree, rule.when[i].path) : Says(tree, rule.when[i], c) # "error"
<1> DEFINE wrong(j) == LET w == rule.when[j]
                       IN BrokenReadings(tree, w.path)
                            \cup {[code |-> "RULE_VALUE_TYPE_ERROR", binding |-> Taken(w.path, c, Len(w.path))] :
                                    c \in {d \in ValuesAt(tree, w.path) : Says(tree, w, d) = "error"}}
<1>1. ConditionErrors(tree, rule) = UNION {wrong(j) : j \in DOMAIN rule.when}
  BY Zenon DEF ConditionErrors
<1>2. wrong(i) = {}
  <2> HIDE DEF wrong
  <2> QED BY <1>1
<1> QED BY <1>2

\* And what goes wrong is no refusal.
LEMMA ConditionCodes ==
  ASSUME NEW tree \in DocumentNodes, NEW rule, IsRule(rule), NEW e \in ConditionErrors(tree, rule)
  PROVE  e.code \notin Refusals
<1>1. PICK i \in DOMAIN rule.when :
        \/ e \in BrokenReadings(tree, rule.when[i].path)
        \/ e.code = "RULE_VALUE_TYPE_ERROR"
  BY DEF ConditionErrors
<1>2. IsPath(rule.when[i].path)
  BY <1>1 DEF IsRule
<1>3. "RULE_VALUE_TYPE_ERROR" \notin Refusals
  BY DEF Refusals
<1> QED BY <1>1, <1>2, <1>3, BrokenCodes

\* Conditions that can be answered in both of two near documents, and look for no member, are met by the same choices.
LEMMA ConditionsKept ==
  ASSUME NEW tree \in DocumentNodes, NEW new, Near(tree, new), NEW rule, IsRule(rule),
         \A i \in DOMAIN rule.when : rule.when[i].operator \notin MemberOperators,
         ConditionErrors(tree, rule) = {}, ConditionErrors(new, rule) = {}
  PROVE  /\ \A i \in DOMAIN rule.when : Hits(new, rule.when[i]) = Hits(tree, rule.when[i])
         /\ \A path, c, k : Selected(new, rule, path, c, k) <=> Selected(tree, rule, path, c, k)
         /\ Applies(new, rule) <=> Applies(tree, rule)
<1>1. ASSUME NEW i \in DOMAIN rule.when PROVE Hits(new, rule.when[i]) = Hits(tree, rule.when[i])
  <2>1. IsPath(rule.when[i].path) /\ rule.when[i].operator \in Operators \ MemberOperators
    BY DEF IsRule
  <2> QED BY <2>1, ConditionFails, HitsKept
<1>2. ASSUME NEW path, NEW k PROVE Selecting(new, rule, path, k) = Selecting(tree, rule, path, k)
  BY <1>1 DEF Selecting
<1>3. ASSUME NEW i \in DOMAIN rule.when, NEW path, NEW c, NEW k
      PROVE  Satisfies(new, rule, i, path, c, k) <=> Satisfies(tree, rule, i, path, c, k)
  BY <1>1 DEF Satisfies
<1>4. ASSUME NEW path, NEW c, NEW k PROVE Selected(new, rule, path, c, k) <=> Selected(tree, rule, path, c, k)
  <2> DEFINE about == Selecting(tree, rule, path, k)
  <2>1. about \subseteq DOMAIN rule.when
    BY DEF Selecting
  <2>2. Selected(new, rule, path, c, k) <=>
          IF rule.mode = "all" THEN \A i \in about : Satisfies(new, rule, i, path, c, k)
          ELSE about = {} \/ \E i \in about : Satisfies(new, rule, i, path, c, k)
    BY <1>2 DEF Selected
  <2>3. Selected(tree, rule, path, c, k) <=>
          IF rule.mode = "all" THEN \A i \in about : Satisfies(tree, rule, i, path, c, k)
          ELSE about = {} \/ \E i \in about : Satisfies(tree, rule, i, path, c, k)
    BY DEF Selected
  <2> HIDE DEF about
  <2> QED BY <1>3, <2>1, <2>2, <2>3
<1>5. Joint(new, rule) <=> Joint(tree, rule)
  BY <1>1, <1>2, <1>4 DEF Joint
<1> QED BY <1>1, <1>4, <1>5 DEF Applies

\* A requirement that is refused is refused in a near document too, where the rule is about the same elements.
LEMMA UnmetKept ==
  ASSUME NEW tree \in DocumentNodes, NEW new, Near(tree, new), NEW rule, NEW r, IsPath(r.path), r.operator \in Operators,
         Discerns(tree, r), \A path, c, k : Selected(new, rule, path, c, k) <=> Selected(tree, rule, path, c, k),
         Unmet(tree, rule, r) # {}, \A f \in Unmet(tree, rule, r) : f.code \in Refusals
  PROVE  Unmet(new, rule, r) # {}
<1> DEFINE Reported(x) == {Finding(rule, b.code, b.binding) : b \in BrokenReadings(x, r.path)}
           Empty(x) == HadCollection(r.path) /\ About(x, rule, r.path) = {}
           Falling(x) == {c \in About(x, rule, r.path) : Says(x, r, c) # "yes"}
           Told(x) == {Finding(rule, Failure(Says(x, r, c)), Taken(r.path, c, Len(r.path))) : c \in Falling(x)}
<1>0. \A code, b : Finding(rule, code, b).code = code
  BY DEF Finding
<1>1. \A x : Unmet(x, rule, r) = IF BrokenReadings(x, r.path) # {} THEN Reported(x)
                                 ELSE IF Empty(x) THEN {Finding(rule, "RULE_EMPTY_COLLECTION", {})}
                                 ELSE Told(x)
  BY Zenon DEF Unmet
<1>2. BrokenReadings(tree, r.path) = {}
  <2>1. SUFFICES ASSUME NEW b \in BrokenReadings(tree, r.path) PROVE FALSE
    OBVIOUS
  <2>2. Unmet(tree, rule, r) = Reported(tree)
    <3> HIDE DEF Reported, Empty, Told
    <3> QED BY <1>1, <2>1
  <2>3. Finding(rule, b.code, b.binding) \in Reported(tree)
    BY <2>1
  <2> QED BY <1>0, <2>2, <2>3, BrokenCodes
<1>3. CASE BrokenReadings(new, r.path) # {}
  <2>1. Unmet(new, rule, r) = Reported(new)
    <3> HIDE DEF Reported, Empty, Told
    <3> QED BY <1>1, <1>3
  <2> QED BY <1>3, <2>1
<1>4. CASE BrokenReadings(new, r.path) = {}
  <2>1. /\ ValuesAt(new, r.path) = ValuesAt(tree, r.path)
        /\ \A c \in ValuesAt(tree, r.path) : /\ At(tree, r.path, c) \in DocumentNodes \cup {MissingNode}
                                             /\ Near(At(tree, r.path, c), At(new, r.path, c))
    BY <1>2, <1>4, ValuesNear
  <2>2. About(new, rule, r.path) = About(tree, rule, r.path)
    BY <2>1 DEF About
  <2>3. CASE Empty(tree)
    <3>1. Empty(new)
      BY <2>2, <2>3
    <3>2. Unmet(new, rule, r) = {Finding(rule, "RULE_EMPTY_COLLECTION", {})}
      <4> HIDE DEF Reported, Empty, Told
      <4> QED BY <1>1, <1>4, <3>1
    <3> QED BY <3>2
  <2>4. CASE ~ Empty(tree)
    <3>1. ~ Empty(new)
      BY <2>2, <2>4
    <3>2. Unmet(tree, rule, r) = Told(tree) /\ Unmet(new, rule, r) = Told(new)
      <4> HIDE DEF Reported, Empty, Told
      <4> QED BY <1>1, <1>2, <1>4, <2>4, <3>1
    <3>3. PICK c \in Falling(tree) : Failure(Says(tree, r, c)) \in Refusals
      <4>1. PICK f \in Told(tree) : f.code \in Refusals
        <5> HIDE DEF Told
        <5> QED BY <3>2
      <4>2. PICK c \in Falling(tree) : f = Finding(rule, Failure(Says(tree, r, c)), Taken(r.path, c, Len(r.path)))
        <5> HIDE DEF Falling
        <5> QED BY <4>1
      <4> HIDE DEF Falling
      <4> QED BY <1>0, <4>1, <4>2
    <3>4. c \in About(new, rule, r.path) /\ c \in ValuesAt(tree, r.path)
      BY <2>2 DEF About
    <3>5. Matches(At(tree, r.path, c), r.operator, r.operand) \notin {"yes", "error"}
      <4>1. Says(tree, r, c) # "yes" /\ Says(tree, r, c) # "error"
        BY <3>3 DEF Failure, Refusals
      <4> QED BY <4>1 DEF Says
    <3>6. /\ r.operator \in MemberOperators => "strange" \notin (IF r.operator = "contains_all" THEN r.operand ELSE {r.operand})
          /\ r.operator \in {"references_evidence", "references_approval"} => ~ Ambiguous(At(tree, r.path, c))
      BY <3>4 DEF Discerns
    <3>7. Matches(At(new, r.path, c), r.operator, r.operand) # "yes"
      BY <2>1, <3>4, <3>5, <3>6, RefusalKept
    <3>8. c \in Falling(new)
      BY <3>4, <3>7 DEF Says
    <3> HIDE DEF Falling
    <3> QED BY <3>2, <3>8
  <2> QED BY <2>3, <2>4
<1> QED BY <1>3, <1>4

\* A rule that refuses a document is not silenced by one value of another type, at any level of it.
THEOREM RefusedStaysRefused ==
  ASSUME NEW tree \in DocumentNodes, NEW rule, IsRule(rule),
         Meaning(tree, rule) # {}, \A f \in Meaning(tree, rule) : f.code \in Refusals,
         \A i \in DOMAIN rule.when : rule.when[i].operator \notin MemberOperators,
         \A i \in DOMAIN rule.requirements : Discerns(tree, rule.requirements[i]),
         NEW damaged \in Damaged(tree)
  PROVE  EvaluateRule(damaged, rule) # {}
<1> DEFINE Wrong(x) == {Finding(rule, e.code, e.binding) : e \in ConditionErrors(x, rule)}
           Missed(x) == UNION {Unmet(x, rule, rule.requirements[i]) : i \in DOMAIN rule.requirements}
<1>0. \A x : Meaning(x, rule) = IF ConditionErrors(x, rule) # {} THEN Wrong(x) ELSE IF ~ Applies(x, rule) THEN {} ELSE Missed(x)
  BY Zenon DEF Meaning
<1>1. Near(tree, damaged) /\ damaged \in Wide
  <2>1. MaxDepth \in 0..MaxDepth
    BY NodesAssumption
  <2>2. Near(tree, damaged)
    BY <2>1, LevelsMean DEF Near
  <2> QED BY <2>2, NearIsWide
<1>2. EvaluateRule(damaged, rule) = Meaning(damaged, rule)
  BY <1>1, WideIsClosed, EvaluateMeans
<1>3. ConditionErrors(tree, rule) = {}
  <2>1. SUFFICES ASSUME NEW e \in ConditionErrors(tree, rule) PROVE FALSE
    OBVIOUS
  <2>2. Meaning(tree, rule) = Wrong(tree)
    <3> HIDE DEF Wrong, Missed
    <3> QED BY <1>0, <2>1
  <2>3. Finding(rule, e.code, e.binding) \in Wrong(tree)
    BY <2>1
  <2> QED BY <2>2, <2>3, ConditionCodes DEF Finding
<1>4. CASE ConditionErrors(damaged, rule) # {}
  <2>1. Meaning(damaged, rule) = Wrong(damaged)
    <3> HIDE DEF Wrong, Missed
    <3> QED BY <1>0, <1>4
  <2> QED BY <1>2, <1>4, <2>1
<1>5. CASE ConditionErrors(damaged, rule) = {}
  <2>1. /\ \A path, c, k : Selected(damaged, rule, path, c, k) <=> Selected(tree, rule, path, c, k)
        /\ Applies(damaged, rule) <=> Applies(tree, rule)
    BY <1>1, <1>3, <1>5, ConditionsKept
  <2>2. Applies(tree, rule) /\ Meaning(tree, rule) = Missed(tree) /\ Meaning(damaged, rule) = Missed(damaged)
    <3> HIDE DEF Wrong, Missed
    <3> QED BY <1>0, <1>3, <1>5, <2>1
  <2>3. PICK i \in DOMAIN rule.requirements : Unmet(tree, rule, rule.requirements[i]) # {}
    BY <2>2
  <2>4. \A f \in Unmet(tree, rule, rule.requirements[i]) : f.code \in Refusals
    BY <2>2
  <2>5. IsPath(rule.requirements[i].path) /\ rule.requirements[i].operator \in Operators
    BY DEF IsRule
  <2>6. Unmet(damaged, rule, rule.requirements[i]) # {}
    BY <1>1, <2>1, <2>3, <2>4, <2>5, UnmetKept
  <2> QED BY <1>2, <2>2, <2>6
<1> QED BY <1>4, <1>5

(***************************************************************************)
(* Approvals.                                                              *)
(***************************************************************************)
\* What holds of leaves that compose, and what they compose to (ComposeEffectiveApproval).
LEMMA Composable ==
  ASSUME NEW leaves, ComposeEffectiveApproval(leaves).status = "composed"
  PROVE  LET e == ComposeEffectiveApproval(leaves)
         IN /\ leaves # {}
            /\ \A l \in leaves : l.approval.resolution = "complete" /\ TrustedNormalized(l.approval)
            /\ \A l, m \in leaves : l.approval.id = m.approval.id
            /\ Union(leaves, "required") \subseteq EligibleRoles(leaves)
            /\ EligibleRoles(leaves)
                 \cap ((Union(leaves, "deniedActors") \cup CoreDenied) \cup (Union(leaves, "deniedSurfaces") \cup {Surface})) = {}
            /\ \A f \in ScalarFields : \A v, w \in DeclaredValues(leaves, f) : v = w
            /\ e.id = (CHOOSE l \in leaves : TRUE).approval.id
            /\ e.eligible = EligibleRoles(leaves) /\ e.required = Union(leaves, "required")
            /\ e.deniedActors = Union(leaves, "deniedActors") \cup CoreDenied
            /\ e.deniedSurfaces = Union(leaves, "deniedSurfaces") \cup {Surface}
            /\ e.evidence = Union(leaves, "evidence") /\ e.actions = Union(leaves, "actions")
            /\ e.invalidation = Union(leaves, "invalidation")
            /\ (\E l \in leaves : l.approval.exact) => e.exact
            /\ e.timing = TheValue(leaves, "timing", "unspecified")
            /\ e.authority = TheValue(leaves, "authority", None)
            /\ e.revision = TheValue(leaves, "revision", None)
            /\ e.expiresAfter = TheValue(leaves, "expiresAfter", None)
            /\ e.expiresAt = TheValue(leaves, "expiresAt", None)
            /\ e.leaves = leaves
<1> DEFINE eligible == EligibleRoles(leaves)
           required == Union(leaves, "required")
           actors == Union(leaves, "deniedActors") \cup CoreDenied
           surfaces == Union(leaves, "deniedSurfaces") \cup {Surface}
           Sources == Cardinality(leaves) > MaxSources \/ leaves = {}
           Untrusted == \E l \in leaves : l.approval.resolution # "complete" \/ ~ TrustedNormalized(l.approval)
           Twice == \E l, m \in leaves : l # m /\ l.provenance = m.provenance
           Conflict == \/ \E l, m \in leaves : l.approval.id # m.approval.id
                       \/ ~ (required \subseteq eligible)
                       \/ Cardinality(Restricted(leaves)) > 1 /\ eligible = {}
                       \/ eligible \cap (actors \cup surfaces) # {}
                       \/ \E f \in ScalarFields : \E v, w \in DeclaredValues(leaves, f) : v # w
           Elsewhere == \E l \in leaves : l.approval.path # l.provenance.path
           Composed == [status |-> "composed",
             id |-> (CHOOSE l \in leaves : TRUE).approval.id,
             eligible |-> eligible, required |-> required,
             deniedActors |-> actors, deniedSurfaces |-> surfaces,
             evidence |-> Union(leaves, "evidence"), actions |-> Union(leaves, "actions"),
             invalidation |-> Union(leaves, "invalidation"),
             exact |-> \E l \in leaves : l.approval.exact,
             timing |-> TheValue(leaves, "timing", "unspecified"),
             authority |-> TheValue(leaves, "authority", None),
             revision |-> TheValue(leaves, "revision", None),
             expiresAfter |-> TheValue(leaves, "expiresAfter", None),
             expiresAt |-> TheValue(leaves, "expiresAt", None),
             leaves |-> leaves]
<1>1. ComposeEffectiveApproval(leaves) =
        CASE Sources -> Refused("PACK_APPROVAL_SOURCE_LIMIT_EXCEEDED")
          [] Untrusted -> Refused("APPROVAL_INVALID")
          [] Twice -> Refused("PACK_APPROVAL_PROVENANCE_INVALID")
          [] Conflict -> Refused("PACK_MONOTONICITY_APPROVAL")
          [] Elsewhere -> Refused("PACK_APPROVAL_PROVENANCE_INVALID")
          [] OTHER -> Composed
  BY DEF ComposeEffectiveApproval
<1>2. \A code : code # "composed" => Refused(code).status # "composed"
  BY DEF Refused
<1> HIDE DEF Sources, Untrusted, Twice, Conflict, Elsewhere, Composed
<1>3. ~ Sources /\ ~ Untrusted /\ ~ Twice /\ ~ Conflict /\ ~ Elsewhere
      /\ ComposeEffectiveApproval(leaves) = Composed
  BY <1>1, <1>2
<1>4. /\ leaves # {}
      /\ \A l \in leaves : l.approval.resolution = "complete" /\ TrustedNormalized(l.approval)
  BY <1>3 DEF Sources, Untrusted
<1>5. /\ \A l, m \in leaves : l.approval.id = m.approval.id
      /\ required \subseteq eligible
      /\ eligible \cap (actors \cup surfaces) = {}
      /\ \A f \in ScalarFields : \A v, w \in DeclaredValues(leaves, f) : v = w
  <2> HIDE DEF required, eligible, actors, surfaces
  <2> QED BY <1>3 DEF Conflict
<1>6. /\ Composed.id = (CHOOSE l \in leaves : TRUE).approval.id
      /\ Composed.eligible = eligible /\ Composed.required = required
      /\ Composed.deniedActors = actors /\ Composed.deniedSurfaces = surfaces
      /\ Composed.evidence = Union(leaves, "evidence") /\ Composed.actions = Union(leaves, "actions")
      /\ Composed.invalidation = Union(leaves, "invalidation")
      /\ (\E l \in leaves : l.approval.exact) => Composed.exact
      /\ Composed.timing = TheValue(leaves, "timing", "unspecified")
      /\ Composed.authority = TheValue(leaves, "authority", None)
      /\ Composed.revision = TheValue(leaves, "revision", None)
      /\ Composed.expiresAfter = TheValue(leaves, "expiresAfter", None)
      /\ Composed.expiresAt = TheValue(leaves, "expiresAt", None)
      /\ Composed.leaves = leaves
  <2> HIDE DEF required, eligible, actors, surfaces
  <2> QED BY DEF Composed
<1> QED BY <1>3, <1>4, <1>5, <1>6

\* An approval that is complete has no error: nobody it accepts is non-human (ApprovalErrors).
LEMMA CompleteIsHuman ==
  ASSUME NEW item, TrustedNormalized(item), item.resolution = "complete"
  PROVE  item.eligible \cap NonHuman = {}
<1> DEFINE errors == ApprovalErrors(item.source, item.shape)
           eligible == Canonical(item.source.eligible)
<1>1. item = NormalizedWith(item.source, item.shape, item.path, errors)
  BY DEF TrustedNormalized, NormalizeApproval
<1>2. item.resolution = Resolution(errors, item.shape) /\ item.eligible = eligible
  <2> HIDE DEF errors, eligible
  <2> DEFINE n == NormalizedWith(item.source, item.shape, item.path, errors)
  <2>1. n.resolution = Resolution(errors, item.shape) /\ n.eligible = Canonical(item.source.eligible)
    BY DEF NormalizedWith
  <2> QED BY <1>1, <2>1 DEF eligible
<1>3. errors = {}
  BY <1>2 DEF Resolution
<1>4. (eligible \cup Canonical(item.source.required)) \cap NonHuman # {} => errors # {}
  BY DEF ApprovalErrors
<1> QED BY <1>2, <1>3, <1>4

\* The value leaves that compose give a field is the one that any of them declares.
LEMMA TheValueIsDeclared ==
  ASSUME NEW leaves, NEW f, NEW default, NEW l \in leaves,
         \A v, w \in DeclaredValues(leaves, f) : v = w
  PROVE  l.approval[f] \in {None, "unspecified", TheValue(leaves, f, default)}
<1>1. CASE l.approval[f] \in DeclaredValues(leaves, f)
  BY <1>1 DEF TheValue
<1>2. CASE l.approval[f] \notin DeclaredValues(leaves, f)
  BY <1>2 DEF DeclaredValues
<1> QED BY <1>1, <1>2

\* What leaves compose to keeps what each of them declares.
LEMMA CompositionKeeps ==
  ASSUME NEW leaves, ComposeEffectiveApproval(leaves).status = "composed", NEW l \in leaves
  PROVE  Keeps(ComposeEffectiveApproval(leaves), l.approval)
<1> DEFINE e == ComposeEffectiveApproval(leaves)
<1> HIDE DEF e
<1>1. /\ \A f \in ScalarFields : \A v, w \in DeclaredValues(leaves, f) : v = w
      /\ e.eligible = EligibleRoles(leaves) /\ e.required = Union(leaves, "required")
      /\ e.deniedActors = Union(leaves, "deniedActors") \cup CoreDenied
      /\ e.deniedSurfaces = Union(leaves, "deniedSurfaces") \cup {Surface}
      /\ e.evidence = Union(leaves, "evidence") /\ e.actions = Union(leaves, "actions")
      /\ e.invalidation = Union(leaves, "invalidation")
      /\ (\E k \in leaves : k.approval.exact) => e.exact
      /\ e.timing = TheValue(leaves, "timing", "unspecified")
      /\ e.authority = TheValue(leaves, "authority", None)
      /\ e.revision = TheValue(leaves, "revision", None)
      /\ e.expiresAfter = TheValue(leaves, "expiresAfter", None)
      /\ e.expiresAt = TheValue(leaves, "expiresAt", None)
  BY Composable DEF e
<1>2. \A field : l.approval[field] \subseteq Union(leaves, field)
  BY DEF Union
<1>3. l.approval.eligible # {} => e.eligible \subseteq l.approval.eligible
  BY <1>1 DEF EligibleRoles, Restricted
<1>4. \A f \in ScalarFields : l.approval[f] \in {None, "unspecified", e[f]}
  <2>1. \A f \in ScalarFields : \A default : l.approval[f] \in {None, "unspecified", TheValue(leaves, f, default)}
    BY <1>1, TheValueIsDeclared
  <2> QED BY <1>1, <2>1 DEF ScalarFields
<1>5. l.approval.exact => e.exact
  BY <1>1
<1>6. /\ l.approval.required \subseteq e.required /\ l.approval.evidence \subseteq e.evidence
      /\ l.approval.actions \subseteq e.actions /\ l.approval.invalidation \subseteq e.invalidation
      /\ l.approval.deniedActors \cup l.approval.deniedSurfaces \subseteq e.deniedActors \cup e.deniedSurfaces
  BY <1>1, <1>2
<1>7. Keeps(e, l.approval)
  BY <1>3, <1>4, <1>5, <1>6 DEF Keeps
<1> QED BY <1>7 DEF e

\* Whoever leaves that compose require is accepted by all of them, denied by none, and human.
LEMMA CompositionAccepts ==
  ASSUME NEW leaves, NEW e, e = ComposeEffectiveApproval(leaves), e.status = "composed"
  PROVE  e.required \subseteq e.eligible /\ e.eligible \cap (e.deniedActors \cup e.deniedSurfaces \cup NonHuman) = {}
<1>1. /\ \A l \in leaves : l.approval.resolution = "complete" /\ TrustedNormalized(l.approval)
      /\ Union(leaves, "required") \subseteq EligibleRoles(leaves)
      /\ EligibleRoles(leaves)
           \cap ((Union(leaves, "deniedActors") \cup CoreDenied) \cup (Union(leaves, "deniedSurfaces") \cup {Surface})) = {}
      /\ e.eligible = EligibleRoles(leaves) /\ e.required = Union(leaves, "required")
      /\ e.deniedActors = Union(leaves, "deniedActors") \cup CoreDenied
      /\ e.deniedSurfaces = Union(leaves, "deniedSurfaces") \cup {Surface}
  BY Composable
<1>2. e.eligible \cap NonHuman = {}
  <2>1. \A l \in leaves : l.approval.eligible \cap NonHuman = {}
    BY <1>1, CompleteIsHuman
  <2> QED BY <1>1, <2>1 DEF EligibleRoles, Union
<1> QED BY <1>1, <1>2

(***************************************************************************)
(* Selection.                                                              *)
(***************************************************************************)
\* The modules selected are of the registry and what they and the roots need is among them.
LEMMA ModulesClosed ==
  ASSUME NEW registry, NEW roots
  PROVE  LET M == ModulesFor(registry, roots)
         IN M \subseteq OfKind(registry, "module") /\ NeededBy(registry, roots \cup Requires(M)) \subseteq M
<1> DEFINE modules == OfKind(registry, "module")
           closed == {S \in SUBSET modules : NeededBy(registry, roots \cup Requires(S)) \subseteq S}
           M == ModulesFor(registry, roots)
<1>1. M = {p \in modules : \A S \in closed : p \in S}
  BY DEF ModulesFor
<1> HIDE DEF M
<1>2. SUFFICES ASSUME NEW p \in NeededBy(registry, roots \cup Requires(M)), NEW S \in closed
               PROVE  p \in S
  BY <1>1 DEF NeededBy, M
<1>3. M \subseteq S
  BY <1>1
<1>4. Requires(M) \subseteq Requires(S)
  BY <1>3 DEF Requires
<1>5. p \in NeededBy(registry, roots \cup Requires(S))
  BY <1>2, <1>4 DEF NeededBy
<1> QED BY <1>5

\* What DependencyOrder gives is complete.
LEMMA OrderIsComplete ==
  ASSUME NEW registry, NEW profile, NEW ids, NEW order, order = DependencyOrder(registry, profile, ids), Ok(order)
  PROVE  /\ order.modules \subseteq registry.packs
         /\ \A q \in order.modules \cup (IF profile = None THEN {} ELSE {profile}) : \A x \in q.payload.requires :
              \E m \in order.modules : m.payload.kind = "module" /\ x \in Tokens(m)
<1> DEFINE roots == ids \cup (IF profile = None THEN {} ELSE profile.payload.requires)
           M == ModulesFor(registry, roots)
<1>1. Unresolved(registry, roots \cup Requires(M)) = {} /\ order = [modules |-> M]
  BY DEF DependencyOrder, Ok, Failed
<1>2. M \subseteq OfKind(registry, "module") /\ NeededBy(registry, roots \cup Requires(M)) \subseteq M
  BY ModulesClosed
<1> HIDE DEF M, roots
<1>3. order.modules = M
  BY <1>1
<1>4. \A x \in roots \cup Requires(M) : \E m \in M : m.payload.kind = "module" /\ x \in Tokens(m)
  BY <1>1, <1>2 DEF Unresolved, Named, NeededBy, OfKind
<1>5. \A q \in M \cup (IF profile = None THEN {} ELSE {profile}) : q.payload.requires \subseteq roots \cup Requires(M)
  BY DEF roots, Requires
<1>6. M \subseteq registry.packs
  BY <1>2 DEF OfKind
<1> QED BY <1>3, <1>4, <1>5, <1>6

(***************************************************************************)
(* The whole composition.                                                  *)
(***************************************************************************)
\* What holds of selected packs that compose, and what they compose to (Merged).
LEMMA MergedFields ==
  ASSUME NEW profile, NEW modules, NEW selected, NEW theLock, Ok(MergedFrom(profile, modules, selected, theLock))
  PROVE  LET c == MergedFrom(profile, modules, selected, theLock)
         IN /\ theLock = Absent => \A p \in selected : p.tier # "org"
            /\ theLock # Absent => VerifyLock(theLock.entries, selected) = "agrees"
            /\ \A e \in EffectiveApprovals(selected) : e.status = "composed"
            /\ c.selected = selected
            /\ c.policies = MergedPolicies(selected) /\ c.approvals = EffectiveApprovals(selected)
            /\ c.rules = MergedRules(selected) /\ \A p \in selected : ~ DuplicateIds(p)
<1> DEFINE c == MergedFrom(profile, modules, selected, theLock)
           effective == EffectiveApprovals(selected)
           rules == MergedRules(selected)
           schemas == UNION {p.payload.schemas : p \in selected}
           checks == UNION {p.payload.checks : p \in selected}
           Conflicting == SelectedConflicts(selected) # {}
           LockRequired == theLock = Absent /\ \E p \in selected : p.tier = "org"
           LockBroken == theLock # Absent /\ VerifyLock(theLock.entries, selected) # "agrees"
           Duplicates == \E p \in selected : DuplicateIds(p)
           Invalid == \E l \in Leaves(selected) : l.approval.resolution = "invalid"
           Empty == \E l \in Leaves(selected) : EmptyRequirement(l.approval)
           TooMany == Cardinality(rules) > MaxComposedRules \/ Cardinality(schemas) > MaxComposedSchemas
                        \/ Cardinality(checks) > MaxComposedChecks
           Refusal == \E e \in effective : e.status # "composed"
           merged == [profile |-> profile, modules |-> modules, selected |-> selected,
             blocks |-> UNION {p.payload.blocks : p \in selected},
             nonGoals |-> UNION {p.payload.nonGoals : p \in selected},
             schemas |-> schemas, checks |-> checks,
             policies |-> MergedPolicies(selected), evidence |-> MergedEvidence(selected),
             evaluations |-> MergedEvaluations(selected), approvals |-> effective, rules |-> rules]
<1>1. c = CASE Conflicting -> Failed("PACK_DECLARED_CONFLICT")
            [] LockRequired -> Failed("PACK_LOCK_REQUIRED")
            [] LockBroken -> Failed(VerifyLock(theLock.entries, selected))
            [] SchemaConflict(selected) -> Failed("PACK_BLOCK_SCHEMA_CONFLICT")
            [] Duplicates -> Failed("PACK_DUPLICATE_ID")
            [] MergeConflict(selected) -> Failed("PACK_MONOTONICITY_CONFLICT")
            [] Invalid -> Failed("APPROVAL_INVALID")
            [] Empty -> Failed("APPROVAL_EMPTY_REQUIREMENT")
            [] TooMany -> Failed("PACK_LIMIT_EXCEEDED")
            [] Refusal -> Failed("PACK_MONOTONICITY_APPROVAL")
            [] OTHER -> merged
  BY DEF Merged, MergedFrom
<1>2. \A code : ~ Ok(Failed(code))
  BY DEF Ok, Failed
<1>3. /\ merged.selected = selected /\ merged.policies = MergedPolicies(selected)
      /\ merged.approvals = effective /\ merged.rules = rules
  <2> HIDE DEF effective, rules, schemas, checks
  <2> QED OBVIOUS
<1> HIDE DEF c, Conflicting, LockRequired, LockBroken, Duplicates, Invalid, Empty, TooMany, Refusal, merged
<1>4. ~ LockRequired /\ ~ LockBroken /\ ~ Duplicates /\ ~ Refusal /\ c = merged
  <2> HIDE DEF effective, rules, schemas, checks
  <2>1. Ok(c)
    BY DEF c
  <2> QED BY <1>1, <1>2, <2>1
<1> QED BY <1>3, <1>4 DEF LockRequired, LockBroken, Duplicates, Refusal, c

\* The packs that compose are those of the lock, entry by entry (verify_lock, lock_for_packs).
LEMMA VerifiedIsLocked ==
  ASSUME NEW entries, NEW selected, VerifyLock(entries, selected) = "agrees",
         \A e \in entries : e = [id |-> e.id, version |-> e.version, tier |-> e.tier, hash |-> e.hash]
  PROVE  entries = LockForPacks(selected)
<1>1. /\ {e.id : e \in entries} = {p.payload.id : p \in selected}
      /\ \A p \in selected : \A e \in entries : e.id = p.payload.id => Agrees(e, p)
  BY DEF VerifyLock
<1>2. \A p \in selected : \A e \in entries : e.id = p.payload.id => e = Entry(p)
  BY <1>1 DEF Agrees, Entry
<1>3. ASSUME NEW e \in entries PROVE e \in LockForPacks(selected)
  <2>1. e.id \in {p.payload.id : p \in selected}
    <3> e.id \in {f.id : f \in entries}
      OBVIOUS
    <3> QED BY <1>1
  <2>2. PICK p \in selected : e.id = p.payload.id
    BY <2>1
  <2>3. e = Entry(p)
    BY <1>2, <2>2
  <2> QED BY <2>3 DEF LockForPacks
<1>4. ASSUME NEW p \in selected PROVE Entry(p) \in entries
  <2>1. p.payload.id \in {e.id : e \in entries}
    <3> p.payload.id \in {q.payload.id : q \in selected}
      OBVIOUS
    <3> QED BY <1>1
  <2>2. PICK e \in entries : e.id = p.payload.id
    BY <2>1
  <2> QED BY <1>2, <2>2
<1> QED BY <1>3, <1>4 DEF LockForPacks

\* The approvals of packs that compose: one for each identity, and it keeps what each pack declares.
LEMMA ApprovalsTighten ==
  ASSUME NEW selected, \A e \in EffectiveApprovals(selected) : e.status = "composed"
  PROVE  /\ \A q \in selected : \A i \in DOMAIN q.payload.approvals :
              \E e \in EffectiveApprovals(selected) :
                /\ e.id = PackApproval(q.payload, i).id /\ Keeps(e, PackApproval(q.payload, i))
                /\ \A f \in EffectiveApprovals(selected) \ {e} : f.id # e.id
         /\ \A e \in EffectiveApprovals(selected) :
              e.required \subseteq e.eligible /\ e.eligible \cap (e.deniedActors \cup e.deniedSurfaces \cup NonHuman) = {}
<1> DEFINE Effective(id) == ComposeEffectiveApproval(LeavesOf(selected, id))
<1>1. \A e \in EffectiveApprovals(selected) : \E id \in ApprovalIds(selected) : e = Effective(id)
  BY DEF EffectiveApprovals
<1>2. \A id \in ApprovalIds(selected) : Effective(id) \in EffectiveApprovals(selected)
  BY DEF EffectiveApprovals
<1>3. ASSUME NEW id \in ApprovalIds(selected) PROVE Effective(id).id = id
  <2>1. LeavesOf(selected, id) # {}
    BY DEF LeavesOf, ApprovalIds
  <2>2. (CHOOSE l \in LeavesOf(selected, id) : TRUE) \in LeavesOf(selected, id)
    BY <2>1
  <2>3. \A l \in LeavesOf(selected, id) : l.approval.id = id
    BY DEF LeavesOf
  <2>4. Effective(id).status = "composed"
    BY <1>2
  <2>5. Effective(id).id = (CHOOSE l \in LeavesOf(selected, id) : TRUE).approval.id
    BY <2>4, Composable
  <2> QED BY <2>2, <2>3, <2>5
<1>4. ASSUME NEW q \in selected, NEW i \in DOMAIN q.payload.approvals
      PROVE  \E e \in EffectiveApprovals(selected) :
                /\ e.id = PackApproval(q.payload, i).id /\ Keeps(e, PackApproval(q.payload, i))
                /\ \A f \in EffectiveApprovals(selected) \ {e} : f.id # e.id
  <2> DEFINE id == PackApproval(q.payload, i).id
  <2>1. Leaf(q, i) \in Leaves(selected) /\ Leaf(q, i).approval = PackApproval(q.payload, i)
    BY DEF Leaves, Leaf
  <2>2. id \in ApprovalIds(selected) /\ Leaf(q, i) \in LeavesOf(selected, id)
    BY <2>1 DEF ApprovalIds, LeavesOf
  <2> HIDE DEF id, Effective
  <2>3. Effective(id) \in EffectiveApprovals(selected) /\ Effective(id).id = id
    BY <1>2, <1>3, <2>2
  <2>4. Keeps(Effective(id), PackApproval(q.payload, i))
    <3>1. ComposeEffectiveApproval(LeavesOf(selected, id)).status = "composed"
      BY <2>3 DEF Effective
    <3>2. Keeps(ComposeEffectiveApproval(LeavesOf(selected, id)), Leaf(q, i).approval)
      BY <2>2, <3>1, CompositionKeeps
    <3> QED BY <2>1, <3>2 DEF Effective
  <2>5. \A f \in EffectiveApprovals(selected) \ {Effective(id)} : f.id # Effective(id).id
    BY <1>1, <1>3, <2>3
  <2> QED BY <2>3, <2>4, <2>5 DEF id
<1>5. \A e \in EffectiveApprovals(selected) :
        e.required \subseteq e.eligible /\ e.eligible \cap (e.deniedActors \cup e.deniedSurfaces \cup NonHuman) = {}
  BY <1>1, CompositionAccepts
<1> QED BY <1>4, <1>5

\* Nor is a policy given up (_merge_policy).
LEMMA PoliciesTighten ==
  ASSUME NEW selected, NEW q \in selected, NEW i \in DOMAIN q.payload.policies
  PROVE  \E m \in MergedPolicies(selected) : /\ m.id = q.payload.policies[i].id
                                            /\ q.payload.policies[i].deny \subseteq m.deny
                                            /\ q.payload.policies[i].require \subseteq m.require
<1> DEFINE policy == q.payload.policies[i]
           entries == EntriesOf(selected, "policies", policy.id)
           m == [id |-> policy.id, text |-> FieldOf(entries, "text"),
                 deny |-> All(entries, "deny"), require |-> All(entries, "require")]
<1>1. policy.id \in UNION {Ids(p.payload.policies) : p \in selected}
  BY DEF Ids
<1>2. m \in MergedPolicies(selected)
  BY <1>1 DEF MergedPolicies
<1>3. policy \in entries
  BY DEF EntriesOf
<1>4. policy.deny \subseteq All(entries, "deny") /\ policy.require \subseteq All(entries, "require")
  BY <1>3 DEF All
<1> HIDE DEF entries, policy
<1>5. m.id = policy.id /\ m.deny = All(entries, "deny") /\ m.require = All(entries, "require")
  OBVIOUS
<1> QED BY <1>2, <1>4, <1>5 DEF policy

\* Nor a rule.
LEMMA RulesKept ==
  ASSUME NEW selected, NEW q \in selected, NEW r \in Elements(q.payload.rules)
  PROVE  [r EXCEPT !.id = <<q.payload.id, r.id>>] \in MergedRules(selected)
<1> DEFINE WithinPack(p, x) == [x EXCEPT !.id = <<p.payload.id, x.id>>]
<1>1. MergedRules(selected) = UNION {{WithinPack(p, x) : x \in Elements(p.payload.rules)} : p \in selected}
  BY DEF MergedRules
<1> HIDE DEF WithinPack
<1>2. WithinPack(q, r) \in MergedRules(selected)
  BY <1>1
<1> QED BY <1>2 DEF WithinPack

\* What a command that composes has: packs of its registry, under the lock it was given, and a
\* composition that gives up nothing.
LEMMA ComposeTightens ==
  ASSUME NEW registry, NEW identity, NEW ids, NEW theLock, NEW c,
         c = Compose(registry, identity, ids, theLock), Ok(c)
  PROVE  /\ Tightens(c) /\ c.selected \subseteq registry.packs
         /\ theLock = Absent => \A p \in c.selected : p.tier # "org"
         /\ theLock # Absent => VerifyLock(theLock.entries, c.selected) = "agrees"
         /\ c.rules = MergedRules(c.selected) /\ \A p \in c.selected : ~ DuplicateIds(p)
<1> DEFINE profile == IF identity = None THEN None ELSE ResolveIdentity(registry, "profile", identity)
           order == DependencyOrder(registry, profile, ids)
           selected == order.modules \cup (IF profile = None THEN {} ELSE {profile})
<1>1. c = ComposeWith(registry, profile, ids, theLock)
  BY DEF Compose
<1>2. profile = None \/ profile \in registry.packs
  <2>1. profile = None \/ Ok(profile)
    <3> HIDE DEF profile
    <3> QED BY <1>1 DEF ComposeWith
  <2>2. identity # None /\ Ok(profile) => profile \in Named(registry, "profile", identity)
    BY DEF ResolveIdentity, Ok, Failed
  <2> QED BY <2>1, <2>2 DEF Named, OfKind
<1> HIDE DEF profile
<1>3. c = ComposeFrom(profile, order, theLock)
  BY <1>1 DEF ComposeWith
<1> HIDE DEF order
<1>4. Ok(order) /\ c = MergedFrom(profile, order.modules, selected, theLock)
  BY <1>3 DEF ComposeFrom
<1>5. /\ order.modules \subseteq registry.packs
      /\ \A q \in selected : \A x \in q.payload.requires :
           \E m \in order.modules : m.payload.kind = "module" /\ x \in Tokens(m)
  BY <1>4, OrderIsComplete DEF order
<1>6. selected \subseteq registry.packs
  BY <1>2, <1>5
<1>7. order.modules \subseteq selected
  OBVIOUS
<1> HIDE DEF selected
<1>8. /\ theLock = Absent => \A p \in selected : p.tier # "org"
      /\ theLock # Absent => VerifyLock(theLock.entries, selected) = "agrees"
      /\ \A e \in EffectiveApprovals(selected) : e.status = "composed"
      /\ c.selected = selected
      /\ c.policies = MergedPolicies(selected) /\ c.approvals = EffectiveApprovals(selected)
      /\ c.rules = MergedRules(selected) /\ \A p \in selected : ~ DuplicateIds(p)
  BY <1>4, MergedFields
<1>9. Tightens(c)
  <2>1. /\ \A q \in selected : \A i \in DOMAIN q.payload.approvals :
             \E e \in EffectiveApprovals(selected) :
               /\ e.id = PackApproval(q.payload, i).id /\ Keeps(e, PackApproval(q.payload, i))
               /\ \A f \in EffectiveApprovals(selected) \ {e} : f.id # e.id
        /\ \A e \in EffectiveApprovals(selected) :
             e.required \subseteq e.eligible /\ e.eligible \cap (e.deniedActors \cup e.deniedSurfaces \cup NonHuman) = {}
    <3>1. \A e \in EffectiveApprovals(selected) : e.status = "composed"
      BY <1>8
    <3> QED BY <3>1, ApprovalsTighten
  <2>2. \A q \in selected : \A i \in DOMAIN q.payload.policies :
          \E m \in MergedPolicies(selected) : /\ m.id = q.payload.policies[i].id
                                             /\ q.payload.policies[i].deny \subseteq m.deny
                                             /\ q.payload.policies[i].require \subseteq m.require
    BY PoliciesTighten
  <2>3. \A q \in selected : \A r \in Elements(q.payload.rules) :
          \E m \in MergedRules(selected) : m = [r EXCEPT !.id = <<q.payload.id, r.id>>]
    BY RulesKept
  <2>4. \A q \in selected : \A x \in q.payload.requires :
          \E m \in selected : m.payload.kind = "module" /\ x \in Tokens(m)
    BY <1>5, <1>7
  <2>5. c.selected = selected /\ c.policies = MergedPolicies(selected)
        /\ c.approvals = EffectiveApprovals(selected) /\ c.rules = MergedRules(selected)
    BY <1>8
  <2> QED BY <2>1, <2>2, <2>3, <2>4, <2>5 DEF Tightens
<1>10. c.selected = selected
  BY <1>8
<1> QED BY <1>6, <1>8, <1>9, <1>10

(***************************************************************************)
(* Registries.                                                             *)
(***************************************************************************)
\* In a registry, and between it and the catalog, an identity is one pack; the catalog is in it, and
\* nothing else goes by an identity or a name of the catalog; every pack is one the schema admits.
RegistryInv(registry) ==
  /\ registry = [packs |-> registry.packs, shadowed |-> registry.shadowed]
  /\ \A p, q \in registry.packs \cup BuiltinRegistry.packs : p.payload.id = q.payload.id => p.payload = q.payload
  /\ \A b \in Elements(Builtins) : \E p \in registry.packs : p.payload = b /\ p.tier = "builtin"
  /\ \A p \in registry.packs : KeepsCatalog(p) /\ AdmittedPack(p.payload)

\* The catalog is such a registry (built_in_registry).
LEMMA CatalogInv == RegistryInv(BuiltinRegistry)
<1>1. \A p \in BuiltinRegistry.packs : p.payload \in Elements(Builtins)
  BY CatalogAssumption
<1>2. \A b \in Elements(Builtins) : b \in {p.payload : p \in BuiltinRegistry.packs}
  BY CatalogAssumption
<1>3. \A b \in Elements(Builtins) : \E p \in BuiltinRegistry.packs : p.payload = b /\ p.tier = "builtin"
  BY <1>2, CatalogAssumption
<1>4. \A p \in BuiltinRegistry.packs : KeepsCatalog(p) /\ AdmittedPack(p.payload)
  <2>1. \A p \in BuiltinRegistry.packs : AdmittedPack(p.payload)
    BY <1>1, CatalogAssumption
  <2> QED BY <1>1, <2>1, CatalogAssumption DEF KeepsCatalog, Tokens
<1> QED BY <1>1, <1>3, <1>4, CatalogAssumption DEF RegistryInv

\* A file that loads is one the schema admits, in the reserved namespace only if it is of the catalog.
LEMMA LoadedPack ==
  ASSUME NEW payload, NEW tier, NEW path, Ok(LoadPack(payload, tier, path))
  PROVE  /\ LoadPack(payload, tier, path) = [payload |-> payload, tier |-> tier, path |-> path]
         /\ tier = "builtin" \/ payload.id \notin ReservedIds
         /\ AdmittedPack(payload)
<1> DEFINE Schema == payload.form = "schema" \/ ~ AdmittedPack(payload)
           Blocked == \E i \in DOMAIN payload.approvals : PackApproval(payload, i).errors \cap BlockingErrors # {}
           Reserved == tier # "builtin" /\ payload.id \in ReservedIds
           Unknown == \E b \in payload.schemas : b[2] \notin BlockSchemas
           pack == [payload |-> payload, tier |-> tier, path |-> path]
           loaded == LoadPack(payload, tier, path)
<1>1. loaded =
        CASE payload.form = "yaml" -> Failed("PACK_YAML_INVALID")
          [] payload.kind \notin {"profile", "module"} -> Failed("PACK_SCHEMA_UNSUPPORTED")
          [] Schema -> Failed("SCHEMA_INVALID")
          [] payload.form = "hash" -> Failed("PACK_INTEGRITY_MISMATCH")
          [] Blocked -> Failed("APPROVAL_INVALID")
          [] Len(payload.rules) > MaxRulesPerPack -> Failed("PACK_LIMIT_EXCEEDED")
          [] Reserved -> Failed("PACK_RESERVED_NAMESPACE")
          [] Unknown -> Failed("BLOCK_SCHEMA_UNKNOWN")
          [] OTHER -> pack
  BY DEF LoadPack
<1>2. \A code : ~ Ok(Failed(code))
  BY DEF Ok, Failed
<1> HIDE DEF Schema, Blocked, Reserved, Unknown, pack, loaded
<1>3. loaded = pack /\ ~ Reserved /\ ~ Schema
  <2>1. Ok(loaded)
    BY DEF loaded
  <2> QED BY <1>1, <1>2, <2>1
<1>4. AdmittedPack(payload)
  BY <1>3 DEF Schema
<1> QED BY <1>3, <1>4 DEF loaded, pack, Reserved

\* Registering a pack keeps the registry (register_profile, register_module).
LEMMA RegisterKeeps ==
  ASSUME NEW registry, NEW pack, RegistryInv(registry), Ok(Register(registry, pack)),
         pack.tier = "builtin" \/ pack.payload.id \notin ReservedIds,
         AdmittedPack(pack.payload)
  PROVE  RegistryInv(Register(registry, pack))
<1> DEFINE same == OfKind(registry, pack.payload.kind)
           byId == {p \in same : p.payload.id = pack.payload.id}
           byName == {p \in same : p.payload.name = pack.payload.name}
           Foreign == pack.tier = "builtin" /\ pack.payload \notin Elements(Builtins)
           Duplicate == \/ \E p \in registry.packs \ same : Tokens(p) \cap Tokens(pack) # {}
                        \/ byId # byName
                        \/ \E p \in byId : p.tier = pack.tier
           Loses == \E p \in byId : TierPriority[p.tier] < TierPriority[pack.tier]
           Over(tiers) == {<<pack.payload.id, t[1], t[2]>> : t \in tiers}
           result == Register(registry, pack)
           lost == registry.shadowed \cup Over({<<p.tier, pack.tier>> : p \in byId})
           won == registry.shadowed \cup Over({<<pack.tier, p.tier>> : p \in byId})
           packs == (registry.packs \ byId) \cup {pack}
<1>0. pack.payload.id \notin PackNames /\ pack.payload.name \in PackNames
  BY DEF AdmittedPack
<1>1. result = IF Foreign THEN Failed("PACK_SOURCE_TIER_INVALID")
               ELSE IF Duplicate THEN Failed("PACK_DUPLICATE_IDENTITY")
               ELSE IF Loses THEN [packs |-> registry.packs, shadowed |-> lost]
               ELSE IF ~ pack.payload.core THEN Failed("PACK_CORE_INCOMPATIBLE")
               ELSE [packs |-> packs, shadowed |-> won]
  BY DEF Register
<1>2. \A code : ~ Ok(Failed(code))
  BY DEF Ok, Failed
<1>3. ASSUME ~ Duplicate, NEW p \in registry.packs, p.payload.id = pack.payload.id
      PROVE  p \in byId
  BY <1>3 DEF OfKind, Tokens
<1>4. ASSUME ~ Foreign, NEW p \in BuiltinRegistry.packs, p.payload.id = pack.payload.id
      PROVE  p.payload = pack.payload
  <2>1. p.payload \in Elements(Builtins)
    BY CatalogAssumption
  <2> QED BY <1>4, <2>1, CatalogAssumption
<1>5. ASSUME ~ Duplicate, NEW b \in Elements(Builtins), NEW p \in registry.packs, p.payload = b, p.tier = "builtin"
      PROVE  p \notin byId /\ Tokens(pack) \cap {b.id, b.name} = {}
  <2>1. b.id \in ReservedIds \ PackNames /\ b.name \in PackNames
    <3>1. b.id \in ReservedIds /\ AdmittedPack(b)
      BY CatalogAssumption
    <3> QED BY <3>1 DEF AdmittedPack
  <2>2. p \notin byId
    <3>1. SUFFICES ASSUME p \in byId PROVE FALSE
      OBVIOUS
    <3>2. pack.payload.id \in ReservedIds
      BY <1>5, <2>1, <3>1
    <3>3. p.tier = pack.tier
      BY <1>5, <3>2
    <3> QED BY <1>5, <3>1, <3>3
  <2>3. p \notin byName
    BY <1>5, <2>2
  <2>4. p \in same => pack.payload.id # b.id /\ pack.payload.name # b.name
    BY <1>5, <2>2, <2>3
  <2>5. p \notin same => Tokens(p) \cap Tokens(pack) = {}
    BY <1>5
  <2> QED BY <1>0, <1>5, <2>1, <2>2, <2>4, <2>5 DEF Tokens
<1> HIDE DEF byId, Foreign, Duplicate, Loses, lost, won, result
<1>6. /\ ~ Foreign /\ ~ Duplicate
      /\ result = [packs |-> registry.packs, shadowed |-> lost] \/ result = [packs |-> packs, shadowed |-> won]
  <2>1. Ok(result)
    BY DEF result
  <2> HIDE DEF packs
  <2> QED BY <1>1, <1>2, <2>1
<1>7. /\ result = [packs |-> result.packs, shadowed |-> result.shadowed]
      /\ result.packs = registry.packs \/ result.packs = packs
  BY <1>6
<1>8. ASSUME NEW p \in result.packs \cup BuiltinRegistry.packs, NEW q \in result.packs \cup BuiltinRegistry.packs,
             p.payload.id = q.payload.id
      PROVE  p.payload = q.payload
  <2>1. ASSUME NEW r \in packs \cup BuiltinRegistry.packs, r.payload.id = pack.payload.id
        PROVE  r.payload = pack.payload
    BY <1>3, <1>4, <1>6, <2>1
  <2>2. CASE result.packs = registry.packs
    BY <1>8, <2>2 DEF RegistryInv
  <2>3. CASE result.packs = packs
    <3>1. CASE p = pack \/ q = pack
      BY <1>8, <2>1, <2>3, <3>1
    <3>2. CASE p # pack /\ q # pack
      BY <1>8, <2>3, <3>2 DEF RegistryInv
    <3> QED BY <3>1, <3>2
  <2> QED BY <1>7, <2>2, <2>3
<1>9. ASSUME NEW b \in Elements(Builtins)
      PROVE  \E p \in result.packs : p.payload = b /\ p.tier = "builtin"
  BY <1>6, <1>7, <1>5 DEF RegistryInv
<1>10. ASSUME NEW p \in result.packs PROVE KeepsCatalog(p) /\ AdmittedPack(p.payload)
  <2>1. \A b \in Elements(Builtins) : Tokens(pack) \cap {b.id, b.name} = {}
    BY <1>6, <1>5 DEF RegistryInv
  <2> QED BY <1>7, <2>1 DEF RegistryInv, KeepsCatalog
<1>11. RegistryInv(result)
  BY <1>7, <1>8, <1>9, <1>10 DEF RegistryInv
<1> QED BY <1>11 DEF result

\* Registering what a file holds keeps the registry.
LEMMA RegisterFileKeeps ==
  ASSUME NEW registry, NEW file, RegistryInv(registry), Ok(RegisterFile(registry, file))
  PROVE  RegistryInv(RegisterFile(registry, file))
<1> DEFINE pack == LoadPack(file.payload, file.tier, file.path)
<1>1. RegisterFile(registry, file) = IF Ok(pack) THEN Register(registry, pack) ELSE pack
  BY DEF RegisterFile, RegisterLoaded
<1>2. Ok(pack) /\ RegisterFile(registry, file) = Register(registry, pack)
  <2> HIDE DEF pack
  <2> QED BY <1>1
<1>3. /\ pack.tier = "builtin" \/ pack.payload.id \notin ReservedIds
      /\ AdmittedPack(pack.payload)
  BY <1>2, LoadedPack
<1> HIDE DEF pack
<1> QED BY <1>2, <1>3, RegisterKeeps

(***************************************************************************)
(* Saved approvals.                                                        *)
(***************************************************************************)
\* What a trusted approval says of the packs of a registry that its leaves name (TrustedMeansCurrent).
Current(e, registry) ==
  LET entries(q) == {i \in DOMAIN q.payload.approvals :
                       \E l \in e.leaves : l.provenance.id = q.payload.id /\ l.provenance.index = i}
      named == UNION {{<<q, i>> : i \in entries(q)} : q \in registry.packs \cup BuiltinRegistry.packs}
  IN /\ \A l \in e.leaves : \E n \in named : l.approval = PackApproval(n[1].payload, n[2]) /\ n[1].payload = l.provenance.hash
     /\ \A n \in named : Keeps(e, PackApproval(n[1].payload, n[2]))

\* An approval that verifies against a registry is what its packs, and the catalog's, compose to.
LEMMA TrustedIsCurrent ==
  ASSUME NEW e, NEW registry, RegistryInv(registry), TrustedEffective(e, registry)
  PROVE  Current(e, registry)
<1> DEFINE packs == registry.packs \cup BuiltinRegistry.packs
           entries(q) == {i \in DOMAIN q.payload.approvals :
                            \E l \in e.leaves : l.provenance.id = q.payload.id /\ l.provenance.index = i}
           named == UNION {{<<q, i>> : i \in entries(q)} : q \in packs}
<1>1. /\ \A l \in e.leaves : TrustedNormalized(l.approval) /\ (TrustedLeaf(l, BuiltinRegistry) \/ TrustedLeaf(l, registry))
      /\ ComposeEffectiveApproval(e.leaves) = e /\ e.status = "composed"
  BY DEF TrustedEffective
<1>2. ASSUME NEW l \in e.leaves
      PROVE  \E q \in packs : /\ q.payload.id = l.provenance.id /\ l.provenance.index \in DOMAIN q.payload.approvals
                              /\ l.approval = PackApproval(q.payload, l.provenance.index)
                              /\ q.payload = l.provenance.hash
  <2>1. PICK q \in packs : /\ q.payload.id = l.provenance.id
                           /\ l.provenance.index \in DOMAIN q.payload.approvals
                           /\ l.provenance = Provenance(q, l.provenance.index)
                           /\ l.approval.source = q.payload.approvals[l.provenance.index]
                           /\ l.approval.shape = "generated_profile_approval" /\ l.approval.path = l.provenance.path
    BY <1>1 DEF TrustedLeaf
  <2>2. l.provenance.hash = q.payload /\ l.provenance.path = ApprovalPath(q.payload.id, l.provenance.index)
    <3> DEFINE index == l.provenance.index
    <3> HIDE DEF index
    <3>1. Provenance(q, index).hash = q.payload /\ Provenance(q, index).path = ApprovalPath(q.payload.id, index)
      BY DEF Provenance
    <3> QED BY <2>1, <3>1 DEF index
  <2>3. l.approval = NormalizeApproval(l.approval.source, l.approval.shape, l.approval.path)
    BY <1>1 DEF TrustedNormalized
  <2>4. l.approval = PackApproval(q.payload, l.provenance.index)
    BY <2>1, <2>2, <2>3 DEF PackApproval
  <2> QED BY <2>1, <2>2, <2>4
<1>3. \A q \in packs : \A i \in entries(q) : <<q, i>> \in named
  OBVIOUS
<1>4. \A n \in named : \E q \in packs : \E i \in entries(q) : n = <<q, i>>
  OBVIOUS
<1>5. ASSUME NEW l \in e.leaves
      PROVE  \E n \in named : l.approval = PackApproval(n[1].payload, n[2]) /\ n[1].payload = l.provenance.hash
  <2>1. PICK q \in packs : /\ q.payload.id = l.provenance.id /\ l.provenance.index \in DOMAIN q.payload.approvals
                           /\ l.approval = PackApproval(q.payload, l.provenance.index)
                           /\ q.payload = l.provenance.hash
    BY <1>2
  <2>2. l.provenance.index \in entries(q)
    BY <2>1
  <2> DEFINE n == <<q, l.provenance.index>>
  <2>3. n \in named
    BY <1>3, <2>2
  <2> HIDE DEF entries, named
  <2>4. n[1] = q /\ n[2] = l.provenance.index
    OBVIOUS
  <2> HIDE DEF n
  <2> QED BY <2>1, <2>3, <2>4
<1>6. ASSUME NEW n \in named PROVE Keeps(e, PackApproval(n[1].payload, n[2]))
  <2>1. PICK q \in packs : \E i \in entries(q) : n = <<q, i>>
    BY <1>4
  <2> PICK i \in entries(q) : n = <<q, i>>
    BY <2>1
  <2>2. PICK l \in e.leaves : l.provenance.id = q.payload.id /\ l.provenance.index = i
    OBVIOUS
  <2>3. PICK r \in packs : r.payload.id = l.provenance.id /\ l.approval = PackApproval(r.payload, i)
    BY <1>2, <2>2
  <2>4. r.payload = q.payload
    BY <2>2, <2>3 DEF RegistryInv
  <2>5. Keeps(e, l.approval)
    BY <1>1, CompositionKeeps
  <2> HIDE DEF entries, named
  <2> QED BY <2>1, <2>3, <2>4, <2>5
<1> QED BY <1>5, <1>6 DEF Current

(***************************************************************************)
(* The processes.  The invariant says of each process, given the lock as   *)
(* it is: what it may be doing, what it has seen and what it has found.    *)
(***************************************************************************)
Fields == {"pc", "request", "directories", "listing", "registry", "document", "locked", "existing",
           "composition", "findings", "verdict", "verified", "seen"}

\* What a process may be doing on which command.
Doing(s) ==
  /\ s.pc \in {"compose", "evaluate"} /\ ~ s.locked => Absent \in s.seen
  /\ s.pc = "verify" => s.request.command = "verify"
  /\ s.pc \in {"document", "find", "compose", "evaluate"} => s.request.command # "verify"
  /\ s.pc \in {"existing", "resolve"} => s.request.command \in {"resolve", "lock"}
  /\ s.pc \in {"prepare", "write", "replace"} =>
       s.request.command = "lock" /\ s.composition.selected \subseteq s.registry.packs
  /\ s.pc \in {"compose", "evaluate"} \/ (s.pc = "find" /\ s.request.command # "resolve") =>
       s.document.tree \in DocumentNodes

\* The packs of its composition are those of a lock it has seen, or need none.
Governed(s) ==
  \/ \E l \in s.seen \ {Absent} : ~ l.link /\ l.entries = LockForPacks(s.composition.selected)
  \/ Absent \in s.seen /\ \A q \in s.composition.selected : q.tier # "org"

\* Its findings are, rule by rule, what the rules ask for of its document.
Explained(s) ==
  /\ s.document.tree \in DocumentNodes
  /\ \A r \in s.composition.rules : IsRule(r) /\ {f \in s.findings : f.rule = r.id} = Meaning(s.document.tree, r)

\* What a process may have found.
Vouches(s) ==
  s.request.command \in Evaluating /\ s.verdict \in {"passed", "failed"} /\ s.composition # None =>
    /\ Tightens(s.composition) /\ \A q \in s.composition.selected : KeepsCatalog(q)
    /\ s.verdict = "passed" => Governed(s)
    /\ Explained(s)
Trusts(s) ==
  s.request.command = "verify" /\ s.verdict = "passed" =>
    RegistryInv(s.registry) /\ TrustedEffective(s.verified, s.registry)

ProcessInv(s, l) ==
  /\ DOMAIN s = Fields
  /\ \A k \in s.seen : LockFile(k)
  /\ s.pc # "idle" => s.verdict = "none" /\ l \in s.seen /\ RegistryInv(s.registry)
  /\ Doing(s) /\ Vouches(s) /\ Trusts(s)

Inv ==
  /\ DOMAIN procs = Procs /\ LockFile(lock) /\ edits \in Nat
  /\ \A d \in {document} \cup scenario.documents : d.tree \in DocumentNodes
  /\ \A p \in Procs : ProcessInv(procs[p], lock)

\* The lock and the document stay as they are.
Same == lock' = lock /\ document' = document /\ scenario' = scenario

\* A process that has not started, or has died.
LEMMA IdleInv ==
  ASSUME NEW l, NEW r \in {Idle, [Idle EXCEPT !.verdict = "crashed"]}
  PROVE  ProcessInv(r, l)
<1>1. /\ DOMAIN r = Fields /\ r.pc = "idle" /\ r.verdict \notin {"passed", "failed"} /\ r.seen = {}
  BY DEF Idle, Fields
<1> QED BY <1>1 DEF ProcessInv, Doing, Vouches, Trusts

\* Before any command.
LEMMA InitInv == Init => Inv
<1> SUFFICES ASSUME Init PROVE Inv
  OBVIOUS
<1>1. ProcessInv(Idle, lock)
  BY IdleInv
<1>2. LockFile(lock) /\ edits \in Nat
  BY ScenarioAssumption DEF Init
<1>3. \A d \in {document} \cup scenario.documents : d.tree \in DocumentNodes
  BY ScenarioAssumption DEF Init
<1> QED BY <1>1, <1>2, <1>3 DEF Init, Inv

\* A step that changes one process and keeps the lock.
LEMMA UpdateKeeps ==
  ASSUME Inv, NEW p \in Procs, NEW r, Update(p, r), Same, edits' \in Nat, ProcessInv(r, lock)
  PROVE  Inv'
  BY DEF Inv, Update, Same

\* A command that ends without a finding to vouch for.
LEMMA EndKeeps ==
  ASSUME Inv, NEW p \in Procs, NEW verdict, End(p, verdict), Same, edits' \in Nat, verdict # "failed",
         verdict = "passed" => procs[p].request.command \notin Evaluating \cup {"verify"}
  PROVE  Inv'
<1> DEFINE s == procs[p]
           r == [s EXCEPT !.pc = "idle", !.verdict = verdict]
<1>1. ProcessInv(s, lock)
  BY DEF Inv
<1>2. /\ DOMAIN r = Fields /\ r.pc = "idle" /\ r.verdict = verdict /\ r.seen = s.seen /\ r.registry = s.registry
      /\ r.request = s.request
  BY <1>1 DEF ProcessInv, Fields
<1>3. Update(p, r)
  BY DEF End
<1> HIDE DEF r
<1>4. ProcessInv(r, lock)
  BY <1>1, <1>2 DEF ProcessInv, Doing, Vouches, Trusts
<1> QED BY <1>3, <1>4, UpdateKeeps

\* What a process that composes has (check, host, report; ComposedNow).
LEMMA ComposedInv ==
  ASSUME NEW s, NEW c, ProcessInv(s, lock), LockFile(lock), s.pc \in {"compose", "evaluate"},
         c = ComposedNow(s), c # None, Ok(c)
  PROVE  /\ Tightens(c) /\ \A q \in c.selected : KeepsCatalog(q)
         /\ \/ \E l \in s.seen \ {Absent} : ~ l.link /\ l.entries = LockForPacks(c.selected)
            \/ Absent \in s.seen /\ \A q \in c.selected : q.tier # "org"
         /\ c.selected \subseteq s.registry.packs
         /\ c.rules = MergedRules(c.selected) /\ \A q \in c.selected : ~ DuplicateIds(q)
<1> DEFINE given == IF s.locked THEN lock ELSE Absent
           Skips == s.document.modules = {}
                      /\ (s.document.profile = None \/ Unresolvable(s.document, s.registry))
<1>1. \A code : ~ Ok(Failed(code))
  BY DEF Ok, Failed
<1>2. /\ s.locked /\ ReadsLock(s.document, s.registry) => ~ Unreadable
      /\ c = ComposeDocument(s.document, s.registry, given)
  <2> HIDE DEF given
  <2>1. s.locked /\ ReadsLock(s.document, s.registry) /\ Unreadable => c = Failed("PACK_LOCK_INVALID")
    BY DEF ComposedNow
  <2>2. ~ (s.locked /\ ReadsLock(s.document, s.registry) /\ Unreadable) =>
          c = ComposeDocument(s.document, s.registry, given)
    BY DEF ComposedNow, given
  <2> QED BY <1>1, <2>1, <2>2
<1> HIDE DEF given, Skips
<1>3. c = Compose(s.registry, s.document.profile, s.document.modules, given)
      /\ s.document.modules # IllTyped /\ ~ Skips
  <2>1. ComposeDocument(s.document, s.registry, given) =
          CASE s.document.modules = IllTyped -> Failed("PACK_MODULE_SELECTION_INVALID")
            [] Skips -> None
            [] OTHER -> Compose(s.registry, s.document.profile, s.document.modules, given)
    BY DEF ComposeDocument, Skips
  <2> QED BY <1>1, <1>2, <2>1
<1>4. /\ Tightens(c) /\ c.selected \subseteq s.registry.packs
      /\ given = Absent => \A q \in c.selected : q.tier # "org"
      /\ given # Absent => VerifyLock(given.entries, c.selected) = "agrees"
      /\ c.rules = MergedRules(c.selected) /\ \A q \in c.selected : ~ DuplicateIds(q)
  BY <1>3, ComposeTightens
<1>5. lock \in s.seen /\ (~ s.locked => Absent \in s.seen)
  BY DEF ProcessInv, Doing
<1>6. \A q \in c.selected : KeepsCatalog(q)
  BY <1>4 DEF ProcessInv, RegistryInv
<1>7. CASE s.locked
  <2>1. ReadsLock(s.document, s.registry)
    BY <1>3 DEF ReadsLock, Skips
  <2>2. lock # Absent /\ ~ lock.link /\ lock.entries # IllTyped
    BY <1>2, <1>7, <2>1 DEF Unreadable
  <2>3. VerifyLock(lock.entries, c.selected) = "agrees"
    BY <1>4, <1>7, <2>2 DEF given
  <2>4. \A e \in lock.entries : e = [id |-> e.id, version |-> e.version, tier |-> e.tier, hash |-> e.hash]
    BY <2>2 DEF LockFile
  <2>5. lock.entries = LockForPacks(c.selected)
    BY <2>3, <2>4, VerifiedIsLocked
  <2> QED BY <1>4, <1>5, <1>6, <2>2, <2>5
<1>8. CASE ~ s.locked
  BY <1>4, <1>5, <1>6, <1>8 DEF given
<1> QED BY <1>7, <1>8

\* What a process that evaluates finds (evaluate_document_governance): rule by rule what the rule asks for.
LEMMA EvaluatedInv ==
  ASSUME NEW s, NEW c, ProcessInv(s, lock), LockFile(lock), s.pc = "evaluate",
         c = ComposedNow(s), c # None, Ok(c)
  PROVE  /\ s.document.tree \in DocumentNodes
         /\ \A r \in c.rules : /\ IsRule(r)
                               /\ {f \in Evaluate(s.document, s.registry, c) : f.rule = r.id} = Meaning(s.document.tree, r)
<1> DEFINE findings == Evaluate(s.document, s.registry, c)
           others == BlockFindings(s.document, c)
                       \cup UNION {{Report(f.level, f.code) : f \in StructuralFindings(check, s.document)} : check \in c.checks}
           tree == s.document.tree
<1>1. /\ c.selected \subseteq s.registry.packs
      /\ c.rules = MergedRules(c.selected) /\ \A q \in c.selected : ~ DuplicateIds(q)
  BY ComposedInv
<1>2. RegistryInv(s.registry) /\ tree \in DocumentNodes
  BY DEF ProcessInv, Doing
<1>3. \A p, q \in c.selected : p.payload.id = q.payload.id => p.payload = q.payload
  BY <1>1, <1>2 DEF RegistryInv
<1>4. \A p \in c.selected : AdmittedPack(p.payload) /\ ~ DuplicateIds(p)
  BY <1>1, <1>2 DEF RegistryInv
<1>5. /\ \A r \in c.rules : IsRule(r) /\ r.id # << >>
      /\ \A r, q \in c.rules : r.id = q.id => r = q
  BY <1>1, <1>3, <1>4, MergedRulesNamed
<1>6. Closed(DocumentNodes)
  BY NodesAssumption DEF Closed
<1>7. \A r \in c.rules : {f \in EvaluateRules(tree, c.rules) : f.rule = r.id} = Meaning(tree, r)
  BY <1>2, <1>5, <1>6, RulesMean
<1>8. \A f \in others : f.rule = << >>
  <2>1. \A level, code : Report(level, code).rule = << >>
    BY DEF Report
  <2> QED BY <2>1 DEF BlockFindings
<1>9. findings = EvaluateRules(tree, c.rules) \cup others
  BY DEF Evaluate
<1> HIDE DEF findings, others
<1>10. ASSUME NEW r \in c.rules PROVE {f \in findings : f.rule = r.id} = Meaning(tree, r)
  <2>1. {f \in findings : f.rule = r.id} = {f \in EvaluateRules(tree, c.rules) : f.rule = r.id}
    BY <1>5, <1>8, <1>9
  <2> QED BY <1>7, <2>1
<1> QED BY <1>2, <1>5, <1>10 DEF findings

(***************************************************************************)
(* Each step keeps the invariant.                                          *)
(***************************************************************************)

\* A command starts.
LEMMA StartKeeps == ASSUME Inv, NEW p \in Procs, Start(p) PROVE Inv'
<1>1. PICK request \in scenario.requests :
        Update(p, [Idle EXCEPT
          !.pc = "packs", !.request = request, !.registry = BuiltinRegistry, !.seen = {lock},
          !.directories = SelectSeq(Directories, LAMBDA d : d.tier = "project" \/ request.command = "host")])
  BY DEF Start
<1> DEFINE found == SelectSeq(Directories, LAMBDA d : d.tier = "project" \/ request.command = "host")
<1> HIDE DEF found
<1> DEFINE r == [Idle EXCEPT !.pc = "packs", !.request = request, !.registry = BuiltinRegistry, !.seen = {lock},
                            !.directories = found]
<1>2. Update(p, r)
  BY <1>1 DEF found
<1>3. DOMAIN r = Fields /\ r.pc = "packs" /\ r.registry = BuiltinRegistry /\ r.seen = {lock} /\ r.verdict = "none"
  BY DEF Idle, Fields
<1> HIDE DEF r
<1>4. LockFile(lock) /\ edits \in Nat /\ edits' = edits /\ Same
  BY DEF Inv, Start, workspace, Same
<1>5. ProcessInv(r, lock)
  BY <1>3, <1>4, CatalogInv DEF ProcessInv, Doing, Vouches, Trusts
<1> QED BY <1>2, <1>4, <1>5, UpdateKeeps

\* A directory of packs is listed.
LEMMA ListDirectoryKeeps == ASSUME Inv, NEW p \in Procs, ListDirectory(p) PROVE Inv'
<1>1. PICK listing, directories : Update(p, [procs[p] EXCEPT !.listing = listing, !.directories = directories])
  BY DEF ListDirectory
<1> DEFINE s == procs[p]
           r == [s EXCEPT !.listing = listing, !.directories = directories]
<1>2. ProcessInv(s, lock) /\ edits \in Nat /\ edits' = edits /\ Same
  BY DEF Inv, ListDirectory, Reads, workspace, Same
<1>3. /\ DOMAIN r = Fields /\ r.registry = s.registry /\ r.seen = s.seen /\ r.verdict = s.verdict /\ r.pc = s.pc
      /\ r.request = s.request /\ r.locked = s.locked /\ r.composition = s.composition /\ r.verified = s.verified
      /\ r.document = s.document /\ r.findings = s.findings
  BY <1>2 DEF ProcessInv, Fields
<1>4. Update(p, r)
  BY <1>1
<1> HIDE DEF r
<1>5. ProcessInv(r, lock)
  BY <1>2, <1>3 DEF ProcessInv, Doing, Vouches, Trusts, Governed, Explained
<1> QED BY <1>2, <1>4, <1>5, UpdateKeeps

\* A pack is read and registered.
LEMMA ReadPackKeeps == ASSUME Inv, NEW p \in Procs, ReadPack(p) PROVE Inv'
<1> DEFINE s == procs[p]
           file == Head(s.listing)
           read == [payload |-> files[file.path], tier |-> file.tier, path |-> file.path]
           registry == RegisterFile(s.registry, read)
           rest == Tail(s.listing)
           r == [s EXCEPT !.registry = registry, !.listing = rest]
<1>1. s.pc = "packs" /\ (End(p, "refused") \/ (Ok(registry) /\ Update(p, r)))
  BY DEF ReadPack
<1>2. ProcessInv(s, lock) /\ edits \in Nat /\ edits' = edits /\ Same
  BY DEF Inv, ReadPack, Reads, workspace, Same
<1>3. CASE End(p, "refused")
  BY <1>2, <1>3, EndKeeps
<1>4. CASE Ok(registry) /\ Update(p, r)
  <2>1. RegistryInv(registry)
    BY <1>1, <1>2, <1>4, RegisterFileKeeps DEF ProcessInv
  <2> HIDE DEF registry, rest
  <2>2. /\ DOMAIN r = Fields /\ r.registry = registry /\ r.seen = s.seen /\ r.verdict = s.verdict /\ r.pc = "packs"
        /\ r.request = s.request
    BY <1>1, <1>2 DEF ProcessInv, Fields
  <2> HIDE DEF r
  <2>3. ProcessInv(r, lock)
    BY <1>1, <1>2, <2>1, <2>2 DEF ProcessInv, Doing, Vouches, Trusts
  <2> QED BY <1>2, <1>4, <2>3, UpdateKeeps
<1> QED BY <1>1, <1>3, <1>4

\* All packs are read.
LEMMA PacksReadKeeps == ASSUME Inv, NEW p \in Procs, PacksRead(p) PROVE Inv'
<1> DEFINE s == procs[p]
           pc == CASE s.request.command = "lock" -> "resolve"
                   [] s.request.command = "verify" -> "verify"
                   [] s.request.command = "resolve" -> "find"
                   [] OTHER -> "document"
<1>0. Update(p, [s EXCEPT !.pc = pc])
  BY DEF PacksRead
<1>1. /\ pc \in {"resolve", "verify", "find", "document"}
      /\ pc = "resolve" => s.request.command = "lock"
      /\ pc = "verify" => s.request.command = "verify"
      /\ pc \in {"find", "document"} => s.request.command # "verify"
      /\ pc = "find" => s.request.command = "resolve"
  OBVIOUS
<1> HIDE DEF pc
<1> DEFINE r == [s EXCEPT !.pc = pc]
<1>2. ProcessInv(s, lock) /\ edits \in Nat /\ edits' = edits /\ Same /\ s.pc = "packs"
  BY DEF Inv, PacksRead, Reads, workspace, Same
<1>3. /\ DOMAIN r = Fields /\ r.registry = s.registry /\ r.seen = s.seen /\ r.verdict = s.verdict /\ r.pc = pc
      /\ r.request = s.request
  BY <1>2 DEF ProcessInv, Fields
<1>4. Update(p, r)
  BY <1>0
<1> HIDE DEF r
<1>5. ProcessInv(r, lock)
  BY <1>1, <1>2, <1>3 DEF ProcessInv, Doing, Vouches, Trusts
<1> QED BY <1>2, <1>4, <1>5, UpdateKeeps

\* The document is loaded.
LEMMA LoadDocumentKeeps == ASSUME Inv, NEW p \in Procs, LoadDocument(p) PROVE Inv'
<1> DEFINE s == procs[p]
           r == [s EXCEPT !.document = document, !.pc = "find"]
<1>1. Update(p, r) /\ s.pc = "document"
  BY DEF LoadDocument
<1>2. ProcessInv(s, lock) /\ edits \in Nat /\ edits' = edits /\ Same
  BY DEF Inv, LoadDocument, Reads, workspace, Same
<1>3. /\ DOMAIN r = Fields /\ r.registry = s.registry /\ r.seen = s.seen /\ r.verdict = s.verdict /\ r.pc = "find"
      /\ r.request = s.request /\ r.document = document
  BY <1>2 DEF ProcessInv, Fields
<1> HIDE DEF r
<1>0. document.tree \in DocumentNodes
  BY DEF Inv
<1>4. ProcessInv(r, lock)
  BY <1>0, <1>1, <1>2, <1>3 DEF ProcessInv, Doing, Vouches, Trusts
<1> QED BY <1>1, <1>2, <1>4, UpdateKeeps

\* The lock file is looked for.
LEMMA FindLockKeeps == ASSUME Inv, NEW p \in Procs, FindLock(p) PROVE Inv'
<1> DEFINE s == procs[p]
           locked == lock # Absent
           pc == IF s.request.command # "resolve" THEN "compose" ELSE IF lock = Absent THEN "resolve" ELSE "existing"
<1>1. /\ s.pc = "find"
      /\ \/ End(p, "refused")
         \/ Update(p, [s EXCEPT !.locked = locked, !.pc = pc])
  BY DEF FindLock
<1>2. ProcessInv(s, lock) /\ edits \in Nat /\ edits' = edits /\ Same
  BY DEF Inv, FindLock, Reads, workspace, Same
<1>3. CASE End(p, "refused")
  BY <1>2, <1>3, EndKeeps
<1>4. CASE Update(p, [s EXCEPT !.locked = locked, !.pc = pc])
  <2> DEFINE r == [s EXCEPT !.locked = locked, !.pc = pc]
  <2>1. pc \in {"compose", "resolve", "existing"} /\ (pc \in {"resolve", "existing"} <=> s.request.command = "resolve")
    OBVIOUS
  <2>2. ~ locked => Absent \in s.seen
    BY <1>1, <1>2 DEF ProcessInv
  <2> HIDE DEF locked, pc
  <2>3. /\ DOMAIN r = Fields /\ r.registry = s.registry /\ r.seen = s.seen /\ r.verdict = s.verdict /\ r.pc = pc
        /\ r.request = s.request /\ r.locked = locked /\ r.document = s.document
    BY <1>2 DEF ProcessInv, Fields
  <2> HIDE DEF r
  <2>4. ProcessInv(r, lock)
    BY <1>1, <1>2, <2>1, <2>2, <2>3 DEF ProcessInv, Doing, Vouches, Trusts
  <2>5. Update(p, r)
    BY <1>4 DEF r
  <2> QED BY <1>2, <2>4, <2>5, UpdateKeeps
<1> QED BY <1>1, <1>3, <1>4

\* check composes and goes on to evaluate.
LEMMA ComposeForCheckKeeps == ASSUME Inv, NEW p \in Procs, ComposeForCheck(p) PROVE Inv'
<1> DEFINE s == procs[p]
           composed == ComposedNow(s)
           r == [s EXCEPT !.composition = composed, !.pc = "evaluate"]
<1>1. s.pc = "compose" /\ (End(p, "refused") \/ Update(p, r))
  BY DEF ComposeForCheck
<1>2. ProcessInv(s, lock) /\ edits \in Nat /\ edits' = edits /\ Same
  BY DEF Inv, ComposeForCheck, Reads, workspace, Same
<1>3. CASE End(p, "refused")
  BY <1>2, <1>3, EndKeeps
<1>4. CASE Update(p, r)
  <2> HIDE DEF composed
  <2>1. /\ DOMAIN r = Fields /\ r.registry = s.registry /\ r.seen = s.seen /\ r.verdict = s.verdict /\ r.pc = "evaluate"
        /\ r.request = s.request /\ r.locked = s.locked /\ r.document = s.document
    BY <1>2 DEF ProcessInv, Fields
  <2> HIDE DEF r
  <2>2. ProcessInv(r, lock)
    BY <1>1, <1>2, <2>1 DEF ProcessInv, Doing, Vouches, Trusts
  <2> QED BY <1>2, <1>4, <2>2, UpdateKeeps
<1> QED BY <1>1, <1>3, <1>4

\* A command composes again and has its findings.
LEMMA EvaluateNowKeeps == ASSUME Inv, NEW p \in Procs, EvaluateNow(p) PROVE Inv'
<1> DEFINE s == procs[p]
           composed == ComposedNow(s)
           findings == Evaluate(s.document, s.registry, composed)
           sound == s.request.command = "report" \/ s.document.sound
           verdict == IF HasErrorLevel(findings) \/ ~ sound THEN "failed" ELSE "passed"
           r == [s EXCEPT !.pc = "idle", !.findings = findings, !.composition = composed, !.verdict = verdict]
<1>1. s.pc = "evaluate" /\ (End(p, "refused") \/ ((composed = None \/ Ok(composed)) /\ Update(p, r)))
  BY DEF EvaluateNow
<1>2. ProcessInv(s, lock) /\ edits \in Nat /\ edits' = edits /\ Same /\ LockFile(lock)
  BY DEF Inv, EvaluateNow, Reads, workspace, Same
<1>3. CASE End(p, "refused")
  BY <1>2, <1>3, EndKeeps
<1>4. CASE (composed = None \/ Ok(composed)) /\ Update(p, r)
  <2>1. composed # None =>
          /\ Tightens(composed) /\ \A q \in composed.selected : KeepsCatalog(q)
          /\ \/ \E l \in s.seen \ {Absent} : ~ l.link /\ l.entries = LockForPacks(composed.selected)
             \/ Absent \in s.seen /\ \A q \in composed.selected : q.tier # "org"
          /\ s.document.tree \in DocumentNodes
          /\ \A x \in composed.rules : IsRule(x) /\ {f \in findings : f.rule = x.id} = Meaning(s.document.tree, x)
    BY <1>1, <1>2, <1>4, ComposedInv, EvaluatedInv
  <2> HIDE DEF composed, findings, verdict
  <2>2. /\ DOMAIN r = Fields /\ r.registry = s.registry /\ r.seen = s.seen /\ r.verdict = verdict /\ r.pc = "idle"
        /\ r.request = s.request /\ r.composition = composed
        /\ r.findings = findings /\ r.document = s.document
    BY <1>2 DEF ProcessInv, Fields
  <2> HIDE DEF r
  <2>3. s.request.command # "verify"
    BY <1>1, <1>2 DEF ProcessInv, Doing
  <2>4. Vouches(r)
    BY <2>1, <2>2 DEF Vouches, Governed, Explained
  <2>5. ProcessInv(r, lock)
    BY <1>2, <2>2, <2>3, <2>4 DEF ProcessInv, Doing, Trusts
  <2> QED BY <1>2, <1>4, <2>5, UpdateKeeps
<1> QED BY <1>1, <1>3, <1>4

\* resolve reads the lock.
LEMMA LoadExistingKeeps == ASSUME Inv, NEW p \in Procs, LoadExisting(p) PROVE Inv'
<1> DEFINE s == procs[p]
           r == [s EXCEPT !.existing = lock, !.pc = "resolve"]
<1>1. s.pc = "existing" /\ (End(p, "refused") \/ Update(p, r))
  BY DEF LoadExisting
<1>2. ProcessInv(s, lock) /\ edits \in Nat /\ edits' = edits /\ Same
  BY DEF Inv, LoadExisting, Reads, workspace, Same
<1>3. CASE End(p, "refused")
  BY <1>2, <1>3, EndKeeps
<1>4. CASE Update(p, r)
  <2>1. /\ DOMAIN r = Fields /\ r.registry = s.registry /\ r.seen = s.seen /\ r.verdict = s.verdict /\ r.pc = "resolve"
        /\ r.request = s.request
    BY <1>2 DEF ProcessInv, Fields
  <2> HIDE DEF r
  <2>2. ProcessInv(r, lock)
    BY <1>1, <1>2, <2>1 DEF ProcessInv, Doing, Vouches, Trusts
  <2> QED BY <1>2, <1>4, <2>2, UpdateKeeps
<1> QED BY <1>1, <1>3, <1>4

\* resolve and lock compose a profile.
LEMMA ResolveProfileKeeps == ASSUME Inv, NEW p \in Procs, ResolveProfile(p) PROVE Inv'
<1> DEFINE s == procs[p]
           composed == Compose(s.registry, s.request.name, {}, s.existing)
           r == [s EXCEPT !.composition = composed, !.pc = "prepare"]
<1>1. /\ s.pc = "resolve"
      /\ \/ End(p, "refused")
         \/ s.request.command = "resolve" /\ End(p, "passed")
         \/ s.request.command # "resolve" /\ Ok(composed) /\ Update(p, r)
  BY DEF ResolveProfile
<1>2. ProcessInv(s, lock) /\ edits \in Nat /\ edits' = edits /\ Same
  BY DEF Inv, ResolveProfile, Reads, workspace, Same
<1>3. CASE End(p, "refused")
  BY <1>2, <1>3, EndKeeps
<1>4. CASE s.request.command = "resolve" /\ End(p, "passed")
  BY <1>2, <1>4, EndKeeps DEF Evaluating
<1>5. CASE s.request.command # "resolve" /\ Ok(composed) /\ Update(p, r)
  <2>1. composed.selected \subseteq s.registry.packs
    BY <1>5, ComposeTightens
  <2> HIDE DEF composed
  <2>2. /\ DOMAIN r = Fields /\ r.registry = s.registry /\ r.seen = s.seen /\ r.verdict = s.verdict /\ r.pc = "prepare"
        /\ r.request = s.request /\ r.composition = composed
    BY <1>2 DEF ProcessInv, Fields
  <2> HIDE DEF r
  <2>3. s.request.command = "lock"
    BY <1>1, <1>2, <1>5 DEF ProcessInv, Doing
  <2>4. ProcessInv(r, lock)
    BY <1>1, <1>2, <2>1, <2>2, <2>3 DEF ProcessInv, Doing, Vouches, Trusts
  <2> QED BY <1>2, <1>5, <2>4, UpdateKeeps
<1> QED BY <1>1, <1>3, <1>4, <1>5

\* A writer of the lock moves on.
LEMMA WriterKeeps ==
  ASSUME Inv, NEW p \in Procs, NEW pc \in {"write", "replace"}, procs[p].pc \in {"prepare", "write"},
         Update(p, [procs[p] EXCEPT !.pc = pc]), Same, edits' = edits
  PROVE  Inv'
<1> DEFINE s == procs[p]
           r == [s EXCEPT !.pc = pc]
<1>1. ProcessInv(s, lock) /\ edits \in Nat
  BY DEF Inv
<1>2. /\ DOMAIN r = Fields /\ r.registry = s.registry /\ r.seen = s.seen /\ r.verdict = s.verdict /\ r.pc = pc
      /\ r.request = s.request /\ r.composition = s.composition
  BY <1>1 DEF ProcessInv, Fields
<1> HIDE DEF r
<1>3. ProcessInv(r, lock)
  BY <1>1, <1>2 DEF ProcessInv, Doing, Vouches, Trusts
<1>4. Update(p, r)
  BY DEF r
<1> QED BY <1>1, <1>3, <1>4, UpdateKeeps

\* The path of the lock is made ready.
LEMMA PrepareLockKeeps == ASSUME Inv, NEW p \in Procs, PrepareLock(p) PROVE Inv'
<1>1. edits \in Nat /\ edits' = edits /\ Same /\ procs[p].pc = "prepare"
  BY DEF Inv, PrepareLock, Reads, workspace, Same
<1>2. End(p, "refused") \/ Update(p, [procs[p] EXCEPT !.pc = "write"])
  BY DEF PrepareLock
<1> QED BY <1>1, <1>2, EndKeeps, WriterKeeps

\* The temporary file is written.
LEMMA WriteTemporaryKeeps == ASSUME Inv, NEW p \in Procs, WriteTemporary(p) PROVE Inv'
<1>1. edits \in Nat /\ edits' = edits /\ Same /\ procs[p].pc = "write"
  BY DEF Inv, WriteTemporary, Reads, workspace, Same
<1>2. End(p, "refused") \/ Update(p, [procs[p] EXCEPT !.pc = "replace"])
  BY DEF WriteTemporary
<1> QED BY <1>1, <1>2, EndKeeps, WriterKeeps

\* A saved approval is verified.
LEMMA VerifyArtifactKeeps == ASSUME Inv, NEW p \in Procs, VerifyArtifact(p) PROVE Inv'
<1> DEFINE s == procs[p]
           r == [s EXCEPT !.pc = "idle", !.verdict = "passed", !.verified = artifact]
<1>1. s.pc = "verify" /\ (End(p, "refused") \/ (TrustedEffective(artifact, s.registry) /\ Update(p, r)))
  BY DEF VerifyArtifact
<1>2. ProcessInv(s, lock) /\ edits \in Nat /\ edits' = edits /\ Same
  BY DEF Inv, VerifyArtifact, Reads, workspace, Same
<1>3. CASE End(p, "refused")
  BY <1>2, <1>3, EndKeeps
<1>4. CASE TrustedEffective(artifact, s.registry) /\ Update(p, r)
  <2>1. /\ DOMAIN r = Fields /\ r.registry = s.registry /\ r.seen = s.seen /\ r.verdict = "passed" /\ r.pc = "idle"
        /\ r.request = s.request /\ r.verified = artifact
    BY <1>2 DEF ProcessInv, Fields
  <2>2. s.request.command = "verify"
    BY <1>1, <1>2 DEF ProcessInv, Doing
  <2> HIDE DEF r
  <2>3. ProcessInv(r, lock)
    BY <1>1, <1>2, <1>4, <2>1, <2>2 DEF ProcessInv, Doing, Vouches, Trusts, Evaluating
  <2> QED BY <1>2, <1>4, <2>3, UpdateKeeps
<1> QED BY <1>1, <1>3, <1>4

\* A process dies.
LEMMA CrashKeeps == ASSUME Inv, NEW p \in Procs, Crash(p) PROVE Inv'
<1>1. edits' \in Nat /\ Same /\ Update(p, [Idle EXCEPT !.verdict = "crashed"])
  BY DEF Inv, Crash, workspace, Same
<1>2. ProcessInv([Idle EXCEPT !.verdict = "crashed"], lock)
  BY IdleInv
<1> QED BY <1>1, <1>2, UpdateKeeps

\* A process that sees the lock change.
LEMMA SeeingKeeps ==
  ASSUME NEW s, NEW l, NEW k, ProcessInv(s, l), LockFile(k)
  PROVE  ProcessInv(IF s.pc # "idle" THEN [s EXCEPT !.seen = s.seen \cup {k}] ELSE s, k)
<1> DEFINE r == [s EXCEPT !.seen = s.seen \cup {k}]
<1>1. CASE s.pc = "idle"
  BY <1>1 DEF ProcessInv
<1>2. CASE s.pc # "idle"
  <2>1. /\ DOMAIN r = Fields /\ r.registry = s.registry /\ r.seen = s.seen \cup {k} /\ r.verdict = s.verdict /\ r.pc = s.pc
        /\ r.request = s.request /\ r.composition = s.composition /\ r.locked = s.locked
        /\ r.document = s.document
    BY DEF ProcessInv, Fields
  <2>2. s.verdict = "none"
    BY <1>2 DEF ProcessInv
  <2> HIDE DEF r
  <2>3. ProcessInv(r, k)
    BY <1>2, <2>1, <2>2 DEF ProcessInv, Doing, Vouches, Trusts
  <2> QED BY <1>2, <2>3 DEF r
<1> QED BY <1>1, <1>2

\* What os.replace leaves is a lock.
LEMMA WrittenLock ==
  ASSUME NEW selected
  PROVE  LockFile([link |-> FALSE, writable |-> TRUE, entries |-> LockForPacks(selected)])
<1> DEFINE l == [link |-> FALSE, writable |-> TRUE, entries |-> LockForPacks(selected)]
<1>1. \A e \in LockForPacks(selected) : e = [id |-> e.id, version |-> e.version, tier |-> e.tier, hash |-> e.hash]
  <2>1. ASSUME NEW p \in selected
        PROVE  Entry(p) = [id |-> Entry(p).id, version |-> Entry(p).version, tier |-> Entry(p).tier, hash |-> Entry(p).hash]
    BY DEF Entry
  <2> QED BY <2>1 DEF LockForPacks
<1> QED BY <1>1 DEF LockFile

\* The temporary file replaces the lock, before the eyes of the other processes.
LEMMA ReplaceLockKeeps == ASSUME Inv, NEW p \in Procs, ReplaceLock(p) PROVE Inv'
<1> DEFINE s == procs[p]
           r == [s EXCEPT !.pc = "idle", !.verdict = "passed"]
           Replaced == /\ lock' = [link |-> FALSE, writable |-> TRUE, entries |-> LockForPacks(s.composition.selected)]
                       /\ procs' = [q \in Procs |-> IF q = p THEN r
                                     ELSE IF Running(q) THEN [procs[q] EXCEPT !.seen = @ \cup {lock'}] ELSE procs[q]]
<1>1. /\ s.pc = "replace" /\ edits' = edits /\ document' = document /\ scenario' = scenario
      /\ Replaced \/ (lock' = lock /\ End(p, "refused"))
  BY DEF ReplaceLock
<1>2. edits \in Nat /\ \A q \in Procs : ProcessInv(procs[q], lock)
  BY DEF Inv
<1>3. CASE lock' = lock /\ End(p, "refused")
  BY <1>1, <1>2, <1>3, EndKeeps DEF Same
<1>4. CASE Replaced
  <2>1. LockFile(lock')
    BY <1>4, WrittenLock
  <2>2. ProcessInv(r, lock')
    <3>1. ProcessInv(s, lock) /\ s.request.command = "lock"
      BY <1>1, <1>2 DEF ProcessInv, Doing
    <3>2. /\ DOMAIN r = Fields /\ r.registry = s.registry /\ r.seen = s.seen /\ r.verdict = "passed" /\ r.pc = "idle"
          /\ r.request = s.request
      BY <3>1 DEF ProcessInv, Fields
    <3> HIDE DEF r
    <3> QED BY <3>1, <3>2 DEF ProcessInv, Doing, Vouches, Trusts, Evaluating
  <2>3. ASSUME NEW q \in Procs, q # p PROVE ProcessInv(procs'[q], lock')
    <3>1. procs'[q] = IF procs[q].pc # "idle" THEN [procs[q] EXCEPT !.seen = procs[q].seen \cup {lock'}] ELSE procs[q]
      BY <1>4, <2>3 DEF Running
    <3>2. ProcessInv(procs[q], lock)
      BY <1>2
    <3> QED BY <2>1, <3>1, <3>2, SeeingKeeps
  <2>4. DOMAIN procs' = Procs /\ procs'[p] = r
    BY <1>4
  <2> HIDE DEF r, Replaced
  <2>5. \A q \in Procs : ProcessInv(procs'[q], lock')
    BY <2>2, <2>3, <2>4
  <2> QED BY <1>1, <1>2, <2>1, <2>4, <2>5 DEF Inv
<1> QED BY <1>1, <1>3, <1>4

\* Somebody edits the lock.
LEMMA EditLockKeeps == ASSUME Inv, EditLock PROVE Inv'
<1>1. PICK l \in {Absent} \cup (IF lock = Absent THEN {} ELSE {[lock EXCEPT !.writable = FALSE], [lock EXCEPT !.link = TRUE]})
                 \cup UNION {procs[p].seen : p \in Procs} :
        /\ lock' = l
        /\ procs' = [q \in Procs |-> IF Running(q) THEN [procs[q] EXCEPT !.seen = @ \cup {l}] ELSE procs[q]]
  BY DEF EditLock
<1>0. document' = document /\ scenario' = scenario
  BY DEF EditLock, Edited
<1>2. edits' \in Nat /\ LockFile(lock) /\ \A q \in Procs : ProcessInv(procs[q], lock)
  BY DEF Inv, EditLock, Edited
<1>3. LockFile(l)
  <2>1. CASE l = Absent
    BY <2>1 DEF LockFile
  <2>2. CASE lock # Absent /\ l \in {[lock EXCEPT !.writable = FALSE], [lock EXCEPT !.link = TRUE]}
    <3>1. lock = [link |-> lock.link, writable |-> lock.writable, entries |-> lock.entries]
      BY <1>2, <2>2 DEF LockFile
    <3>2. /\ l = [link |-> l.link, writable |-> l.writable, entries |-> l.entries]
          /\ l.entries = lock.entries
      BY <2>2, <3>1
    <3> QED BY <1>2, <2>2, <3>2 DEF LockFile
  <2>3. CASE \E p \in Procs : l \in procs[p].seen
    BY <1>2, <2>3 DEF ProcessInv
  <2> QED BY <1>1, <2>1, <2>2, <2>3
<1>4. ASSUME NEW q \in Procs PROVE ProcessInv(procs'[q], lock')
  <2>1. procs'[q] = IF procs[q].pc # "idle" THEN [procs[q] EXCEPT !.seen = procs[q].seen \cup {l}] ELSE procs[q]
    BY <1>1 DEF Running
  <2>2. ProcessInv(procs[q], lock) /\ lock' = l
    BY <1>1, <1>2
  <2> QED BY <1>3, <2>1, <2>2, SeeingKeeps
<1>5. DOMAIN procs' = Procs /\ lock' = l
  BY <1>1
<1> QED BY <1>0, <1>2, <1>3, <1>4, <1>5 DEF Inv

\* Every step keeps the invariant.
LEMMA NextKeeps == Inv /\ [Next]_vars => Inv'
<1> SUFFICES ASSUME Inv, [Next]_vars PROVE Inv'
  OBVIOUS
<1>1. ASSUME NEW p \in Procs, Step(p) PROVE Inv'
  BY <1>1, StartKeeps, ListDirectoryKeeps, ReadPackKeeps, PacksReadKeeps, LoadDocumentKeeps, FindLockKeeps,
     ComposeForCheckKeeps, EvaluateNowKeeps, LoadExistingKeeps, ResolveProfileKeeps, PrepareLockKeeps,
     WriteTemporaryKeeps, ReplaceLockKeeps, VerifyArtifactKeeps, CrashKeeps DEF Step
<1>2. CASE EditPack \/ EditDocument \/ SaveApproval \/ AlterApproval
  <2>1. Edited /\ lock' = lock /\ procs' = procs
    <3>1. CASE EditPack
      BY <3>1 DEF EditPack
    <3>2. CASE EditDocument
      BY <3>2 DEF EditDocument
    <3>3. CASE SaveApproval
      BY <3>3 DEF SaveApproval
    <3>4. CASE AlterApproval
      BY <3>4 DEF AlterApproval
    <3> QED BY <1>2, <3>1, <3>2, <3>3, <3>4
  <2>2. edits' \in Nat
    BY <2>1 DEF Inv, Edited
  <2>3. scenario' = scenario /\ document' \in {document} \cup scenario.documents
    <3>1. CASE EditPack
      BY <3>1 DEF EditPack, Edited
    <3>2. CASE EditDocument
      BY <3>2 DEF EditDocument, Edited
    <3>3. CASE SaveApproval
      BY <3>3 DEF SaveApproval, Edited
    <3>4. CASE AlterApproval
      BY <3>4 DEF AlterApproval, Edited
    <3> QED BY <1>2, <3>1, <3>2, <3>3, <3>4
  <2> QED BY <2>1, <2>2, <2>3 DEF Inv
<1>3. CASE EditLock
  BY <1>3, EditLockKeeps
<1>4. CASE UNCHANGED vars
  BY <1>4 DEF vars, Inv
<1> QED BY <1>1, <1>2, <1>3, <1>4 DEF Next

\* The invariant holds of every history.
THEOREM WorkspaceInvariant == Spec => []Inv
  BY InitInv, NextKeeps, PTL DEF Spec

(***************************************************************************)
(* The properties of the runs.                                             *)
(***************************************************************************)
\* A command that passes has evaluated the packs of one lock there was while it ran, or needed none.
THEOREM PassesUnderOneLock == Spec => []CheckedUnderLock
<1>1. Inv => CheckedUnderLock
  BY DEF Inv, ProcessInv, Vouches, Governed, CheckedUnderLock, PassedUnder, Evaluated
<1> QED BY <1>1, WorkspaceInvariant, PTL

\* Composition gives up nothing that a selected pack declares, and no pack stands in for the catalog's.
THEOREM CompositionIsStrictest == Spec => []ComposedIsStrictest
<1>1. Inv => ComposedIsStrictest
  BY DEF Inv, ProcessInv, Vouches, ComposedIsStrictest, Evaluated
<1> QED BY <1>1, WorkspaceInvariant, PTL

\* The findings of a command are, rule by rule, those that the meaning of the rule asks for.
THEOREM RulesArePerElement == Spec => []RulesPerElement
<1>1. Inv => RulesPerElement
  BY DEF Inv, ProcessInv, Vouches, Explained, RulesPerElement, Evaluated
<1> QED BY <1>1, WorkspaceInvariant, PTL

\* A rule that a command has found unmet, by refusals alone, has findings too in any document that
\* differs from the one evaluated in one value of another type.
THEOREM RulesAreNeverSilenced == Spec => []RulesNeverSilenced
<1>1. ASSUME Inv, NEW p \in Procs, Evaluated(p), NEW r \in procs[p].composition.rules,
             {f.code : f \in {g \in procs[p].findings : g.rule = r.id}} # {},
             {f.code : f \in {g \in procs[p].findings : g.rule = r.id}} \subseteq Refusals,
             \A w \in Elements(r.when) : w.operator \notin MemberOperators,
             \A q \in Elements(r.requirements) : Discerns(procs[p].document.tree, q),
             NEW damaged \in Damaged(procs[p].document.tree)
      PROVE  EvaluateRule(damaged, r) # {}
  <2> DEFINE tree == procs[p].document.tree
             found == {g \in procs[p].findings : g.rule = r.id}
  <2>1. Explained(procs[p])
    BY <1>1 DEF Inv, ProcessInv, Vouches, Evaluated
  <2>2. tree \in DocumentNodes /\ IsRule(r) /\ found = Meaning(tree, r)
    BY <1>1, <2>1 DEF Explained
  <2>3. found # {} /\ \A f \in found : f.code \in Refusals
    <3> HIDE DEF found
    <3>1. {f.code : f \in found} # {} /\ {f.code : f \in found} \subseteq Refusals
      BY <1>1 DEF found
    <3> QED BY <3>1
  <2>4. \A i \in DOMAIN r.when : r.when[i].operator \notin MemberOperators
    BY <1>1 DEF Elements
  <2>5. \A i \in DOMAIN r.requirements : Discerns(tree, r.requirements[i])
    BY <1>1 DEF Elements
  <2> HIDE DEF found
  <2> QED BY <1>1, <2>2, <2>3, <2>4, <2>5, RefusedStaysRefused
<1>2. Inv => RulesNeverSilenced
  BY <1>1 DEF RulesNeverSilenced, Refusals
<1> QED BY <1>2, WorkspaceInvariant, PTL

\* An approval that is trusted is what the packs it names compose to now.
THEOREM TrustIsCurrent == Spec => []TrustedMeansCurrent
<1>1. Inv => \A p \in Procs : procs[p].request.command = "verify" /\ procs[p].verdict = "passed" =>
                              Current(procs[p].verified, procs[p].registry)
  BY TrustedIsCurrent DEF Inv, ProcessInv, Trusts
<1>2. Inv => TrustedMeansCurrent
  BY <1>1 DEF TrustedMeansCurrent, Current
<1> QED BY <1>2, WorkspaceInvariant, PTL

\* The lock is replaced as a whole, by the packs of one composition of the command that replaces it.
THEOREM LocksAreWhole == Spec => LockReplacedWhole
<1> DEFINE Whole == lock' # lock /\ edits' = edits =>
       \E p \in Procs : /\ procs[p].request.command = "lock" /\ procs[p].pc = "replace"
                        /\ lock'.entries = LockForPacks(procs[p].composition.selected)
                        /\ procs[p].composition.selected \subseteq procs[p].registry.packs
<1>1. ASSUME Inv, [Next]_vars, lock' # lock, edits' = edits PROVE Whole
  <2>1. edits \in Nat
    BY <1>1 DEF Inv
  <2>2. ~ (EditPack \/ EditDocument \/ EditLock \/ SaveApproval \/ AlterApproval)
    <3>1. ~ Edited
      BY <1>1, <2>1 DEF Edited
    <3>2. ~ EditPack /\ ~ EditDocument /\ ~ EditLock
      BY <3>1 DEF EditPack, EditDocument, EditLock
    <3>3. ~ SaveApproval /\ ~ AlterApproval
      BY <3>1 DEF SaveApproval, AlterApproval
    <3> QED BY <3>2, <3>3
  <2>3. PICK p \in Procs : Step(p)
    BY <1>1, <2>2 DEF Next, vars
  <2>4. ReplaceLock(p)
    <3>1. Reads => lock' = lock
      BY DEF Reads, workspace
    <3>2. ~ Start(p) /\ ~ Crash(p)
      BY <1>1 DEF Start, Crash, workspace
    <3>3. ~ ListDirectory(p) /\ ~ PacksRead(p) /\ ~ LoadDocument(p) /\ ~ FindLock(p)
      BY <1>1, <3>1 DEF ListDirectory, PacksRead, LoadDocument, FindLock
    <3>4. ~ ReadPack(p) /\ ~ ComposeForCheck(p) /\ ~ EvaluateNow(p)
      BY <1>1, <3>1 DEF ReadPack, ComposeForCheck, EvaluateNow
    <3>5. ~ LoadExisting(p) /\ ~ ResolveProfile(p) /\ ~ VerifyArtifact(p)
      BY <1>1, <3>1 DEF LoadExisting, ResolveProfile, VerifyArtifact
    <3>6. ~ PrepareLock(p)
      BY <1>1, <3>1 DEF PrepareLock
    <3>7. ~ WriteTemporary(p)
      BY <1>1, <3>1 DEF WriteTemporary
    <3> QED BY <2>3, <3>2, <3>3, <3>4, <3>5, <3>6, <3>7 DEF Step
  <2>5. /\ procs[p].pc = "replace"
        /\ lock' = [link |-> FALSE, writable |-> TRUE, entries |-> LockForPacks(procs[p].composition.selected)]
    BY <1>1, <2>4 DEF ReplaceLock
  <2>6. procs[p].request.command = "lock" /\ procs[p].composition.selected \subseteq procs[p].registry.packs
    BY <1>1, <2>5 DEF Inv, ProcessInv, Doing
  <2>7. lock'.entries = LockForPacks(procs[p].composition.selected)
    BY <2>5
  <2> QED BY <2>5, <2>6, <2>7
<1>2. Inv /\ [Next]_vars => [Whole]_vars
  BY <1>1
<1> QED BY <1>2, WorkspaceInvariant, PTL DEF Spec, LockReplacedWhole
===============================================================================
