---------------------------- MODULE SplayTreeProofs ----------------------------
(***************************************************************************)
(* The splay tree stays a search tree while a splay takes it apart and     *)
(* puts it together again, and implements an ordered set.                  *)
(*                                                                         *)
(* A splay, an insertion and a removal are made of two steps, Cut (a child *)
(* of a root becomes a root) and Hang (a root becomes the child of a node  *)
(* at the edge of another tree): what these do to a forest of search trees *)
(* is proved once, and what the actions do follows.  The existence of the  *)
(* recursive functions and what they give is proved by the node that would *)
(* be the lowest counterexample.                                           *)
(***************************************************************************)
EXTENDS SplayTree, FiniteSetTheorems, WellFoundedInduction, TLAPS

-----------------------------------------------------------------------------
(* Forests of search trees *)

\* The nodes below a link: that of the node and those below its children, each on its side.
Divides(c, sub, n) ==
  /\ sub[n] = {n} \cup sub[c["L"][n]] \cup sub[c["R"][n]]
  /\ \A d \in Sides : \A x \in sub[c[d][n]] : x # n /\ Side(x, n) = d

\* The links c of the nodes E are those of search trees, with the nodes sub[n] below n.
Ordered(c, E, sub) ==
  /\ E \subseteq SplayKeys /\ IsFiniteSet(E)
  /\ sub \in [SplayLinks -> SUBSET SplayKeys] /\ sub[Nil] = {}
  /\ \A n \in E :
       sub[n] \subseteq E /\ Divides(c, sub, n) /\ \A d \in Sides : c[d][n] \in E \cup {Nil}
  /\ \A n \in SplayKeys \ E : sub[n] = {n} /\ \A d \in Sides : c[d][n] = Nil

\* T are the roots of these trees: each node is in exactly one of them.
Tops(E, sub, T) ==
  /\ T \subseteq E \cup {Nil}
  /\ \A x \in E : \E t \in T : x \in sub[t]
  /\ \A t, u \in T : t # u => sub[t] \cap sub[u] = {}

Forest(c, E, sub, T) == Ordered(c, E, sub) /\ Tops(E, sub, T)

-----------------------------------------------------------------------------
(* Sides *)

\* NULL is no node, and the header is neither.
LEMMA NilFacts ==
  /\ Nil \notin SplayKeys /\ Hdr \notin SplayKeys /\ Nil # Hdr
  /\ Nil \in SplayLinks /\ SplayKeys \subseteq SplayLinks
  BY SplayKeysAssumption DEF SplayLinks

\* There are two sides, and each key is on one of them.
LEMMA SideFacts ==
  /\ "L" \in Sides /\ "R" \in Sides /\ "L" # "R" /\ Other("L") = "R" /\ Other("R") = "L"
  /\ \A d \in Sides : Other(d) \in Sides /\ Other(d) # d /\ Other(Other(d)) = d
  /\ \A d, e \in Sides : e = d \/ e = Other(d)
  /\ \A x, n : Side(x, n) \in Sides
  BY DEF Sides, Other, Side

\* Seen from the other of two keys, the side is the other one; and what lies to a side of
\* a key that lies to that side of a third one lies to that side of it, too.
LEMMA SideOrder ==
  /\ \A x, y \in SplayKeys : x # y => Side(y, x) = Other(Side(x, y))
  /\ \A x, y, z \in SplayKeys :
       x # y /\ y # z /\ Side(x, y) = Side(y, z) => x # z /\ Side(x, z) = Side(x, y)
  BY SplayKeysAssumption DEF Side, Other

-----------------------------------------------------------------------------
(* Nodes of search trees *)

\* A node is below itself, with what is below its children.
LEMMA NodeFacts ==
  ASSUME NEW c, NEW E, NEW sub, Ordered(c, E, sub), NEW n \in E
  PROVE  /\ n \in SplayKeys /\ n \in sub[n] /\ sub[n] \subseteq E
         /\ sub[n] = {n} \cup sub[c["L"][n]] \cup sub[c["R"][n]]
  BY DEF Ordered, Divides

\* A child is a node or NULL, and what is below it is below the node and to its side.
LEMMA ChildFacts ==
  ASSUME NEW c, NEW E, NEW sub, Ordered(c, E, sub), NEW n \in E, NEW d \in Sides
  PROVE  /\ c[d][n] \in E \cup {Nil} /\ sub[c[d][n]] \subseteq sub[n]
         /\ n \notin sub[c[d][n]]
         /\ \A x \in sub[c[d][n]] : x # n /\ Side(x, n) = d
<1>1. Divides(c, sub, n) /\ c[d][n] \in E \cup {Nil}
  BY DEF Ordered
<1>2. d = "L" \/ d = "R"
  BY DEF Sides
<1>q. QED
  BY <1>1, <1>2 DEF Divides

\* Nothing is below NULL, and only the node itself below one that is not in the trees.
LEMMA SubFacts ==
  ASSUME NEW c, NEW E, NEW sub, Ordered(c, E, sub)
  PROVE  /\ E \subseteq SplayKeys /\ IsFiniteSet(E) /\ Nil \notin E
         /\ sub[Nil] = {} /\ \A n \in SplayKeys \ E : sub[n] = {n}
         /\ \A n \in SplayLinks : sub[n] \subseteq SplayKeys
         /\ \A n \in E \cup {Nil} : sub[n] \subseteq E
  BY NilFacts DEF Ordered, SplayLinks

\* What is below a node is the node, or to one of its sides below that child.
LEMMA BelowSides ==
  ASSUME NEW c, NEW E, NEW sub, Ordered(c, E, sub), NEW n \in E, NEW x \in sub[n], x # n
  PROVE  Side(x, n) \in Sides /\ x \in sub[c[Side(x, n)][n]]
<1>1. PICK d \in Sides : x \in sub[c[d][n]]
  BY NodeFacts, SideFacts
<1>2. Side(x, n) = d
  BY <1>1, ChildFacts
<1>q. QED
  BY <1>1, <1>2

\* A set of numbers that is not empty has a smallest one.
LEMMA SmallestExists ==
  ASSUME NEW D, D \subseteq Nat, D # {}
  PROVE  \E d \in D : \A e \in D : d <= e
<1> DEFINE Less == {p \in Nat \X Nat : p[1] < p[2]}
<1>1. IsWellFoundedOn(Less, Nat)
  BY NatLessThanWellFounded DEF OpToRel
<1>2. PICK d \in D : \A e \in D : <<e, d>> \notin Less
  <2> HIDE DEF Less
  <2>q. QED
    BY <1>1, WFMin
<1>3. ASSUME NEW e \in D
      PROVE  d <= e
  <2>1. d \in Nat /\ e \in Nat /\ (e < d => <<e, d>> \in Less)
    OBVIOUS
  <2>q. QED
    BY <1>2, <2>1
<1>q. QED
  BY <1>3

\* There is less below a child than below its node.
LEMMA Sizes ==
  ASSUME NEW c, NEW E, NEW sub, Ordered(c, E, sub), NEW n \in E
  PROVE  /\ Cardinality(sub[n]) \in Nat
         /\ \A d \in Sides : c[d][n] \in E => Cardinality(sub[c[d][n]]) < Cardinality(sub[n])
<1>1. ASSUME NEW m \in E
      PROVE  IsFiniteSet(sub[m]) /\ Cardinality(sub[m]) \in Nat
  <2>1. sub[m] \subseteq E /\ IsFiniteSet(E)
    BY NodeFacts, SubFacts
  <2>q. QED
    BY <2>1, FS_Subset, FS_CardinalityType
<1>2. ASSUME NEW d \in Sides, c[d][n] \in E
      PROVE  Cardinality(sub[c[d][n]]) < Cardinality(sub[n])
  <2>1. sub[c[d][n]] \subseteq sub[n] /\ sub[c[d][n]] # sub[n]
    BY ChildFacts, NodeFacts
  <2>2. Cardinality(sub[c[d][n]]) <= Cardinality(sub[n]) /\ Cardinality(sub[c[d][n]]) # Cardinality(sub[n])
    BY <1>1, <2>1, FS_Subset
  <2>3. Cardinality(sub[c[d][n]]) \in Nat /\ Cardinality(sub[n]) \in Nat
    BY <1>1, <1>2
  <2>q. QED
    BY <2>2, <2>3
<1>q. QED
  BY <1>1, <1>2

\* A set of nodes that is not empty holds one with no child in the set.
LEMMA LowestNode ==
  ASSUME NEW c, NEW E, NEW sub, Ordered(c, E, sub), NEW B \in SUBSET E, B # {}
  PROVE  \E n \in B : \A d \in Sides : c[d][n] \notin B
<1> DEFINE size(n) == Cardinality(sub[n])
           D == {size(n) : n \in B}
<1>1. PICK k \in D : \A e \in D : k <= e
  <2>1. D \subseteq Nat /\ D # {}
    BY Sizes
  <2> HIDE DEF D
  <2>q. QED
    BY <2>1, SmallestExists
<1>2. PICK n \in B : k = size(n)
  OBVIOUS
<1>3. ASSUME NEW d \in Sides, c[d][n] \in B
      PROVE  FALSE
  <2>1. size(c[d][n]) < size(n) /\ size(c[d][n]) \in Nat /\ size(n) \in Nat
    BY <1>3, Sizes
  <2>2. size(n) <= size(c[d][n])
    BY <1>1, <1>2, <1>3
  <2> HIDE DEF size
  <2>q. QED
    BY <2>1, <2>2
<1>q. QED
  BY <1>3

\* What is below a node below another is below that one, too.
LEMMA Nested ==
  ASSUME NEW c, NEW E, NEW sub, Ordered(c, E, sub), NEW n \in E, NEW m \in sub[n]
  PROVE  m \in E /\ sub[m] \subseteq sub[n]
<1> DEFINE B == {k \in E : \E x \in sub[k] : ~(sub[x] \subseteq sub[k])}
<1>1. m \in E
  BY NodeFacts
<1>2. SUFFICES ASSUME B # {}
               PROVE  FALSE
  BY <1>1
<1>3. PICK k \in B : \A d \in Sides : c[d][k] \notin B
  BY <1>2, LowestNode
<1>4. PICK x \in sub[k] : ~(sub[x] \subseteq sub[k])
  OBVIOUS
<1>5. PICK d \in Sides : x \in sub[c[d][k]]
  BY <1>4, BelowSides
<1>6. c[d][k] \in E /\ sub[c[d][k]] \subseteq sub[k]
  BY <1>5, ChildFacts, SubFacts
<1>q. QED
  BY <1>3, <1>4, <1>5, <1>6

\* The recursion that collects the nodes below each link gives sub.
LEMMA BelowIs ==
  ASSUME NEW c, NEW E, NEW sub, Ordered(c, E, sub)
  PROVE  NodesBelow(c) = sub
<1> DEFINE Is(f) ==
             f = [n \in SplayLinks |-> IF n = Nil THEN {} ELSE f[c["L"][n]] \cup {n} \cup f[c["R"][n]]]
           g == CHOOSE f : Is(f)
<1>1. Is(sub)
  <2>1. sub = [n \in SplayLinks |-> sub[n]]
    BY DEF Ordered
  <2>2. ASSUME NEW n \in SplayLinks
        PROVE  sub[n] = IF n = Nil THEN {} ELSE sub[c["L"][n]] \cup {n} \cup sub[c["R"][n]]
    <3>1. CASE n = Nil
      BY <3>1, SubFacts
    <3>2. CASE n \in E
      <4>1. sub[n] = {n} \cup sub[c["L"][n]] \cup sub[c["R"][n]]
        BY <3>2, NodeFacts
      <4>2. n # Nil
        BY <3>2, SubFacts
      <4>q. QED
        BY <4>1, <4>2
    <3>3. CASE n \in SplayKeys \ E
      <4>1. sub[n] = {n} /\ c["L"][n] = Nil /\ c["R"][n] = Nil /\ sub[Nil] = {}
        BY <3>3, SideFacts DEF Ordered
      <4>q. QED
        BY <3>3, <4>1, NilFacts
    <3>q. QED
      BY <3>1, <3>2, <3>3 DEF SplayLinks
  <2>q. QED
    BY <2>1, <2>2
<1>2. Is(g)
  <2> HIDE DEF Is
  <2>q. QED
    BY <1>1
<1>3. NodesBelow(c) = g
  BY DEF NodesBelow
<1> HIDE DEF g
<1>4. /\ g = [n \in SplayLinks |-> g[n]] /\ g[Nil] = {}
      /\ \A n \in SplayKeys : g[n] = g[c["L"][n]] \cup {n} \cup g[c["R"][n]]
  BY <1>2, NilFacts
<1>5. ASSUME NEW n \in SplayKeys \ E
      PROVE  g[n] = sub[n]
  <2>1. sub[n] = {n} /\ c["L"][n] = Nil /\ c["R"][n] = Nil
    BY SideFacts DEF Ordered
  <2>q. QED
    BY <1>4, <2>1
<1> DEFINE B == {n \in E : g[n] # sub[n]}
<1>6. ASSUME B # {}
      PROVE  FALSE
  <2>1. PICK n \in B : \A d \in Sides : c[d][n] \notin B
    BY <1>6, LowestNode
  <2>2. ASSUME NEW d \in Sides
        PROVE  g[c[d][n]] = sub[c[d][n]]
    <3>1. c[d][n] \in E \cup {Nil} /\ c[d][n] \notin B
      BY <2>1, ChildFacts
    <3>2. g[Nil] = sub[Nil]
      BY <1>4, SubFacts
    <3>q. QED
      BY <3>1, <3>2
  <2>3. g[n] = g[c["L"][n]] \cup {n} \cup g[c["R"][n]]
    BY <1>4, SubFacts
  <2>4. sub[n] = {n} \cup sub[c["L"][n]] \cup sub[c["R"][n]]
    BY NodeFacts
  <2>q. QED
    BY <2>2, <2>3, <2>4, SideFacts
<1>7. \A n \in SplayLinks : g[n] = sub[n]
  BY <1>4, <1>5, <1>6, SubFacts DEF SplayLinks
<1>8. sub = [n \in SplayLinks |-> sub[n]]
  BY DEF Ordered
<1>q. QED
  BY <1>3, <1>4, <1>7, <1>8

-----------------------------------------------------------------------------
(* The steps that trees are changed by *)

\* The links c2 are c, but for one.
Relinked(c, c2, d, n, x) ==
  \A e \in Sides : \A m \in SplayKeys : c2[e][m] = IF e = d /\ m = n THEN x ELSE c[e][m]

SetLink(c, d, n, x) ==
  [e \in Sides |-> [m \in SplayKeys |-> IF e = d /\ m = n THEN x ELSE c[e][m]]]

\* What is below the nodes once x is cut off from n, and once it is hung below n.
CutOff(sub, n, x) == [sub EXCEPT ![n] = sub[n] \ sub[x]]
Hung(sub, n, x) == [m \in SplayLinks |-> IF n \in sub[m] THEN sub[m] \cup sub[x] ELSE sub[m]]

\* SetLink sets a link.
LEMMA SetLinkIs ==
  ASSUME NEW c, NEW d, NEW n, NEW x
  PROVE  Relinked(c, SetLink(c, d, n, x), d, n, x)
  BY DEF Relinked, SetLink

\* What makes trees out of links is in the links of nodes only.
LEMMA SameLinks ==
  ASSUME NEW c, NEW E, NEW sub, Ordered(c, E, sub), NEW c2,
         \A d \in Sides : \A n \in SplayKeys : c2[d][n] = c[d][n]
  PROVE  Ordered(c2, E, sub)
<1>1. \A n \in E : Divides(c, sub, n) => Divides(c2, sub, n)
  BY SideFacts, SubFacts DEF Divides
<1>q. QED
  BY <1>1, SubFacts DEF Ordered

\* Whether NULL counts as a root makes no difference.
LEMMA SameTops ==
  ASSUME NEW E, NEW sub, NEW T, Tops(E, sub, T), sub[Nil] = {},
         NEW U, U \cup {Nil} = T \cup {Nil}
  PROVE  Tops(E, sub, U)
<1>1. U \subseteq E \cup {Nil}
  BY DEF Tops
<1>2. ASSUME NEW x \in E
      PROVE  \E t \in U : x \in sub[t]
  <2>1. PICK t \in T : x \in sub[t]
    BY DEF Tops
  <2>2. t \in U
    BY <2>1
  <2>q. QED
    BY <2>1, <2>2
<1>3. ASSUME NEW t \in U, NEW u \in U, t # u
      PROVE  sub[t] \cap sub[u] = {}
  <2>1. t \in T /\ u \in T => sub[t] \cap sub[u] = {}
    BY <1>3 DEF Tops
  <2>2. t \in T \/ t = Nil
    OBVIOUS
  <2>3. u \in T \/ u = Nil
    OBVIOUS
  <2>q. QED
    BY <2>1, <2>2, <2>3
<1>q. QED
  BY <1>1, <1>2, <1>3 DEF Tops

\* A node below a root is below no other root, nor is any node above it.
LEMMA OneTop ==
  ASSUME NEW c, NEW E, NEW sub, NEW T, Forest(c, E, sub, T), NEW t \in T,
         NEW n \in E, NEW m \in sub[n], m \in sub[t]
  PROVE  n \in sub[t]
<1>1. PICK u \in T : n \in sub[u]
  BY DEF Forest, Tops
<1>2. u \in E
  BY <1>1, SubFacts DEF Forest, Tops
<1>3. m \in sub[u]
  BY <1>1, <1>2, Nested DEF Forest
<1>4. u = t
  BY <1>3 DEF Forest, Tops
<1>q. QED
  BY <1>1, <1>4

\* A root is the child of no node.
LEMMA TopIsNoChild ==
  ASSUME NEW c, NEW E, NEW sub, NEW T, Forest(c, E, sub, T), NEW t \in T, t # Nil,
         NEW n \in E, NEW d \in Sides
  PROVE  c[d][n] # t
<1>1. SUFFICES ASSUME c[d][n] = t
               PROVE  FALSE
  OBVIOUS
<1>2. t \in E /\ Ordered(c, E, sub)
  BY DEF Forest, Tops
<1>3. t \in sub[t] /\ t \in sub[n] /\ n \notin sub[t]
  BY <1>1, <1>2, NodeFacts, ChildFacts
<1>q. QED
  BY <1>3, OneTop

\* A child of a root that is cut off becomes a root.
LEMMA Cut ==
  ASSUME NEW c, NEW E, NEW sub, NEW T, Forest(c, E, sub, T), NEW n \in T, n # Nil,
         NEW d \in Sides, NEW x, x = c[d][n], NEW c2, Relinked(c, c2, d, n, Nil)
  PROVE  Forest(c2, E, CutOff(sub, n, x), T \cup {x})
<1> DEFINE s2 == CutOff(sub, n, x)
<1>1. n \in E /\ Ordered(c, E, sub) /\ Tops(E, sub, T) /\ n \in SplayKeys /\ n \in SplayLinks
  BY SubFacts, NilFacts DEF Forest, Tops
<1>2. sub \in [SplayLinks -> SUBSET SplayKeys]
  BY <1>1 DEF Ordered
<1>3. s2[n] = sub[n] \ sub[x] /\ \A m \in SplayLinks : m # n => s2[m] = sub[m]
  BY <1>1, <1>2 DEF CutOff
<1>4. s2 \in [SplayLinks -> SUBSET SplayKeys]
  BY <1>1, <1>2 DEF CutOff
<1> HIDE DEF s2
<1>5. x \in E \cup {Nil} /\ x \in SplayLinks /\ x # n /\ sub[x] \subseteq sub[n] /\ n \notin sub[x]
  <2>1. x \in E \cup {Nil} /\ sub[x] \subseteq sub[n] /\ n \notin sub[x]
    BY <1>1, ChildFacts
  <2>2. n \in sub[n]
    BY <1>1, NodeFacts
  <2>q. QED
    BY <1>1, <2>1, <2>2, SubFacts, NilFacts
<1>6. ASSUME NEW m \in E
      PROVE  s2[m] \subseteq E /\ Divides(c2, s2, m) /\ \A e \in Sides : c2[e][m] \in E \cup {Nil}
  <2>1. m \in SplayKeys /\ m \in SplayLinks /\ sub[m] \subseteq E
    BY <1>1, SubFacts, NodeFacts, NilFacts
  <2>2. ASSUME NEW e \in Sides
        PROVE  /\ c[e][m] \in E \cup {Nil} /\ c[e][m] # n /\ s2[c[e][m]] = sub[c[e][m]]
               /\ \A y \in sub[c[e][m]] : y # m /\ Side(y, m) = e
    <3>1. c[e][m] \in E \cup {Nil} /\ \A y \in sub[c[e][m]] : y # m /\ Side(y, m) = e
      BY <1>1, ChildFacts
    <3>2. c[e][m] # n
      BY TopIsNoChild
    <3>3. c[e][m] \in SplayLinks
      BY <1>1, <3>1, SubFacts DEF SplayLinks
    <3>q. QED
      BY <1>3, <3>1, <3>2, <3>3
  <2>3. \A e \in Sides : c2[e][m] = IF e = d /\ m = n THEN Nil ELSE c[e][m]
    BY <2>1 DEF Relinked
  <2>4. s2[Nil] = {}
    BY <1>1, <1>3, NilFacts, SubFacts
  <2>5. \A e \in Sides : \A y \in s2[c2[e][m]] : y # m /\ Side(y, m) = e
    BY <2>2, <2>3, <2>4
  <2>6. s2[m] = {m} \cup s2[c2["L"][m]] \cup s2[c2["R"][m]]
    <3>1. sub[m] = {m} \cup sub[c["L"][m]] \cup sub[c["R"][m]]
      BY <1>1, NodeFacts
    <3>2. CASE m # n
      <4>1. s2[m] = sub[m] /\ c2["L"][m] = c["L"][m] /\ c2["R"][m] = c["R"][m]
        BY <1>3, <2>1, <2>3, <3>2, SideFacts
      <4>q. QED
        BY <2>2, <3>1, <4>1, SideFacts
    <3>3. CASE m = n
      <4> DEFINE o == Other(d)
      <4>1. o \in Sides /\ o # d /\ sub[m] = {m} \cup sub[x] \cup sub[c[o][m]]
        BY <3>1, <3>3 DEF Sides, Other
      <4>2. sub[x] \cap sub[c[o][m]] = {}
        BY <2>2, <3>3, <4>1
      <4>3. c2[d][m] = Nil /\ c2[o][m] = c[o][m]
        BY <2>3, <3>3, <4>1
      <4>4. s2[c2[d][m]] = {} /\ s2[c2[o][m]] = sub[c[o][m]]
        BY <2>2, <2>4, <4>1, <4>3
      <4>5. s2[m] = {m} \cup s2[c2[o][m]] \cup s2[c2[d][m]]
        BY <1>3, <1>5, <3>3, <4>1, <4>2, <4>4
      <4>q. QED
        BY <4>5 DEF Sides, Other
    <3>q. QED
      BY <3>2, <3>3
  <2>7. s2[m] \subseteq E
    BY <1>3, <2>1
  <2>8. \A e \in Sides : c2[e][m] \in E \cup {Nil}
    BY <2>2, <2>3
  <2>q. QED
    BY <2>5, <2>6, <2>7, <2>8 DEF Divides
<1>7. ASSUME NEW m \in SplayKeys \ E
      PROVE  s2[m] = {m} /\ \A e \in Sides : c2[e][m] = Nil
  <2>1. sub[m] = {m} /\ (\A e \in Sides : c[e][m] = Nil) /\ m # n /\ m \in SplayLinks
    BY <1>1, NilFacts DEF Ordered
  <2>q. QED
    BY <1>3, <2>1 DEF Relinked
<1>8. Ordered(c2, E, s2)
  <2>1. s2[Nil] = {} /\ E \subseteq SplayKeys /\ IsFiniteSet(E)
    BY <1>1, <1>3, NilFacts, SubFacts
  <2>q. QED
    BY <1>4, <1>6, <1>7, <2>1 DEF Ordered
<1>9. Tops(E, s2, T \cup {x})
  <2>1. T \subseteq SplayLinks
    BY <1>1, SubFacts DEF Tops, SplayLinks
  <2>2. \A t \in T : t # n => s2[t] = sub[t] /\ sub[t] \cap sub[n] = {}
    BY <1>1, <1>3, <2>1 DEF Tops
  <2>3. s2[x] = sub[x]
    BY <1>3, <1>5
  <2>4. ASSUME NEW y \in E
        PROVE  \E t \in T \cup {x} : y \in s2[t]
    <3>1. PICK t \in T : y \in sub[t]
      BY <1>1 DEF Tops
    <3>2. CASE t # n
      BY <2>2, <3>1, <3>2
    <3>3. CASE t = n
      BY <1>3, <2>3, <3>1, <3>3
    <3>q. QED
      BY <3>2, <3>3
  <2>5. ASSUME NEW t \in T, NEW u \in T, t # u
        PROVE  s2[t] \cap s2[u] = {}
    <3>1. sub[t] \cap sub[u] = {}
      BY <1>1, <2>5 DEF Tops
    <3>2. s2[t] \subseteq sub[t] /\ s2[u] \subseteq sub[u]
      BY <1>3, <2>2
    <3>q. QED
      BY <3>1, <3>2
  <2>6. ASSUME NEW t \in T, t # x
        PROVE  s2[t] \cap s2[x] = {}
    BY <1>3, <1>5, <2>2, <2>3
  <2>7. T \cup {x} \subseteq E \cup {Nil}
    BY <1>1, <1>5 DEF Tops
  <2>q. QED
    BY <2>4, <2>5, <2>6, <2>7 DEF Tops
<1>q. QED
  BY <1>8, <1>9 DEF Forest, s2

\* A root x becomes the child of a node n at the edge of another tree, on the side where
\* the nodes below x lie from all nodes of that tree.
LEMMA Hang ==
  ASSUME NEW c, NEW E, NEW sub, NEW T, Forest(c, E, sub, T), NEW p \in T, NEW n \in sub[p],
         NEW d \in Sides, c[d][n] = Nil, NEW x \in T, x # p,
         \A y \in sub[p] : y # n => Side(n, y) = d,
         \A y \in sub[p] : \A z \in sub[x] : z # y /\ Side(z, y) = d,
         NEW c2, Relinked(c, c2, d, n, x)
  PROVE  Forest(c2, E, Hung(sub, n, x), (T \ {x}) \cup {Nil})
<1> DEFINE s2 == Hung(sub, n, x)
<1>1. Ordered(c, E, sub) /\ Tops(E, sub, T)
  BY DEF Forest
<1>2. p \in E /\ n \in E /\ x \in E \cup {Nil} /\ n \in SplayKeys /\ n \in sub[n]
  <2>1. p \in E \cup {Nil} /\ x \in E \cup {Nil}
    BY <1>1 DEF Tops
  <2>2. p \in E
    BY <1>1, <2>1, SubFacts
  <2>q. QED
    BY <1>1, <2>1, <2>2, NodeFacts
<1>3. sub \in [SplayLinks -> SUBSET SplayKeys] /\ x \in SplayLinks
  BY <1>1, <1>2, SubFacts, NilFacts DEF Ordered
<1>4. s2 \in [SplayLinks -> SUBSET SplayKeys]
  BY <1>3 DEF Hung
<1>5. \A m \in SplayLinks : s2[m] = IF n \in sub[m] THEN sub[m] \cup sub[x] ELSE sub[m]
  BY DEF Hung
<1> HIDE DEF s2
<1>6. sub[x] \subseteq E /\ n \notin sub[x]
  BY <1>1, <1>2, SubFacts DEF Tops
<1>7. s2[Nil] = {} /\ s2[x] = sub[x] /\ s2[n] = sub[n] \cup sub[x]
  <2>1. Nil \in SplayLinks /\ n \in SplayLinks /\ sub[Nil] = {}
    BY <1>1, <1>2, SubFacts, NilFacts
  <2>q. QED
    BY <1>2, <1>3, <1>5, <1>6, <2>1
<1>8. ASSUME NEW m \in E
      PROVE  s2[m] \subseteq E /\ Divides(c2, s2, m) /\ \A e \in Sides : c2[e][m] \in E \cup {Nil}
  <2>1. m \in SplayKeys /\ m \in SplayLinks /\ sub[m] \subseteq E
    BY <1>1, NodeFacts, NilFacts
  <2>2. ASSUME NEW e \in Sides
        PROVE  /\ c[e][m] \in E \cup {Nil} /\ c[e][m] \in SplayLinks
               /\ \A y \in sub[c[e][m]] : y # m /\ Side(y, m) = e
    BY <1>1, ChildFacts, SubFacts DEF SplayLinks
  <2>3. \A e \in Sides : c2[e][m] = IF e = d /\ m = n THEN x ELSE c[e][m]
    BY <2>1 DEF Relinked
  <2>4. s2[m] \subseteq E
    BY <1>5, <1>6, <2>1
  <2>5. \A e \in Sides : c2[e][m] \in E \cup {Nil}
    BY <1>2, <2>2, <2>3
  <2>6. sub[m] = {m} \cup sub[c["L"][m]] \cup sub[c["R"][m]]
    BY <1>1, NodeFacts
  <2>7. CASE m # n
    <3>1. ASSUME NEW e \in Sides, NEW y \in s2[c[e][m]]
          PROVE  y # m /\ Side(y, m) = e
      <4>1. CASE y \in sub[c[e][m]]
        BY <2>2, <4>1
      <4>2. CASE y \notin sub[c[e][m]]
        <5>1. n \in sub[c[e][m]] /\ y \in sub[x]
          BY <1>5, <2>2, <3>1, <4>2
        <5>2. n \in sub[m] /\ Side(n, m) = e
          BY <1>1, <2>2, <5>1, ChildFacts
        <5>3. m \in sub[p]
          BY <5>2, OneTop
        <5>4. e = d
          BY <2>7, <5>2, <5>3
        <5>q. QED
          BY <5>1, <5>3, <5>4
      <4>q. QED
        BY <4>1, <4>2
    <3>2. c2["L"][m] = c["L"][m] /\ c2["R"][m] = c["R"][m]
      BY <2>3, <2>7, SideFacts
    <3>3. s2[m] = {m} \cup s2[c["L"][m]] \cup s2[c["R"][m]]
      <4>1. /\ s2[c["L"][m]] = IF n \in sub[c["L"][m]] THEN sub[c["L"][m]] \cup sub[x] ELSE sub[c["L"][m]]
            /\ s2[c["R"][m]] = IF n \in sub[c["R"][m]] THEN sub[c["R"][m]] \cup sub[x] ELSE sub[c["R"][m]]
        BY <1>5, <2>2, SideFacts
      <4>2. s2[m] = IF n \in sub[m] THEN sub[m] \cup sub[x] ELSE sub[m]
        BY <1>5, <2>1
      <4>q. QED
        BY <2>6, <2>7, <4>1, <4>2
    <3>4. \A e \in Sides : c2[e][m] = c[e][m]
      BY <2>3, <2>7
    <3>q. QED
      BY <2>4, <2>5, <3>1, <3>2, <3>3, <3>4 DEF Divides
  <2>8. CASE m = n
    <3> DEFINE o == Other(d)
    <3>1. /\ o \in Sides /\ o # d /\ \A e \in Sides : e = d \/ e = o
          /\ sub[m] = {m} \cup sub[c[d][m]] \cup sub[c[o][m]]
      BY <2>6 DEF Sides, Other
    <3>2. c2[d][m] = x /\ c2[o][m] = c[o][m]
      BY <2>3, <2>8, <3>1
    <3>3. n \notin sub[c[o][m]]
      BY <2>2, <2>8, <3>1
    <3>4. s2[c2[o][m]] = sub[c[o][m]] /\ s2[c2[d][m]] = sub[x]
      <4>1. c[o][m] \in SplayLinks
        BY <2>2, <3>1
      <4>2. s2[c[o][m]] = sub[c[o][m]]
        BY <1>5, <3>3, <4>1
      <4>q. QED
        BY <1>7, <3>2, <4>2
    <3>5. sub[c[d][m]] = {}
      BY <1>1, <2>8, SubFacts
    <3>6. s2[m] = {m} \cup s2[c2[d][m]] \cup s2[c2[o][m]]
      BY <1>7, <2>8, <3>1, <3>4, <3>5
    <3>7. s2[m] = {m} \cup s2[c2["L"][m]] \cup s2[c2["R"][m]]
      BY <3>6 DEF Sides, Other
    <3>8. ASSUME NEW e \in Sides, NEW y \in s2[c2[e][m]]
          PROVE  y # m /\ Side(y, m) = e
      BY <2>2, <2>8, <3>1, <3>4, <3>8
    <3>q. QED
      BY <2>4, <2>5, <3>7, <3>8 DEF Divides
  <2>q. QED
    BY <2>7, <2>8
<1>9. ASSUME NEW m \in SplayKeys \ E
      PROVE  s2[m] = {m} /\ \A e \in Sides : c2[e][m] = Nil
  <2>1. sub[m] = {m} /\ (\A e \in Sides : c[e][m] = Nil) /\ m # n /\ m \in SplayLinks
    BY <1>1, <1>2, NilFacts DEF Ordered
  <2>q. QED
    BY <1>5, <2>1 DEF Relinked
<1>10. Ordered(c2, E, s2)
  <2>1. E \subseteq SplayKeys /\ IsFiniteSet(E)
    BY <1>1, SubFacts
  <2>q. QED
    BY <1>4, <1>7, <1>8, <1>9, <2>1 DEF Ordered
<1>11. Tops(E, s2, (T \ {x}) \cup {Nil})
  <2>1. T \subseteq SplayLinks
    BY <1>1, SubFacts DEF Tops, SplayLinks
  <2>2. \A t \in T : t # p => s2[t] = sub[t]
    BY <1>1, <1>5, <2>1 DEF Tops
  <2>3. s2[p] = sub[p] \cup sub[x]
    BY <1>5, <2>1
  <2>4. ASSUME NEW y \in E
        PROVE  \E t \in (T \ {x}) \cup {Nil} : y \in s2[t]
    <3>1. PICK t \in T : y \in sub[t]
      BY <1>1 DEF Tops
    <3>2. CASE t # p /\ t # x
      BY <2>2, <3>1, <3>2
    <3>3. CASE t = p \/ t = x
      BY <2>3, <3>1, <3>3
    <3>q. QED
      BY <3>2, <3>3
  <2>5. ASSUME NEW t \in T \ {x}, NEW u \in T \ {x}, t # u
        PROVE  s2[t] \cap s2[u] = {}
    <3>1. sub[t] \cap sub[u] = {} /\ sub[t] \cap sub[x] = {} /\ sub[u] \cap sub[x] = {}
      BY <1>1, <2>5 DEF Tops
    <3>2. s2[t] \subseteq sub[t] \cup sub[x] /\ s2[u] \subseteq sub[u] \cup sub[x]
      BY <2>2, <2>3
    <3>3. s2[t] = sub[t] \/ s2[u] = sub[u]
      BY <2>2, <2>5
    <3>q. QED
      BY <3>1, <3>2, <3>3
  <2>6. (T \ {x}) \cup {Nil} \subseteq E \cup {Nil}
    BY <1>1 DEF Tops
  <2>q. QED
    BY <1>7, <2>4, <2>5, <2>6 DEF Tops
<1>q. QED
  BY <1>10, <1>11 DEF Forest, s2

\* A key that is in no tree is a tree of its own.
LEMMA AddNode ==
  ASSUME NEW c, NEW E, NEW sub, NEW T, Forest(c, E, sub, T), NEW e \in SplayKeys \ E
  PROVE  Forest(c, E \cup {e}, sub, T \cup {e})
<1> DEFINE F == E \cup {e}
<1>1. Ordered(c, E, sub) /\ Tops(E, sub, T)
  BY DEF Forest
<1>2. F \subseteq SplayKeys /\ IsFiniteSet(F)
  BY <1>1, SubFacts, FS_AddElement
<1>3. sub[e] = {e} /\ (\A d \in Sides : c[d][e] = Nil) /\ sub[Nil] = {}
  BY <1>1 DEF Ordered
<1>4. Divides(c, sub, e)
  BY <1>3, SideFacts DEF Divides
<1>5. Ordered(c, F, sub)
  BY <1>1, <1>2, <1>3, <1>4 DEF Ordered
<1>6. \A t \in T : e \notin sub[t]
  BY <1>1, SubFacts DEF Tops
<1>7. Tops(F, sub, T \cup {e})
  <2>1. \A y \in F : \E t \in T \cup {e} : y \in sub[t]
    BY <1>1, <1>3 DEF Tops
  <2>2. \A t, u \in T \cup {e} : t # u => sub[t] \cap sub[u] = {}
    BY <1>1, <1>3, <1>6 DEF Tops
  <2>3. T \cup {e} \subseteq F \cup {Nil}
    BY <1>1 DEF Tops
  <2>q. QED
    BY <2>1, <2>2, <2>3 DEF Tops
<1>q. QED
  BY <1>5, <1>7 DEF Forest

\* A root without children can be taken away.
LEMMA DropNode ==
  ASSUME NEW c, NEW E, NEW sub, NEW T, Forest(c, E, sub, T), NEW e \in T, e # Nil,
         sub[e] = {e}, \A d \in Sides : c[d][e] = Nil
  PROVE  Forest(c, E \ {e}, sub, T \ {e})
<1> DEFINE F == E \ {e}
<1>1. Ordered(c, E, sub) /\ Tops(E, sub, T) /\ e \in E
  BY DEF Forest, Tops
<1>2. F \subseteq SplayKeys /\ IsFiniteSet(F)
  BY <1>1, SubFacts, FS_RemoveElement
<1>3. ASSUME NEW n \in F
      PROVE  sub[n] \subseteq F /\ Divides(c, sub, n) /\ \A d \in Sides : c[d][n] \in F \cup {Nil}
  <2>1. e \notin sub[n]
    BY <1>1, OneTop
  <2>2. sub[n] \subseteq E /\ Divides(c, sub, n)
    BY <1>1 DEF Ordered
  <2>3. \A d \in Sides : c[d][n] \in E \cup {Nil} /\ c[d][n] # e
    BY <1>1, ChildFacts, TopIsNoChild
  <2>q. QED
    BY <2>1, <2>2, <2>3
<1>4. Ordered(c, F, sub)
  BY <1>1, <1>2, <1>3 DEF Ordered
<1>5. Tops(F, sub, T \ {e})
  <2>1. \A y \in F : \E t \in T \ {e} : y \in sub[t]
    BY <1>1 DEF Tops
  <2>q. QED
    BY <1>1, <2>1 DEF Tops
<1>q. QED
  BY <1>4, <1>5 DEF Forest

-----------------------------------------------------------------------------
(* Rotations, and the end of a splay *)

\* Seen from the other of two keys, the side is the other one.
LEMMA SideFlip ==
  ASSUME NEW x \in SplayKeys, NEW y \in SplayKeys, x # y, NEW d \in Sides, Side(x, y) = d
  PROVE  Side(y, x) = Other(d)
  BY SideOrder

\* Further on a side than what is further on that side.
LEMMA SideFurther ==
  ASSUME NEW x \in SplayKeys, NEW y \in SplayKeys, NEW z \in SplayKeys, NEW d \in Sides,
         x # y, Side(x, y) = d, y # z, Side(y, z) = d
  PROVE  x # z /\ Side(x, z) = d
  BY SideOrder

\* What is below a node but not below one of its children is on the other side of it.
LEMMA OtherSide ==
  ASSUME NEW c, NEW E, NEW sub, Ordered(c, E, sub), NEW n \in E, NEW d \in Sides,
         NEW m \in sub[n], m # n, m \notin sub[c[d][n]]
  PROVE  m \in SplayKeys /\ Side(m, n) = Other(d) /\ Side(n, m) = d
<1>1. m \in SplayKeys /\ n \in SplayKeys
  BY NodeFacts
<1>2. Side(m, n) # d /\ Side(m, n) \in Sides
  BY BelowSides
<1>3. Side(m, n) = Other(d) /\ Other(d) \in Sides /\ Other(Other(d)) = d
  BY <1>2, SideFacts
<1>4. Side(n, m) = Other(Other(d))
  BY <1>1, <1>3, SideFlip
<1>q. QED
  BY <1>1, <1>3, <1>4

\* What is below the nodes after a cut, and after a node was hung below another.
LEMMA CutOffIs ==
  ASSUME NEW c, NEW E, NEW sub, Ordered(c, E, sub), NEW n \in E, NEW x
  PROVE  /\ CutOff(sub, n, x)[n] = sub[n] \ sub[x]
         /\ \A m \in E \cup {Nil} : m # n => CutOff(sub, n, x)[m] = sub[m]
<1>1. n \in SplayLinks /\ E \cup {Nil} \subseteq SplayLinks
  BY SubFacts, NilFacts
<1>2. sub = [m \in SplayLinks |-> sub[m]]
  BY DEF Ordered
<1>q. QED
  BY <1>1, <1>2 DEF CutOff

\* What Hung gives for the links of a forest.
LEMMA HungIs ==
  ASSUME NEW c, NEW E, NEW sub, Ordered(c, E, sub), NEW n, NEW x
  PROVE  \A m \in E \cup {Nil} :
           /\ n \in sub[m] => Hung(sub, n, x)[m] = sub[m] \cup sub[x]
           /\ n \notin sub[m] => Hung(sub, n, x)[m] = sub[m]
<1>1. E \cup {Nil} \subseteq SplayLinks
  BY SubFacts, NilFacts
<1>q. QED
  BY <1>1 DEF Hung

\* c2 are the links after the rotation at r with its child x on side d.
Turned(c, c2, d, r, x) ==
  /\ x = c[d][r] /\ x # Nil
  /\ \A e \in Sides : \A m \in SplayKeys :
       c2[e][m] = IF e = d /\ m = r THEN c[Other(d)][x]
                  ELSE IF e = Other(d) /\ m = x THEN r ELSE c[e][m]

\* A rotation at a root leaves the same nodes below the new root.
LEMMA RotateRoot ==
  ASSUME NEW c, NEW E, NEW sub, NEW T, Forest(c, E, sub, T), NEW r \in T, r # Nil,
         NEW d \in Sides, NEW x, NEW c2, Turned(c, c2, d, r, x),
         NEW U, U = (T \ {r}) \cup {x}
  PROVE  \E s : /\ Forest(c2, E, s, U)
                /\ s[x] = sub[r] /\ \A t \in T : t # r => s[t] = sub[t]
<1> DEFINE o == Other(d)
           y == c[o][x]
           c1 == SetLink(c, d, r, Nil)
           s1 == CutOff(sub, r, x)
           T1 == T \cup {x}
           c3 == SetLink(c1, o, x, Nil)
           s3 == CutOff(s1, x, y)
           T3 == T1 \cup {y}
           c4 == SetLink(c3, d, r, y)
           s4 == Hung(s3, r, y)
           T4 == (T3 \ {y}) \cup {Nil}
           s5 == Hung(s4, x, r)
           T5 == (T4 \ {r}) \cup {Nil}
<1>0. x = c[d][r] /\ x # Nil
  BY DEF Turned
<1> USE <1>0
<1>1. Ordered(c, E, sub) /\ Tops(E, sub, T) /\ r \in E
  BY DEF Forest, Tops
<1>2. o \in Sides /\ o # d /\ Other(o) = d
  BY SideFacts
<1>3. x \in E /\ sub[x] \subseteq sub[r] /\ r \notin sub[x] /\ x # r
  BY <1>1, ChildFacts, NodeFacts
<1>4. /\ y \in E \cup {Nil} /\ sub[y] \subseteq sub[x] /\ x \notin sub[y] /\ y # x /\ y # r
      /\ r \notin sub[y] /\ (y # Nil => y \notin T) /\ x \notin T
  <2>1. y \in E \cup {Nil} /\ sub[y] \subseteq sub[x] /\ x \notin sub[y]
    BY <1>1, <1>2, <1>3, ChildFacts
  <2>2. y # x
    BY <1>1, <1>3, <2>1, NodeFacts
  <2>3. y # Nil => y \notin T
    BY <1>1, <1>2, <1>3, TopIsNoChild
  <2>4. x \notin T
    BY <1>1, TopIsNoChild
  <2>q. QED
    BY <1>3, <2>1, <2>2, <2>3, <2>4
<1>5. E \subseteq SplayKeys /\ Nil \notin E
  BY <1>1, SubFacts
<1>6. Relinked(c, c1, d, r, Nil) /\ Relinked(c1, c3, o, x, Nil) /\ Relinked(c3, c4, d, r, y)
  BY SetLinkIs
<1>7. /\ c1[o][x] = c[o][x] /\ c3[d][r] = Nil /\ c4[o][x] = Nil
      /\ \A e \in Sides : \A m \in SplayKeys :
           c4[e][m] = IF e = d /\ m = r THEN y ELSE IF e = o /\ m = x THEN Nil ELSE c[e][m]
  <2> HIDE DEF c1, c3, c4, y, o
  <2>1. \A e \in Sides : \A m \in SplayKeys : c1[e][m] = IF e = d /\ m = r THEN Nil ELSE c[e][m]
    BY <1>6 DEF Relinked
  <2>2. \A e \in Sides : \A m \in SplayKeys : c3[e][m] = IF e = o /\ m = x THEN Nil ELSE c1[e][m]
    BY <1>6 DEF Relinked
  <2>3. \A e \in Sides : \A m \in SplayKeys : c4[e][m] = IF e = d /\ m = r THEN y ELSE c3[e][m]
    BY <1>6 DEF Relinked
  <2>4. r \in SplayKeys /\ x \in SplayKeys
    BY <1>1, <1>3, <1>5
  <2>q. QED
    BY <1>2, <1>3, <2>1, <2>2, <2>3, <2>4
<1>8. Relinked(c4, c2, o, x, r)
  BY <1>2, <1>3, <1>7 DEF Turned, Relinked
<1> HIDE DEF c1, c3, c4
<1>10. Forest(c1, E, s1, T1)
  BY <1>6, Cut
<1>11. s1[r] = sub[r] \ sub[x] /\ \A m \in E \cup {Nil} : m # r => s1[m] = sub[m]
  BY <1>1, CutOffIs
<1> HIDE DEF s1
<1>12. Forest(c3, E, s3, T3)
  <2>1. x \in T1 /\ x # Nil /\ y = c1[o][x]
    BY <1>7
  <2>q. QED
    BY <1>2, <1>6, <1>10, <2>1, Cut
<1>13. /\ s3[x] = sub[x] \ sub[y] /\ s3[r] = sub[r] \ sub[x] /\ s3[y] = sub[y]
       /\ \A m \in E \cup {Nil} : m # r /\ m # x => s3[m] = sub[m]
  <2>1. Ordered(c1, E, s1)
    BY <1>10 DEF Forest
  <2>2. s3[x] = s1[x] \ s1[y] /\ \A m \in E \cup {Nil} : m # x => s3[m] = s1[m]
    BY <1>3, <2>1, CutOffIs
  <2> HIDE DEF y, s3
  <2>q. QED
    BY <1>1, <1>3, <1>4, <1>11, <2>2
<1> HIDE DEF s3
<1>14. Forest(c4, E, s4, T4)
  <2>1. r \in T3 /\ y \in T3 /\ y # r
    BY <1>4
  <2>2. r \in s3[r]
    BY <1>1, <1>3, <1>13, NodeFacts
  <2>3. ASSUME NEW m \in s3[r], m # r
        PROVE  m \in SplayKeys /\ Side(r, m) = d
    <3>1. m \in sub[r] /\ m \notin sub[c[d][r]]
      BY <1>13, <2>3
    <3>q. QED
      BY <1>1, <2>3, <3>1, OtherSide
  <2>4. ASSUME NEW m \in s3[r], NEW z \in s3[y]
        PROVE  z # m /\ Side(z, m) = d
    <3>1. z \in sub[c[d][r]] /\ z \in E
      BY <1>1, <1>3, <1>4, <1>13, <2>4, SubFacts
    <3>2. z # r /\ Side(z, r) = d
      BY <1>1, <3>1, ChildFacts
    <3>q. QED
      BY <1>1, <1>5, <2>3, <3>1, <3>2, SideFurther
  <2>5. (\A m \in s3[r] : m # r => Side(r, m) = d)
        /\ \A m \in s3[r] : \A z \in s3[y] : z # m /\ Side(z, m) = d
    BY <2>3, <2>4
  <2>6. c3[d][r] = Nil /\ Relinked(c3, c4, d, r, y)
    BY <1>6, <1>7
  <2> HIDE DEF y, T3
  <2>q. QED
    BY <1>12, <2>1, <2>2, <2>5, <2>6, Hang
<1>15. /\ s4[r] = (sub[r] \ sub[x]) \cup sub[y] /\ s4[x] = sub[x] \ sub[y]
       /\ \A t \in T : t # r => s4[t] = sub[t]
  <2>1. Ordered(c3, E, s3)
    BY <1>12 DEF Forest
  <2>2. \A m \in E \cup {Nil} :
          /\ r \in s3[m] => s4[m] = s3[m] \cup s3[y]
          /\ r \notin s3[m] => s4[m] = s3[m]
    BY <2>1, HungIs
  <2> HIDE DEF s4, y
  <2>3. r \in s3[r] /\ r \notin s3[x]
    BY <1>1, <1>3, <1>13, NodeFacts
  <2>4. s4[r] = s3[r] \cup s3[y] /\ s4[x] = s3[x]
    BY <1>1, <1>3, <2>2, <2>3
  <2>5. ASSUME NEW t \in T, t # r
        PROVE  s4[t] = sub[t]
    <3>1. t \in E \cup {Nil} /\ t # x /\ s3[t] = sub[t]
      BY <1>1, <1>4, <1>13, <2>5 DEF Tops
    <3>2. r \notin sub[t]
      BY <1>1, <2>5, NodeFacts DEF Tops
    <3>q. QED
      BY <2>2, <3>1, <3>2
  <2>q. QED
    BY <1>13, <2>4, <2>5
<1> HIDE DEF s4
<1>16. Forest(c2, E, s5, T5)
  <2>1. x \in T4 /\ r \in T4 /\ r # x
    BY <1>3, <1>4
  <2>2. x \in s4[x]
    BY <1>1, <1>3, <1>4, <1>15, NodeFacts
  <2>3. ASSUME NEW m \in s4[x], m # x
        PROVE  m \in SplayKeys /\ Side(x, m) = o
    <3>1. m \in sub[x] /\ m \notin sub[c[o][x]]
      BY <1>15, <2>3
    <3>q. QED
      BY <1>1, <1>2, <1>3, <2>3, <3>1, OtherSide
  <2>4. ASSUME NEW m \in s4[x], NEW z \in s4[r]
        PROVE  z # m /\ Side(z, m) = o
    <3>1. z \in sub[y] \/ z \in sub[r] \ sub[x]
      BY <1>15, <2>4
    <3>2. CASE z \in sub[y]
      <4>1. z # x /\ Side(z, x) = o /\ z \in SplayKeys
        BY <1>1, <1>2, <1>3, <1>4, <1>5, <3>2, ChildFacts, SubFacts
      <4>q. QED
        BY <1>2, <1>3, <1>5, <2>3, <4>1, SideFurther
    <3>3. CASE z \in sub[r] \ sub[x]
      <4>1. m \in sub[c[d][r]] /\ m \in SplayKeys
        BY <1>1, <1>3, <1>5, <1>15, <2>4, SubFacts
      <4>2. m # r /\ Side(m, r) = d
        BY <1>1, <4>1, ChildFacts
      <4>3. r \in SplayKeys /\ Side(r, m) = o
        BY <1>1, <1>5, <4>1, <4>2, SideFlip
      <4>4. CASE z = r
        BY <4>2, <4>3, <4>4
      <4>5. CASE z # r
        <5>1. z \in SplayKeys /\ Side(z, r) = o
          BY <1>1, <3>3, <4>5, OtherSide
        <5>q. QED
          BY <1>2, <4>1, <4>2, <4>3, <4>5, <5>1, SideFurther
      <4>q. QED
        BY <4>4, <4>5
    <3>q. QED
      BY <3>1, <3>2, <3>3
  <2>5. (\A m \in s4[x] : m # x => Side(x, m) = o)
        /\ \A m \in s4[x] : \A z \in s4[r] : z # m /\ Side(z, m) = o
    BY <2>3, <2>4
  <2>6. c4[o][x] = Nil /\ o \in Sides
    BY <1>2, <1>7
  <2> HIDE DEF y, o, T4
  <2>q. QED
    BY <1>8, <1>14, <2>1, <2>2, <2>5, <2>6, Hang
<1>17. s5[x] = sub[r] /\ \A t \in T : t # r => s5[t] = sub[t]
  <2>1. Ordered(c4, E, s4)
    BY <1>14 DEF Forest
  <2>2. \A m \in E \cup {Nil} :
          /\ x \in s4[m] => s5[m] = s4[m] \cup s4[r]
          /\ x \notin s4[m] => s5[m] = s4[m]
    BY <2>1, HungIs
  <2> HIDE DEF s5, y
  <2>3. x \in s4[x] /\ x \in sub[r]
    BY <1>1, <1>3, <1>4, <1>15, NodeFacts
  <2>4. s5[x] = s4[x] \cup s4[r]
    BY <1>3, <2>2, <2>3
  <2>5. s5[x] = sub[r]
    BY <1>3, <1>4, <1>15, <2>4
  <2>6. ASSUME NEW t \in T, t # r
        PROVE  s5[t] = sub[t]
    <3>1. t \in E \cup {Nil} /\ s4[t] = sub[t]
      BY <1>1, <1>15, <2>6 DEF Tops
    <3>2. x \notin sub[t]
      BY <1>1, <2>3, <2>6 DEF Tops
    <3>q. QED
      BY <2>2, <3>1, <3>2
  <2>q. QED
    BY <2>5, <2>6
<1> HIDE DEF s5
<1>18. Forest(c2, E, s5, U)
  <2>1. U \cup {Nil} = T5 \cup {Nil}
    <3> HIDE DEF y
    <3>q. QED
      BY <1>3, <1>4
  <2>2. Ordered(c2, E, s5) /\ Tops(E, s5, T5)
    BY <1>16 DEF Forest
  <2>3. s5[Nil] = {}
    BY <2>2, SubFacts
  <2> HIDE DEF T5
  <2>q. QED
    BY <2>1, <2>2, <2>3, SameTops DEF Forest
<1>q. QED
  BY <1>17, <1>18

-----------------------------------------------------------------------------
(* The parts of a tree that is being splayed *)

\* p is the part that was split off on the way to side d, and e its end, the last node on
\* that side.  The goal lies to that side of the part, and so does the tree r.
SplitOff(sub, r, p, e, goal, d) ==
  /\ \A x \in sub[p] : goal[x] = d /\ \A y \in sub[r] : y # x /\ Side(y, x) = d
  /\ IF e = Hdr THEN p = Nil
     ELSE e \in sub[p] /\ \A x \in sub[p] : x # e => Side(e, x) = d

\* SPLAY_ASSEMBLE on one side: the child of r goes to the end e of the part p, and this
\* below r.  Without a part it sets the link of r to the child it has.
Mended(c, c2, d, r, p, e) ==
  \A b \in Sides : \A m \in SplayKeys :
    c2[b][m] = IF e # Hdr /\ b = Other(d) /\ m = r THEN p
               ELSE IF e # Hdr /\ b = d /\ m = e THEN c[Other(d)][r] ELSE c[b][m]

\* The root r takes back a tree p that was split off: what r had on that side is hung at the
\* edge e of p, and p below r.  The other trees stay as they are, and r has the nodes of both.
LEMMA Mend ==
  ASSUME NEW c, NEW E, NEW sub, NEW T, Forest(c, E, sub, T), NEW r \in T, r # Nil,
         NEW d \in Sides, NEW p \in T, NEW e, NEW goal, SplitOff(sub, r, p, e, goal, d),
         NEW c2, Mended(c, c2, d, r, p, e), NEW U, U = (T \ {p}) \cup {Nil}
  PROVE  \E s : /\ Forest(c2, E, s, U)
                /\ s[r] = sub[r] \cup sub[p]
                /\ \A t \in T : t # r /\ t # p => s[t] = sub[t]
<1>1. Ordered(c, E, sub) /\ Tops(E, sub, T) /\ r \in E
  BY DEF Forest, Tops
<1>2. CASE e = Hdr
  <2>1. p = Nil /\ sub[p] = {}
    BY <1>1, <1>2, SubFacts DEF SplitOff
  <2>2. \A b \in Sides : \A m \in SplayKeys : c2[b][m] = c[b][m]
    BY <1>2 DEF Mended
  <2>3. Ordered(c2, E, sub)
    BY <1>1, <2>2, SameLinks
  <2>4. U \cup {Nil} = T \cup {Nil}
    BY <2>1
  <2>5. Tops(E, sub, U)
    BY <1>1, <2>1, <2>4, SameTops
  <2>6. Forest(c2, E, sub, U)
    BY <2>3, <2>5 DEF Forest
  <2>q. QED
    BY <2>1, <2>6
<1>3. CASE e # Hdr
  <2> DEFINE o == Other(d)
             a == c[o][r]
             c1 == SetLink(c, o, r, Nil)
             s1 == CutOff(sub, r, a)
             T1 == T \cup {a}
             c3 == SetLink(c1, d, e, a)
             s3 == Hung(s1, e, a)
             T3 == (T1 \ {a}) \cup {Nil}
             s5 == Hung(s3, r, p)
             T5 == (T3 \ {p}) \cup {Nil}
  <2>1. o \in Sides /\ o # d /\ Other(o) = d
    BY SideFacts
  <2>2. /\ e \in sub[p] /\ \A x \in sub[p] : x # e => Side(e, x) = d
        /\ \A x \in sub[p] : \A y \in sub[r] : y # x /\ Side(y, x) = d
    BY <1>3 DEF SplitOff
  <2>3. /\ E \subseteq SplayKeys /\ Nil \notin E /\ r \in sub[r] /\ p \in E /\ e \in E /\ p # r
        /\ sub[p] \cap sub[r] = {}
    <3>1. E \subseteq SplayKeys /\ Nil \notin E /\ r \in sub[r]
      BY <1>1, SubFacts, NodeFacts
    <3>2. p \in E /\ e \in E
      BY <1>1, <2>2, SubFacts DEF Tops
    <3>3. p # r
      BY <2>2, <3>1
    <3>4. sub[p] \cap sub[r] = {}
      BY <1>1, <3>3 DEF Tops
    <3>q. QED
      BY <3>1, <3>2, <3>3, <3>4
  <2>4. /\ a \in E \cup {Nil} /\ sub[a] \subseteq sub[r] /\ r \notin sub[a] /\ a # r /\ a # p
        /\ (a # Nil => a \notin T)
    <3>1. a \in E \cup {Nil} /\ sub[a] \subseteq sub[r] /\ r \notin sub[a]
      BY <1>1, <2>1, ChildFacts
    <3>2. a # Nil => a \notin T
      BY <1>1, <2>1, TopIsNoChild
    <3>q. QED
      BY <1>1, <2>3, <3>1, <3>2
  <2>5. c[d][e] = Nil
    <3>1. ASSUME c[d][e] \in E
          PROVE  FALSE
      <4>1. c[d][e] \in sub[c[d][e]] /\ sub[c[d][e]] \subseteq sub[e]
        BY <1>1, <2>3, <3>1, NodeFacts, ChildFacts
      <4>2. c[d][e] \in sub[p] /\ c[d][e] # e /\ Side(c[d][e], e) = d
        BY <1>1, <2>2, <2>3, <4>1, Nested, ChildFacts
      <4>3. Side(e, c[d][e]) = d /\ Side(e, c[d][e]) = Other(d)
        BY <2>2, <2>3, <3>1, <4>2, SideFlip
      <4>q. QED
        BY <4>3, SideFacts
    <3>q. QED
      BY <1>1, <2>3, <3>1, ChildFacts
  <2>6. Relinked(c, c1, o, r, Nil) /\ Relinked(c1, c3, d, e, a)
    BY SetLinkIs
  <2>7. c1[d][e] = Nil /\ c3[o][r] = Nil /\ Relinked(c3, c2, o, r, p)
    <3> HIDE DEF c1, c3, a, o
    <3>1. r \in SplayKeys /\ e \in SplayKeys
      BY <1>1, <2>3
    <3>2. \A b \in Sides : \A m \in SplayKeys : c1[b][m] = IF b = o /\ m = r THEN Nil ELSE c[b][m]
      BY <2>6 DEF Relinked
    <3>3. \A b \in Sides : \A m \in SplayKeys : c3[b][m] = IF b = d /\ m = e THEN a ELSE c1[b][m]
      BY <2>6 DEF Relinked
    <3>4. \A b \in Sides : \A m \in SplayKeys :
            c2[b][m] = IF b = o /\ m = r THEN p ELSE IF b = d /\ m = e THEN a ELSE c[b][m]
      BY <1>3 DEF Mended, a, o
    <3>5. Relinked(c3, c2, o, r, p)
      BY <3>2, <3>3, <3>4 DEF Relinked
    <3>q. QED
      BY <2>1, <2>5, <3>1, <3>2, <3>3, <3>5
  <2> HIDE DEF c1, c3
  <2>8. Forest(c1, E, s1, T1)
    BY <2>1, <2>6, Cut
  <2>9. s1[r] = sub[r] \ sub[a] /\ \A m \in E \cup {Nil} : m # r => s1[m] = sub[m]
    BY <1>1, CutOffIs
  <2> HIDE DEF s1
  <2>10. Forest(c3, E, s3, T3)
    <3>1. p \in T1 /\ a \in T1 /\ a # p /\ e \in s1[p]
      BY <2>2, <2>3, <2>4, <2>9
    <3>2. (\A y \in s1[p] : y # e => Side(e, y) = d)
      BY <2>2, <2>3, <2>9
    <3>3. \A y \in s1[p] : \A z \in s1[a] : z # y /\ Side(z, y) = d
      BY <2>2, <2>3, <2>4, <2>9
    <3> HIDE DEF a, o, T1
    <3>q. QED
      BY <2>6, <2>7, <2>8, <3>1, <3>2, <3>3, Hang
  <2>11. /\ s3[p] = sub[p] \cup sub[a] /\ s3[r] = sub[r] \ sub[a]
         /\ \A t \in T : t # r /\ t # p => s3[t] = sub[t]
    <3>1. Ordered(c1, E, s1)
      BY <2>8 DEF Forest
    <3>2. \A m \in E \cup {Nil} :
            /\ e \in s1[m] => s3[m] = s1[m] \cup s1[a]
            /\ e \notin s1[m] => s3[m] = s1[m]
      BY <3>1, HungIs
    <3> HIDE DEF s3, a
    <3>3. s3[p] = sub[p] \cup sub[a]
      BY <2>2, <2>3, <2>4, <2>9, <3>2
    <3>4. s3[r] = sub[r] \ sub[a]
      <4>1. e \notin s1[r] /\ r \in E \cup {Nil}
        BY <1>1, <2>2, <2>3, <2>9
      <4>q. QED
        BY <2>9, <3>2, <4>1
    <3>5. ASSUME NEW t \in T, t # r, t # p
          PROVE  s3[t] = sub[t]
      <4>1. t \in E \cup {Nil} /\ s1[t] = sub[t]
        BY <1>1, <2>9, <3>5 DEF Tops
      <4>2. e \notin sub[t]
        BY <1>1, <2>2, <3>5 DEF Tops
      <4>q. QED
        BY <3>2, <4>1, <4>2
    <3>q. QED
      BY <3>3, <3>4, <3>5
  <2> HIDE DEF s3
  <2>12. Forest(c2, E, s5, T5)
    <3>1. r \in T3 /\ p \in T3 /\ p # r /\ r \in s3[r]
      BY <2>3, <2>4, <2>11
    <3>2. ASSUME NEW y \in s3[r], y # r
          PROVE  y \in SplayKeys /\ Side(r, y) = o
      <4>1. y \in sub[r] /\ y \notin sub[c[o][r]]
        BY <2>11, <3>2
      <4>q. QED
        BY <1>1, <2>1, <3>2, <4>1, OtherSide
    <3>3. ASSUME NEW y \in s3[r], NEW z \in s3[p]
          PROVE  z # y /\ Side(z, y) = o
      <4>1. y \in sub[r] /\ y \in SplayKeys
        BY <1>1, <2>3, <2>11, <3>2, <3>3
      <4>2. CASE z \in sub[p]
        <5>1. y # z /\ Side(y, z) = d /\ z \in SplayKeys
          BY <1>1, <2>2, <2>3, <4>1, <4>2, SubFacts
        <5>q. QED
          BY <4>1, <5>1, SideFlip
      <4>3. CASE z \in sub[a]
        <5>1. z # r /\ Side(z, r) = o /\ z \in SplayKeys
          BY <1>1, <2>1, <2>3, <2>4, <4>3, ChildFacts, SubFacts
        <5>q. QED
          BY <1>1, <2>1, <2>3, <3>2, <4>1, <5>1, SideFurther
      <4>q. QED
        BY <2>11, <4>2, <4>3
    <3>4. (\A y \in s3[r] : y # r => Side(r, y) = o)
          /\ \A y \in s3[r] : \A z \in s3[p] : z # y /\ Side(z, y) = o
      BY <3>2, <3>3
    <3> HIDE DEF a, o, T3
    <3>q. QED
      BY <2>1, <2>7, <2>10, <3>1, <3>4, Hang
  <2>13. s5[r] = sub[r] \cup sub[p] /\ \A t \in T : t # r /\ t # p => s5[t] = sub[t]
    <3>1. Ordered(c3, E, s3)
      BY <2>10 DEF Forest
    <3>2. \A m \in E \cup {Nil} :
            /\ r \in s3[m] => s5[m] = s3[m] \cup s3[p]
            /\ r \notin s3[m] => s5[m] = s3[m]
      BY <3>1, HungIs
    <3> HIDE DEF s5, a
    <3>3. s5[r] = s3[r] \cup s3[p]
      BY <1>1, <2>3, <2>4, <2>11, <3>2
    <3>4. s5[r] = sub[r] \cup sub[p]
      BY <2>4, <2>11, <3>3
    <3>5. ASSUME NEW t \in T, t # r, t # p
          PROVE  s5[t] = sub[t]
      <4>1. t \in E \cup {Nil} /\ s3[t] = sub[t]
        BY <1>1, <2>11, <3>5 DEF Tops
      <4>2. r \notin sub[t]
        BY <1>1, <2>3, <3>5 DEF Tops
      <4>q. QED
        BY <3>2, <4>1, <4>2
    <3>q. QED
      BY <3>4, <3>5
  <2> HIDE DEF s5
  <2>14. Forest(c2, E, s5, U)
    <3>1. U \cup {Nil} = T5 \cup {Nil}
      <4> HIDE DEF a
      <4>q. QED
        BY <2>4
    <3>2. Ordered(c2, E, s5) /\ Tops(E, s5, T5)
      BY <2>12 DEF Forest
    <3>3. s5[Nil] = {}
      BY <3>2, SubFacts
    <3> HIDE DEF T5
    <3>q. QED
      BY <3>1, <3>2, <3>3, SameTops DEF Forest
  <2>q. QED
    BY <2>13, <2>14
<1>q. QED
  BY <1>2, <1>3

-----------------------------------------------------------------------------
(* Insertion and removal at the root *)

\* The links after the new root e took the old root r and its child on side d as children.
InsertedAbove(c, c2, d, r, e) ==
  \A b \in Sides : \A m \in SplayKeys :
    c2[b][m] = IF m = e THEN IF b = d THEN c[d][r] ELSE r
               ELSE IF b = d /\ m = r THEN Nil ELSE c[b][m]

\* SPLAY_INSERT: the parts of the tree on the two sides of a new node are put below it; there
\* is one tree again, with one node more.
LEMMA InsertRoot ==
  ASSUME NEW c, NEW E, NEW sub, NEW r \in E, Forest(c, E, sub, {r, Nil}),
         NEW e \in SplayKeys \ E, NEW d \in Sides, NEW a, a = c[d][r],
         \A m \in sub[a] : Side(m, e) = d,
         \A m \in sub[r] : m \notin sub[a] => Side(m, e) = Other(d),
         NEW c2, InsertedAbove(c, c2, d, r, e)
  PROVE  \E s : Forest(c2, E \cup {e}, s, {e, Nil})
<1> DEFINE o == Other(d)
           F == E \cup {e}
           c1 == SetLink(c, d, r, Nil)
           s1 == CutOff(sub, r, a)
           T1 == {r, Nil} \cup {a}
           T2 == T1 \cup {e}
           c3 == SetLink(c1, d, e, a)
           s3 == Hung(s1, e, a)
           T3 == (T2 \ {a}) \cup {Nil}
           s5 == Hung(s3, e, r)
           T5 == (T3 \ {r}) \cup {Nil}
<1>1. Ordered(c, E, sub)
  BY DEF Forest
<1>2. o \in Sides /\ o # d /\ Other(o) = d /\ \A b \in Sides : b = d \/ b = o
  BY SideFacts
<1>3. /\ E \subseteq SplayKeys /\ r # Nil /\ e # Nil /\ r # e /\ a # e /\ a # r
      /\ a \in E \cup {Nil} /\ sub[a] \subseteq E /\ sub[r] \subseteq E
  <2>1. E \subseteq SplayKeys /\ Nil \notin E /\ Nil \notin SplayKeys
    BY <1>1, SubFacts, NilFacts
  <2>2. a \in E \cup {Nil} /\ r \notin sub[a] /\ sub[a] \subseteq sub[r] /\ sub[r] \subseteq E
    BY <1>1, ChildFacts, NodeFacts
  <2>3. a # r
    BY <1>1, <2>2, NodeFacts
  <2>q. QED
    BY <2>1, <2>2, <2>3
<1>4. Relinked(c, c1, d, r, Nil) /\ Relinked(c1, c3, d, e, a)
  BY SetLinkIs
<1>5. c1[d][e] = Nil /\ c3[o][e] = Nil /\ Relinked(c3, c2, o, e, r)
  <2> HIDE DEF c1, c3, o
  <2>1. \A b \in Sides : \A m \in SplayKeys : c1[b][m] = IF b = d /\ m = r THEN Nil ELSE c[b][m]
    BY <1>4 DEF Relinked
  <2>2. \A b \in Sides : \A m \in SplayKeys : c3[b][m] = IF b = d /\ m = e THEN a ELSE c1[b][m]
    BY <1>4 DEF Relinked
  <2>3. \A b \in Sides : c[b][e] = Nil
    BY <1>1 DEF Ordered
  <2>4. Relinked(c3, c2, o, e, r)
    BY <1>2, <1>3, <2>1, <2>2, <2>3 DEF Relinked, InsertedAbove
  <2>q. QED
    BY <1>2, <1>3, <2>1, <2>2, <2>3, <2>4
<1> HIDE DEF c1, c3
<1>6. Forest(c1, E, s1, T1)
  BY <1>3, <1>4, Cut
<1>7. s1[r] = sub[r] \ sub[a] /\ s1[a] = sub[a] /\ s1[e] = {e}
  <2>1. s1[r] = sub[r] \ sub[a] /\ s1[a] = sub[a]
    BY <1>1, <1>3, CutOffIs
  <2>2. s1[e] = {e}
    BY <1>6, SubFacts DEF Forest
  <2>q. QED
    BY <2>1, <2>2
<1> HIDE DEF s1
<1>8. Forest(c1, F, s1, T2)
  BY <1>6, AddNode
<1>9. Forest(c3, F, s3, T3)
  <2>1. e \in T2 /\ e \in s1[e] /\ a \in T2 /\ a # e
    BY <1>3, <1>7
  <2>2. /\ \A y \in s1[e] : y # e => Side(e, y) = d
        /\ \A y \in s1[e] : \A z \in s1[a] : z # y /\ Side(z, y) = d
    BY <1>3, <1>7
  <2> HIDE DEF T2, F
  <2>q. QED
    BY <1>4, <1>5, <1>8, <2>1, <2>2, Hang
<1>10. s3[e] = {e} \cup sub[a] /\ s3[r] = sub[r] \ sub[a]
  <2>1. Ordered(c1, F, s1)
    BY <1>8 DEF Forest
  <2>2. /\ e \in s1[e] => s3[e] = s1[e] \cup s1[a]
        /\ e \notin s1[r] => s3[r] = s1[r]
    BY <2>1, HungIs
  <2> HIDE DEF s3
  <2>q. QED
    BY <1>3, <1>7, <2>2
<1> HIDE DEF s3
<1>11. Forest(c2, F, s5, T5)
  <2>1. e \in T3 /\ e \in s3[e] /\ r \in T3 /\ r # e
    BY <1>3, <1>10
  <2>2. ASSUME NEW y \in s3[e], y # e
        PROVE  y \in SplayKeys /\ Side(e, y) = o
    <3>1. y \in sub[a] /\ y \in SplayKeys /\ e \in SplayKeys
      BY <1>3, <1>10, <2>2
    <3>q. QED
      BY <2>2, <3>1, SideFlip
  <2>3. ASSUME NEW y \in s3[e], NEW z \in s3[r]
        PROVE  z # y /\ Side(z, y) = o
    <3>1. z \in SplayKeys /\ z # e /\ Side(z, e) = o /\ e \in SplayKeys
      BY <1>3, <1>10, <2>3
    <3>q. QED
      BY <1>2, <2>2, <3>1, SideFurther
  <2>4. /\ \A y \in s3[e] : y # e => Side(e, y) = o
        /\ \A y \in s3[e] : \A z \in s3[r] : z # y /\ Side(z, y) = o
    BY <2>2, <2>3
  <2> HIDE DEF T3, F, o
  <2>q. QED
    BY <1>2, <1>5, <1>9, <2>1, <2>4, Hang
<1>12. T5 = {e, Nil}
  BY <1>3
<1>q. QED
  BY <1>11, <1>12

\* The links once the root r lost its children a and b.
Dropped(c, c2, r, a, b) ==
  /\ a = c["L"][r] /\ b = c["R"][r]
  /\ \A d \in Sides : \A m \in SplayKeys : c2[d][m] = IF m = r THEN Nil ELSE c[d][m]

\* Below a and b are the nodes that were there before.
LeftTwo(c, E, sub, r, a, b, s) ==
  Forest(c, E \ {r}, s, {a, b, Nil}) /\ s[a] = sub[a] /\ s[b] = sub[b]

\* Without its root a tree is the two trees below it.
LEMMA DropRoot ==
  ASSUME NEW c, NEW E, NEW sub, NEW r \in E, Forest(c, E, sub, {r, Nil}),
         NEW a, NEW b, NEW c2, Dropped(c, c2, r, a, b)
  PROVE  \E s : LeftTwo(c2, E, sub, r, a, b, s)
<1> DEFINE c1 == SetLink(c, "L", r, Nil)
           s1 == CutOff(sub, r, a)
           T1 == {r, Nil} \cup {a}
           c3 == SetLink(c1, "R", r, Nil)
           s3 == CutOff(s1, r, b)
           T3 == T1 \cup {b}
<1>0. a = c["L"][r] /\ b = c["R"][r]
  BY DEF Dropped
<1> USE <1>0
<1>1. Ordered(c, E, sub) /\ "L" \in Sides /\ "R" \in Sides /\ "L" # "R"
  BY SideFacts DEF Forest
<1>2. /\ r # Nil /\ a # r /\ b # r /\ a \in E \cup {Nil} /\ b \in E \cup {Nil} /\ r \in SplayKeys
      /\ r \notin sub[a] /\ r \notin sub[b] /\ sub[r] = {r} \cup sub[a] \cup sub[b]
  <2>1. r # Nil /\ r \in SplayKeys /\ r \in sub[r] /\ sub[r] = {r} \cup sub[a] \cup sub[b]
    BY <1>1, SubFacts, NodeFacts
  <2>2. r \notin sub[a] /\ r \notin sub[b] /\ a \in E \cup {Nil} /\ b \in E \cup {Nil}
    BY <1>1, ChildFacts
  <2>q. QED
    BY <2>1, <2>2
<1>3. Relinked(c, c1, "L", r, Nil) /\ Relinked(c1, c3, "R", r, Nil)
  BY SetLinkIs
<1>4. c1["R"][r] = b /\ \A d \in Sides : c3[d][r] = Nil
  BY <1>1, <1>2, <1>3 DEF Relinked, Sides
<1>5. \A d \in Sides : \A m \in SplayKeys : c2[d][m] = c3[d][m]
  BY <1>1, <1>3 DEF Relinked, Dropped, Sides
<1> HIDE DEF c1, c3
<1>6. Forest(c1, E, s1, T1)
  BY <1>1, <1>2, <1>3, Cut
<1>7. s1[r] = sub[r] \ sub[a] /\ s1[a] = sub[a] /\ s1[b] = sub[b]
  BY <1>1, <1>2, CutOffIs
<1> HIDE DEF s1
<1>8. Forest(c3, E, s3, T3)
  <2>1. r \in T1
    OBVIOUS
  <2> HIDE DEF T1
  <2>q. QED
    BY <1>1, <1>2, <1>3, <1>4, <1>6, <2>1, Cut
<1>9. s3[r] = {r} /\ s3[a] = sub[a] /\ s3[b] = sub[b]
  <2>1. Ordered(c1, E, s1)
    BY <1>6 DEF Forest
  <2>2. s3[r] = s1[r] \ s1[b] /\ s3[a] = s1[a] /\ s3[b] = s1[b]
    BY <1>2, <2>1, CutOffIs
  <2> HIDE DEF s3
  <2>q. QED
    BY <1>2, <1>7, <2>2
<1> HIDE DEF s3
<1>10. Forest(c2, E, s3, T3)
  BY <1>5, <1>8, SameLinks DEF Forest
<1>11. Forest(c2, E \ {r}, s3, T3 \ {r})
  <2>1. r \in T3 /\ \A d \in Sides : c2[d][r] = Nil
    BY <1>2, <1>4, <1>5
  <2> HIDE DEF T3
  <2>q. QED
    BY <1>2, <1>9, <1>10, <2>1, DropNode
<1>12. T3 \ {r} = {a, b, Nil}
  BY <1>2
<1>13. LeftTwo(c2, E, sub, r, a, b, s3)
  BY <1>9, <1>11, <1>12 DEF LeftTwo
<1>q. QED
  BY <1>13

\* A tree to the right of r becomes its right child.
LEMMA JoinRight ==
  ASSUME NEW c, NEW E, NEW sub, NEW r \in E, NEW q, q # r, Forest(c, E, sub, {r, q, Nil}),
         c["R"][r] = Nil, \A y \in sub[r] : \A z \in sub[q] : y < z,
         NEW c2, Relinked(c, c2, "R", r, q)
  PROVE  \E s : Forest(c2, E, s, {r, Nil})
<1> DEFINE T == {r, q, Nil}
           U == (T \ {q}) \cup {Nil}
<1>1. Ordered(c, E, sub) /\ r \in T /\ q \in T /\ r \in sub[r] /\ "R" \in Sides
  BY NodeFacts, SideFacts DEF Forest
<1>2. \A y \in sub[r] : y # r => Side(r, y) = "R"
  <2>1. sub[c["R"][r]] = {}
    BY <1>1, SubFacts
  <2>q. QED
    BY <1>1, <2>1, OtherSide
<1>3. \A y \in sub[r] : \A z \in sub[q] : z # y /\ Side(z, y) = "R"
  <2>1. q \in E \cup {Nil} /\ sub[r] \subseteq SplayKeys /\ sub[q] \subseteq SplayKeys
    BY <1>1, SubFacts DEF Forest, Tops
  <2>q. QED
    <3> SUFFICES ASSUME NEW y \in sub[r], NEW z \in sub[q]
                 PROVE  z # y /\ Side(z, y) = "R"
      OBVIOUS
    <3>1. y \in Int /\ z \in Int /\ y < z
      BY <2>1, SplayKeysAssumption
    <3>q. QED
      BY <3>1 DEF Side
<1>4. U = {r, Nil}
  BY <1>1, SubFacts
<1> HIDE DEF T
<1>5. Forest(c2, E, Hung(sub, r, q), U)
  BY <1>1, <1>2, <1>3, Hang DEF T
<1>q. QED
  BY <1>4, <1>5
-----------------------------------------------------------------------------
(* The parts of the tree during a splay *)

\* goal tells where the goal of a splay lies from each key: a key that is further away
\* from it on one side sees it on the same side.
Leads(goal) ==
  \A x, z \in SplayKeys : \A d \in Sides : goal[x] = d /\ x # z /\ Side(x, z) = d => goal[z] = d

Leading(op, arg) ==
  [x \in SplayKeys |-> IF op = "max" THEN "R" ELSE IF arg = Nil \/ arg < x THEN "L"
                       ELSE IF arg > x THEN "R" ELSE "here"]

\* What was set aside as q lies to the right of the other parts.
Aside(o, r, q, E, sub) ==
  /\ \A x \in sub[q] : x \notin sub[r] /\ \A d \in Sides : x \notin sub[o[d][Hdr]]
  /\ \A x \in E : \A y \in sub[q] : x \notin sub[q] => x < y

\* o are the links, but for those where the parts end, en are these ends, and r is what is
\* left of the tree.
Roots(o, r, q) == {r, q, o["L"][Hdr], o["R"][Hdr]}

PartsOf(o, en, r, q, goal, E, sub) ==
  /\ Forest(o, E, sub, Roots(o, r, q))
  /\ \A d \in Sides : SplitOff(sub, r, o[d][Hdr], en[d], goal, d)
  /\ Aside(o, r, q, E, sub)

\* What a splay goes by leads to one goal.
LEMMA LeadingLeads ==
  ASSUME NEW op, NEW arg \in SplayLinks
  PROVE  Leads(Leading(op, arg))
<1> SUFFICES ASSUME NEW x \in SplayKeys, NEW z \in SplayKeys, NEW d \in Sides,
                    Leading(op, arg)[x] = d, x # z, Side(x, z) = d
             PROVE  Leading(op, arg)[z] = d
  BY DEF Leads
<1>1. x \in Int /\ z \in Int /\ (arg = Nil \/ arg \in Int)
  BY SplayKeysAssumption DEF SplayLinks
<1>2. d = "L" \/ d = "R"
  BY DEF Sides
<1>3. CASE op = "max" \/ arg = Nil
  BY <1>1, <1>2, <1>3 DEF Leading, Side
<1>4. CASE op # "max" /\ arg # Nil
  BY <1>1, <1>2, <1>4 DEF Leading, Side
<1>q. QED
  BY <1>3, <1>4

\* The roots differ, as far as they are nodes.
LEMMA PartsFacts ==
  ASSUME NEW o, NEW en, NEW r, NEW q, NEW goal, NEW E, NEW sub,
         PartsOf(o, en, r, q, goal, E, sub), r # Nil
  PROVE  /\ Ordered(o, E, sub) /\ r \in E /\ r \in SplayKeys /\ r \in sub[r] /\ r # q /\ q \in E \cup {Nil}
         /\ \A d \in Sides :
              /\ o[d][Hdr] \in E \cup {Nil} /\ o[d][Hdr] # r /\ r \notin sub[o[d][Hdr]]
              /\ o[d][Hdr] = q => q = Nil
              /\ o[d][Hdr] = o[Other(d)][Hdr] => o[d][Hdr] = Nil
<1>1. Ordered(o, E, sub) /\ Roots(o, r, q) \subseteq E \cup {Nil}
  BY DEF PartsOf, Forest, Tops
<1>2. r \in E /\ r \in SplayKeys /\ r \in sub[r] /\ q \in E \cup {Nil}
  BY <1>1, NodeFacts DEF Roots
<1>3. r # q
  BY <1>2 DEF PartsOf, Aside
<1>4. ASSUME NEW d \in Sides
      PROVE  /\ o[d][Hdr] \in E \cup {Nil} /\ r \notin sub[o[d][Hdr]]
             /\ o[d][Hdr] = q => q = Nil
             /\ o[d][Hdr] = o[Other(d)][Hdr] => o[d][Hdr] = Nil
  <2>1. o[d][Hdr] \in E \cup {Nil}
    BY <1>1 DEF Roots, Sides
  <2>2. SplitOff(sub, r, o[d][Hdr], en[d], goal, d)
    BY DEF PartsOf
  <2>3. r \notin sub[o[d][Hdr]]
    BY <1>2, <2>2 DEF SplitOff
  <2>4. ASSUME o[d][Hdr] = q, q # Nil
        PROVE  FALSE
    <3>1. q \in sub[q] /\ q \notin sub[o[d][Hdr]]
      BY <1>1, <1>2, <2>4, NodeFacts DEF PartsOf, Aside
    <3>q. QED
      BY <2>4, <3>1
  <2>5. ASSUME o[d][Hdr] = o[Other(d)][Hdr], o[d][Hdr] # Nil
        PROVE  FALSE
    <3>1. o[d][Hdr] \in sub[o[d][Hdr]]
      BY <1>1, <2>1, <2>5, NodeFacts
    <3>2. SplitOff(sub, r, o[Other(d)][Hdr], en[Other(d)], goal, Other(d))
      BY SideFacts DEF PartsOf
    <3>q. QED
      BY <2>2, <2>5, <3>1, <3>2, SideFacts DEF SplitOff
  <2>q. QED
    BY <2>1, <2>3, <2>4, <2>5
<1>q. QED
  BY <1>1, <1>2, <1>3, <1>4

\* A rotation at the root leaves the parts as they are.
LEMMA RotateKeepsParts ==
  ASSUME NEW o, NEW en, NEW r, NEW q, NEW goal, NEW E, NEW sub,
         PartsOf(o, en, r, q, goal, E, sub), r # Nil,
         NEW d \in Sides, NEW x, NEW o2, Turned(o, o2, d, r, x),
         \A b \in Sides : o2[b][Hdr] = o[b][Hdr]
  PROVE  \E s : PartsOf(o2, en, x, q, goal, E, s) /\ s[x] = sub[r] /\ s[q] = sub[q]
<1> DEFINE T == Roots(o, r, q)
           p(b) == o[b][Hdr]
           U == Roots(o2, x, q)
<1>1. /\ r # q /\ \A b \in Sides : p(b) # r
  BY PartsFacts
<1>2. Forest(o, E, sub, T) /\ r \in T
  BY DEF PartsOf, Roots
<1>3. q \in T /\ \A b \in Sides : p(b) \in T
  BY DEF Roots, Sides
<1>4. U = (T \ {r}) \cup {x}
  BY <1>1, SideFacts DEF Roots
<1> HIDE DEF T, p
<1>5. PICK s : /\ Forest(o2, E, s, U)
               /\ s[x] = sub[r] /\ \A t \in T : t # r => s[t] = sub[t]
  <2> HIDE DEF U
  <2>q. QED
    BY <1>2, <1>4, RotateRoot
<1>6. s[q] = sub[q] /\ \A b \in Sides : s[p(b)] = sub[p(b)]
  BY <1>1, <1>3, <1>5
<1>7. \A b \in Sides : o2[b][Hdr] = p(b)
  BY DEF p
<1>8. ASSUME NEW b \in Sides
      PROVE  SplitOff(s, x, o2[b][Hdr], en[b], goal, b)
  <2>1. SplitOff(sub, r, p(b), en[b], goal, b)
    BY DEF PartsOf, p
  <2>q. QED
    BY <1>5, <1>6, <1>7, <2>1 DEF SplitOff
<1>9. Aside(o2, x, q, E, s)
  <2>1. Aside(o, r, q, E, sub)
    BY DEF PartsOf
  <2>2. ASSUME NEW y \in s[q]
        PROVE  y \notin s[x] /\ \A b \in Sides : y \notin s[o2[b][Hdr]]
    BY <1>5, <1>6, <1>7, <2>1, <2>2 DEF Aside, p
  <2>q. QED
    BY <1>6, <2>1, <2>2 DEF Aside
<1>q. QED
  BY <1>5, <1>6, <1>8, <1>9 DEF PartsOf, U

-----------------------------------------------------------------------------
\* The links and the ends after the root was hung at the end of the part of side d.
LinkedTo(o, o2, d, r, e) ==
  \A b \in Sides : \A m \in SplayKeys \cup {Hdr} :
    o2[b][m] = IF b = d /\ m = e THEN r ELSE IF b = d /\ m = r THEN Nil ELSE o[b][m]

\* The root and what lies behind it lie, seen from the rest of the tree and from the goal,
\* to the side the splay does not go.
LEMMA LeftBehind ==
  ASSUME NEW c, NEW E, NEW sub, Ordered(c, E, sub), NEW r \in E, NEW goal, Leads(goal),
         NEW d \in Sides, goal[r] = d, NEW x, x = c[d][r], NEW z \in sub[r] \ sub[x]
  PROVE  /\ z \in SplayKeys /\ goal[z] = d /\ (z # r => Side(r, z) = d)
         /\ \A y \in sub[x] : y # z /\ Side(y, z) = d
<1>1. r \in SplayKeys
  BY SubFacts
<1>2. z \in SplayKeys /\ (z # r => Side(r, z) = d)
  BY <1>1, OtherSide
<1>3. goal[z] = d
  BY <1>1, <1>2 DEF Leads
<1>4. ASSUME NEW y \in sub[x]
      PROVE  y # z /\ Side(y, z) = d
  <2>1. y # r /\ Side(y, r) = d /\ y \in SplayKeys
    BY ChildFacts, SubFacts
  <2>q. QED
    BY <1>1, <1>2, <2>1, SideFurther
<1>q. QED
  BY <1>2, <1>3, <1>4

\* What such a step leaves below the roots: the root r and what lies behind it are now
\* below the part of side d.
LinkedBelow(o, o2, d, r, x, q, sub, s) ==
  /\ s[x] = sub[x] /\ s[q] = sub[q]
  /\ s[o2[d][Hdr]] = sub[o[d][Hdr]] \cup (sub[r] \ sub[x])
  /\ o2[Other(d)][Hdr] = o[Other(d)][Hdr] /\ s[o[Other(d)][Hdr]] = sub[o[Other(d)][Hdr]]

\* The parts are then split off as before.
LEMMA LinkedParts ==
  ASSUME NEW o, NEW en, NEW r, NEW q, NEW goal, NEW E, NEW sub,
         PartsOf(o, en, r, q, goal, E, sub), r # Nil, Leads(goal),
         NEW d \in Sides, goal[r] = d, NEW x, x = o[d][r],
         NEW o2, NEW s, Forest(o2, E, s, Roots(o2, x, q)), LinkedBelow(o, o2, d, r, x, q, sub, s),
         NEW en2, en2[d] = r, en2[Other(d)] = en[Other(d)]
  PROVE  PartsOf(o2, en2, x, q, goal, E, s)
<1> DEFINE b == Other(d)
           pd == o[d][Hdr]
           pb == o[b][Hdr]
           n == o2[d][Hdr]
<1>1. /\ Ordered(o, E, sub) /\ r \in E /\ r \in sub[r] /\ r \in SplayKeys /\ r # Hdr
      /\ r \notin sub[pd] /\ b \in Sides /\ \A e \in Sides : e = d \/ e = b
  BY PartsFacts, NilFacts, SideFacts
<1>2. sub[x] \subseteq sub[r] /\ r \notin sub[x]
  BY <1>1, ChildFacts
<1>3. /\ s[x] = sub[x] /\ s[q] = sub[q] /\ s[n] = sub[pd] \cup (sub[r] \ sub[x])
      /\ o2[b][Hdr] = pb /\ s[pb] = sub[pb]
  BY DEF LinkedBelow
<1>4. SplitOff(sub, r, pd, en[d], goal, d) /\ SplitOff(sub, r, pb, en[b], goal, b)
  BY <1>1 DEF PartsOf
<1>5. Aside(o, r, q, E, sub)
  BY DEF PartsOf
<1>6. /\ \A y \in sub[q] : y \notin sub[r] /\ y \notin sub[pd] /\ y \notin sub[pb]
      /\ \A z \in E : \A y \in sub[q] : z \notin sub[q] => z < y
  BY <1>1, <1>5 DEF Aside
<1> HIDE DEF b, pd, pb, n
<1>7. ASSUME NEW z \in s[n]
      PROVE  /\ goal[z] = d /\ (z # r => Side(r, z) = d)
             /\ \A y \in s[x] : y # z /\ Side(y, z) = d
  <2>1. CASE z \in sub[pd]
    BY <1>1, <1>2, <1>3, <1>4, <2>1 DEF SplitOff
  <2>2. CASE z \in sub[r] \ sub[x]
    BY <1>1, <1>3, <2>2, LeftBehind
  <2>q. QED
    BY <1>3, <1>7, <2>1, <2>2
<1>8. SplitOff(s, x, n, r, goal, d)
  BY <1>1, <1>2, <1>3, <1>7 DEF SplitOff
<1>9. SplitOff(s, x, pb, en[b], goal, b)
  BY <1>2, <1>3, <1>4 DEF SplitOff
<1>10. ASSUME NEW e \in Sides
       PROVE  SplitOff(s, x, o2[e][Hdr], en2[e], goal, e)
  BY <1>1, <1>3, <1>8, <1>9 DEF n, b
<1>11. \A y \in s[q] : y \notin s[x] /\ y \notin s[n] /\ y \notin s[pb]
  BY <1>2, <1>3, <1>6
<1>12. Aside(o2, x, q, E, s)
  <2>1. \A y \in s[q] : \A e \in Sides : y \notin s[o2[e][Hdr]]
    BY <1>1, <1>3, <1>11 DEF n
  <2>q. QED
    BY <1>3, <1>6, <1>11, <2>1 DEF Aside
<1>q. QED
  BY <1>10, <1>12 DEF PartsOf

\* Without a part of this side the root becomes one.
LEMMA LinkFirst ==
  ASSUME NEW o, NEW en, NEW r, NEW q, NEW goal, NEW E, NEW sub,
         PartsOf(o, en, r, q, goal, E, sub), r # Nil,
         NEW d \in Sides, NEW x, x = o[d][r], en[d] = Hdr, NEW o2, LinkedTo(o, o2, d, r, Hdr)
  PROVE  \E s : Forest(o2, E, s, Roots(o2, x, q)) /\ LinkedBelow(o, o2, d, r, x, q, sub, s)
<1> DEFINE b == Other(d)
           pb == o[b][Hdr]
           c1 == SetLink(o, d, r, Nil)
           s1 == CutOff(sub, r, x)
           T == Roots(o, r, q)
           T1 == T \cup {x}
           U == Roots(o2, x, q)
<1>1. /\ Ordered(o, E, sub) /\ r \in E /\ r \in SplayKeys /\ r # q /\ q \in E \cup {Nil}
      /\ pb \in E \cup {Nil} /\ pb # r /\ b \in Sides /\ d # b /\ \A e \in Sides : e = d \/ e = b
  BY PartsFacts, SideFacts
<1>2. o[d][Hdr] = Nil /\ sub[o[d][Hdr]] = {}
  BY <1>1, SubFacts DEF PartsOf, SplitOff
<1>3. o2[d][Hdr] = r /\ o2[b][Hdr] = pb /\ \A e \in Sides : \A m \in SplayKeys : o2[e][m] = c1[e][m]
  <2>1. Relinked(o, c1, d, r, Nil)
    BY SetLinkIs
  <2> HIDE DEF c1
  <2>q. QED
    BY <1>1, <2>1, NilFacts DEF LinkedTo, Relinked
<1>4. Relinked(o, c1, d, r, Nil) /\ Forest(o, E, sub, T) /\ r \in T
  BY SetLinkIs DEF PartsOf, Roots
<1>5. x \in E \cup {Nil} /\ x # r
  BY <1>1, ChildFacts, NodeFacts, SubFacts
<1>6. U \cup {Nil} = T1 \cup {Nil}
  <2>1. U = {x, q, r, pb}
    BY <1>1, <1>3 DEF Roots, Sides
  <2>2. T1 = {r, q, Nil, pb, x}
    BY <1>1, <1>2 DEF Roots, Sides
  <2>q. QED
    BY <2>1, <2>2
<1> HIDE DEF b, pb, c1, T
<1>7. Forest(c1, E, s1, T1)
  BY <1>4, Cut
<1>8. s1[r] = sub[r] \ sub[x] /\ s1[x] = sub[x] /\ s1[q] = sub[q] /\ s1[pb] = sub[pb]
  BY <1>1, <1>5, CutOffIs
<1> HIDE DEF s1, T1, U
<1>9. Ordered(o2, E, s1) /\ Tops(E, s1, U)
  <2>1. Ordered(c1, E, s1) /\ Tops(E, s1, T1)
    BY <1>7 DEF Forest
  <2>2. s1[Nil] = {}
    BY <2>1, SubFacts
  <2>q. QED
    BY <1>3, <1>6, <2>1, <2>2, SameLinks, SameTops
<1>10. LinkedBelow(o, o2, d, r, x, q, sub, s1)
  BY <1>2, <1>3, <1>8 DEF LinkedBelow, pb, b
<1>q. QED
  BY <1>9, <1>10 DEF Forest, U

\* Else it is hung below the end of the part.
LEMMA LinkNext ==
  ASSUME NEW o, NEW en, NEW r, NEW q, NEW goal, NEW E, NEW sub,
         PartsOf(o, en, r, q, goal, E, sub), r # Nil,
         NEW d \in Sides, NEW x, x = o[d][r], NEW e, e = en[d], e # Hdr, o[d][e] = Nil,
         NEW o2, LinkedTo(o, o2, d, r, e)
  PROVE  \E s : Forest(o2, E, s, Roots(o2, x, q)) /\ LinkedBelow(o, o2, d, r, x, q, sub, s)
<1> DEFINE b == Other(d)
           pd == o[d][Hdr]
           pb == o[b][Hdr]
           c1 == SetLink(o, d, r, Nil)
           s1 == CutOff(sub, r, x)
           T == Roots(o, r, q)
           T1 == T \cup {x}
           s2 == Hung(s1, e, r)
           T2 == (T1 \ {r}) \cup {Nil}
           U == Roots(o2, x, q)
<1>1. /\ Ordered(o, E, sub) /\ r \in E /\ r \in SplayKeys /\ r # q /\ q \in E \cup {Nil}
      /\ pb \in E \cup {Nil} /\ pb # r /\ pd \in E \cup {Nil} /\ pd # r
      /\ b \in Sides /\ d # b /\ \A z \in Sides : z = d \/ z = b
  BY PartsFacts, SideFacts
<1>2. /\ e \in sub[pd] /\ \A y \in sub[pd] : y # e => Side(e, y) = d
      /\ \A y \in sub[pd] : \A z \in sub[r] : z # y /\ Side(z, y) = d
  BY DEF PartsOf, SplitOff
<1>3. /\ pd # Nil /\ pd # q /\ pd # pb
  <2>1. pd # Nil
    BY <1>1, <1>2, SubFacts
  <2>q. QED
    BY <2>1, PartsFacts
<1>4. e \in SplayKeys /\ e # r /\ e \notin sub[r] /\ r \in sub[r]
  BY <1>1, <1>2, SubFacts, NodeFacts
<1>5. x \in E \cup {Nil} /\ x # r /\ sub[x] \subseteq sub[r]
  BY <1>1, ChildFacts, NodeFacts, SubFacts
<1>6. Relinked(o, c1, d, r, Nil) /\ Forest(o, E, sub, T) /\ r \in T
  BY SetLinkIs DEF PartsOf, Roots
<1>7. pd \in T /\ pb \in T /\ q \in T
  BY <1>1 DEF Roots, Sides
<1>8. c1[d][e] = Nil /\ Relinked(c1, o2, d, e, r) /\ o2[d][Hdr] = pd /\ o2[b][Hdr] = pb
  <2> HIDE DEF c1
  <2>1. c1[d][e] = Nil
    BY <1>4, <1>6 DEF Relinked
  <2>2. Relinked(c1, o2, d, e, r)
    BY <1>4, <1>6 DEF LinkedTo, Relinked
  <2>3. o2[d][Hdr] = pd /\ o2[b][Hdr] = pb
    BY <1>1, <1>4, NilFacts DEF LinkedTo
  <2>q. QED
    BY <2>1, <2>2, <2>3
<1>9. U \cup {Nil} = T2 \cup {Nil}
  <2>1. U = {x, q, pd, pb}
    BY <1>1, <1>8 DEF Roots, Sides
  <2>2. T = {r, q, pd, pb}
    BY <1>1 DEF Roots, Sides
  <2> HIDE DEF pd, pb, U, T
  <2>q. QED
    BY <1>1, <1>5, <2>1, <2>2
<1> HIDE DEF b, pd, pb, c1, T
<1>10. Forest(c1, E, s1, T1)
  BY <1>6, Cut
<1>11. /\ s1[r] = sub[r] \ sub[x] /\ s1[x] = sub[x] /\ s1[q] = sub[q] /\ s1[pb] = sub[pb]
       /\ s1[pd] = sub[pd]
  BY <1>1, <1>5, CutOffIs
<1> HIDE DEF s1
<1>12. Forest(o2, E, s2, T2)
  <2>1. pd \in T1 /\ e \in s1[pd] /\ r \in T1 /\ r # pd
    BY <1>1, <1>2, <1>6, <1>7, <1>11
  <2>2. /\ \A y \in s1[pd] : y # e => Side(e, y) = d
        /\ \A y \in s1[pd] : \A z \in s1[r] : z # y /\ Side(z, y) = d
    BY <1>2, <1>11
  <2> HIDE DEF T1
  <2>q. QED
    BY <1>8, <1>10, <2>1, <2>2, Hang
<1>13. e \notin s1[x] /\ e \notin s1[q] /\ e \notin s1[pb] /\ e \in s1[pd]
  <2>1. \A t, u \in T : t # u => sub[t] \cap sub[u] = {}
    BY <1>6 DEF Forest, Tops
  <2>2. e \notin sub[q] /\ e \notin sub[pb]
    BY <1>2, <1>3, <1>7, <2>1
  <2>q. QED
    BY <1>2, <1>4, <1>5, <1>11, <2>2
<1>14. s2[x] = sub[x] /\ s2[q] = sub[q] /\ s2[pb] = sub[pb] /\ s2[pd] = sub[pd] \cup (sub[r] \ sub[x])
  <2>1. Ordered(c1, E, s1)
    BY <1>10 DEF Forest
  <2>2. \A m \in E \cup {Nil} :
          /\ e \in s1[m] => s2[m] = s1[m] \cup s1[r]
          /\ e \notin s1[m] => s2[m] = s1[m]
    BY <2>1, HungIs
  <2> HIDE DEF s2
  <2>q. QED
    BY <1>1, <1>5, <1>11, <1>13, <2>2
<1> HIDE DEF s2, T2, U
<1>15. Ordered(o2, E, s2) /\ Tops(E, s2, U)
  <2>1. Ordered(o2, E, s2) /\ Tops(E, s2, T2)
    BY <1>12 DEF Forest
  <2>2. s2[Nil] = {}
    BY <2>1, SubFacts
  <2>q. QED
    BY <1>9, <2>1, <2>2, SameTops
<1>16. LinkedBelow(o, o2, d, r, x, q, sub, s2)
  BY <1>8, <1>14 DEF LinkedBelow, pd, pb, b
<1>q. QED
  BY <1>15, <1>16 DEF Forest, U

\* The splay goes down: what the root leaves behind is split off.
LEMMA LinkKeepsParts ==
  ASSUME NEW o, NEW en, NEW r, NEW q, NEW goal, NEW E, NEW sub,
         PartsOf(o, en, r, q, goal, E, sub), r # Nil, Leads(goal),
         NEW d \in Sides, goal[r] = d, NEW x, x = o[d][r], o[d][en[d]] = Nil,
         NEW o2, LinkedTo(o, o2, d, r, en[d]), NEW en2, en2[d] = r, en2[Other(d)] = en[Other(d)]
  PROVE  \E s : PartsOf(o2, en2, x, q, goal, E, s) /\ s[q] = sub[q]
<1>1. PICK s : Forest(o2, E, s, Roots(o2, x, q)) /\ LinkedBelow(o, o2, d, r, x, q, sub, s)
  <2>1. CASE en[d] = Hdr
    BY <2>1, LinkFirst
  <2>2. CASE en[d] # Hdr
    BY <2>2, LinkNext
  <2>q. QED
    BY <2>1, <2>2
<1>2. PartsOf(o2, en2, x, q, goal, E, s)
  BY <1>1, LinkedParts
<1>q. QED
  BY <1>1, <1>2 DEF LinkedBelow

-----------------------------------------------------------------------------
\* The links after SPLAY_ASSEMBLE: the children of the root go to the ends of the parts, and
\* the parts below the root.
Assembled(o, o2, en, r) ==
  \A b \in Sides :
    /\ o2[b][Hdr] = Nil
    /\ \A m \in SplayKeys :
         o2[b][m] = IF m = r THEN IF en[Other(b)] = Hdr THEN o[b][r] ELSE o[Other(b)][Hdr]
                    ELSE IF m = en[b] THEN o[Other(b)][r] ELSE o[b][m]

\* It does to one side what Mend does, and then to the other.
LEMMA AssembleSides ==
  ASSUME NEW o, NEW o2, NEW en, NEW r \in SplayKeys, \A b \in Sides : en[b] # r,
         Assembled(o, o2, en, r)
  PROVE  \E c1 : Mended(o, c1, "L", r, o["L"][Hdr], en["L"]) /\ Mended(c1, o2, "R", r, o["R"][Hdr], en["R"])
<1> DEFINE el == en["L"]
           er == en["R"]
           pl == o["L"][Hdr]
           pr == o["R"][Hdr]
           c1 == [b \in Sides |-> [m \in SplayKeys |->
                   IF el # Hdr /\ b = "R" /\ m = r THEN pl
                   ELSE IF el # Hdr /\ b = "L" /\ m = el THEN o["R"][r] ELSE o[b][m]]]
<1>1. \A m \in SplayKeys :
        /\ c1["R"][m] = IF el # Hdr /\ m = r THEN pl ELSE o["R"][m]
        /\ c1["L"][m] = IF el # Hdr /\ m = el THEN o["R"][r] ELSE o["L"][m]
  BY SideFacts
<1>2. Mended(o, c1, "L", r, pl, el)
  BY SideFacts DEF Mended
<1>3. \A m \in SplayKeys :
        /\ o2["R"][m] = IF m = r THEN IF el = Hdr THEN o["R"][r] ELSE pl
                        ELSE IF m = er THEN o["L"][r] ELSE o["R"][m]
        /\ o2["L"][m] = IF m = r THEN IF er = Hdr THEN o["L"][r] ELSE pr
                        ELSE IF m = el THEN o["R"][r] ELSE o["L"][m]
  BY SideFacts DEF Assembled
<1>4. el # r /\ er # r
  BY SideFacts
<1> HIDE DEF c1, el, er, pl, pr
<1>5. \A m \in SplayKeys :
        /\ o2["R"][m] = IF er # Hdr /\ m = er THEN c1["L"][r] ELSE c1["R"][m]
        /\ o2["L"][m] = IF er # Hdr /\ m = r THEN pr ELSE c1["L"][m]
  BY <1>1, <1>3, <1>4, NilFacts
<1>6. Mended(c1, o2, "R", r, pr, er)
  BY <1>5, SideFacts DEF Mended, Sides
<1>q. QED
  BY <1>2, <1>6 DEF el, er, pl, pr

\* The parts and the tree between them become one tree again.
LEMMA AssembleKeepsParts ==
  ASSUME NEW o, NEW en, NEW r, NEW q, NEW goal, NEW E, NEW sub,
         PartsOf(o, en, r, q, goal, E, sub), r # Nil,
         NEW o2, Assembled(o, o2, en, r), NEW en2, \A b \in Sides : en2[b] = Hdr
  PROVE  \E s : /\ PartsOf(o2, en2, r, q, goal, E, s)
                /\ s[r] = sub[r] \cup sub[o["L"][Hdr]] \cup sub[o["R"][Hdr]] /\ s[q] = sub[q]
<1> DEFINE pl == o["L"][Hdr]
           pr == o["R"][Hdr]
           T == Roots(o, r, q)
           U1 == (T \ {pl}) \cup {Nil}
           U2 == (U1 \ {pr}) \cup {Nil}
           U == Roots(o2, r, q)
<1>1. /\ Ordered(o, E, sub) /\ r \in E /\ r \in SplayKeys /\ r \in sub[r] /\ r # q /\ q \in E \cup {Nil}
      /\ pl # r /\ pr # r /\ (pl = q => q = Nil) /\ (pr = q => q = Nil) /\ (pl = pr => pl = Nil)
      /\ r \notin sub[pl] /\ r \notin sub[pr] /\ sub[pl] \subseteq SplayKeys /\ sub[pr] \subseteq SplayKeys
  <2>1. /\ Ordered(o, E, sub) /\ r \in E /\ r \in SplayKeys /\ r \in sub[r] /\ r # q /\ q \in E \cup {Nil}
        /\ \A d \in Sides :
              /\ o[d][Hdr] \in E \cup {Nil} /\ o[d][Hdr] # r /\ r \notin sub[o[d][Hdr]]
              /\ o[d][Hdr] = q => q = Nil
              /\ o[d][Hdr] = o[Other(d)][Hdr] => o[d][Hdr] = Nil
    BY PartsFacts
  <2>2. sub[pl] \subseteq SplayKeys /\ sub[pr] \subseteq SplayKeys
    BY <2>1, SideFacts, SubFacts, NilFacts
  <2>q. QED
    BY <2>1, <2>2, SideFacts
<1>2. SplitOff(sub, r, pl, en["L"], goal, "L") /\ SplitOff(sub, r, pr, en["R"], goal, "R")
  BY SideFacts DEF PartsOf
<1>3. \A b \in Sides : en[b] # r
  <2>1. en["L"] # r /\ en["R"] # r
    BY <1>1, <1>2, NilFacts DEF SplitOff
  <2>q. QED
    BY <2>1 DEF Sides
<1>4. Forest(o, E, sub, T) /\ T = {r, q, pl, pr}
  BY DEF PartsOf, Roots
<1>5. U = {r, q, Nil}
  <2>1. o2["L"][Hdr] = Nil /\ o2["R"][Hdr] = Nil
    BY SideFacts DEF Assembled
  <2>q. QED
    BY <2>1 DEF Roots
<1> HIDE DEF pl, pr, T, U
<1>6. U2 \cup {Nil} = U \cup {Nil} /\ r \in U1 /\ pr \in U1 /\ q \in U1 /\ r # Nil
  <2>1. r \in U1 /\ pr \in U1 /\ q \in U1
    BY <1>1, <1>4
  <2>2. U2 \cup {Nil} = {r, q, Nil}
    BY <1>1, <1>4
  <2>q. QED
    BY <1>5, <2>1, <2>2
<1> HIDE DEF U1, U2
<1>7. PICK c1 : Mended(o, c1, "L", r, pl, en["L"]) /\ Mended(c1, o2, "R", r, pr, en["R"])
  BY <1>1, <1>3, AssembleSides DEF pl, pr
<1>8. PICK s1 : /\ Forest(c1, E, s1, U1) /\ s1[r] = sub[r] \cup sub[pl]
                /\ \A t \in T : t # r /\ t # pl => s1[t] = sub[t]
  <2>1. r \in T /\ pl \in T /\ "L" \in Sides
    BY <1>4, SideFacts
  <2>2. PICK e : e = en["L"]
    OBVIOUS
  <2>3. SplitOff(sub, r, pl, e, goal, "L") /\ Mended(o, c1, "L", r, pl, e)
    BY <1>2, <1>7, <2>2
  <2>4. U1 = (T \ {pl}) \cup {Nil} /\ r # Nil /\ Forest(o, E, sub, T)
    BY <1>4, <1>6 DEF U1
  <2>q. QED
    BY <2>1, <2>3, <2>4, Mend
<1>9. Ordered(c1, E, s1) /\ s1[Nil] = {} /\ sub[Nil] = {}
  BY <1>1, <1>8, SubFacts DEF Forest
<1>10. s1[pr] = sub[pr] /\ s1[q] = sub[q]
  <2>1. pr = Nil \/ (pr \in T /\ pr # r /\ pr # pl)
    BY <1>1, <1>4
  <2>2. q = Nil \/ (q \in T /\ q # r /\ q # pl)
    BY <1>1, <1>4
  <2>q. QED
    BY <1>8, <1>9, <2>1, <2>2
<1>11. SplitOff(s1, r, pr, en["R"], goal, "R")
  <2>1. ASSUME NEW x \in sub[pr], NEW y \in sub[pl]
        PROVE  y # x /\ Side(y, x) = "R"
    <3>1. /\ r # y /\ Side(r, y) = "L" /\ r # x /\ Side(r, x) = "R"
          /\ x \in SplayKeys /\ y \in SplayKeys
      BY <1>1, <1>2, <2>1 DEF SplitOff
    <3>2. Side(y, r) = "R"
      BY <1>1, <3>1, SideFacts, SideFlip
    <3>q. QED
      BY <1>1, <3>1, <3>2, SideFacts, SideFurther
  <2>2. \A x \in sub[pr] : \A y \in s1[r] : y # x /\ Side(y, x) = "R"
    BY <1>2, <1>8, <2>1 DEF SplitOff
  <2>q. QED
    BY <1>2, <1>10, <2>2 DEF SplitOff
<1>12. PICK s : /\ Forest(o2, E, s, U2) /\ s[r] = s1[r] \cup s1[pr]
                /\ \A t \in U1 : t # r /\ t # pr => s[t] = s1[t]
  <2>1. "R" \in Sides
    BY SideFacts
  <2>2. PICK e : e = en["R"]
    OBVIOUS
  <2>3. SplitOff(s1, r, pr, e, goal, "R") /\ Mended(c1, o2, "R", r, pr, e)
    BY <1>7, <1>11, <2>2
  <2>4. U2 = (U1 \ {pr}) \cup {Nil} /\ r # Nil /\ r \in U1 /\ pr \in U1 /\ Forest(c1, E, s1, U1)
    BY <1>6, <1>8 DEF U2
  <2>q. QED
    BY <2>1, <2>3, <2>4, Mend
<1>13. s[q] = sub[q] /\ s[r] = sub[r] \cup sub[pl] \cup sub[pr] /\ s[Nil] = {}
  <2>1. Ordered(o2, E, s)
    BY <1>12 DEF Forest
  <2>2. s[Nil] = {}
    BY <2>1, SubFacts
  <2>3. q = Nil \/ (q # r /\ q # pr)
    BY <1>1
  <2>4. s[q] = sub[q]
    BY <1>6, <1>9, <1>10, <1>12, <2>2, <2>3
  <2>q. QED
    BY <1>8, <1>10, <1>12, <2>2, <2>4
<1>14. Forest(o2, E, s, U)
  <2>1. Ordered(o2, E, s) /\ Tops(E, s, U2)
    BY <1>12 DEF Forest
  <2>q. QED
    BY <1>6, <1>13, <2>1, SameTops DEF Forest
<1>15. \A b \in Sides : o2[b][Hdr] = Nil
  BY DEF Assembled
<1>16. ASSUME NEW b \in Sides
       PROVE  SplitOff(s, r, o2[b][Hdr], en2[b], goal, b)
  BY <1>13, <1>15 DEF SplitOff
<1>17. Aside(o2, r, q, E, s)
  <2>1. Aside(o, r, q, E, sub)
    BY DEF PartsOf
  <2>2. \A y \in sub[q] : y \notin sub[r] /\ y \notin sub[pl] /\ y \notin sub[pr]
    BY <2>1, SideFacts DEF Aside, pl, pr
  <2>3. \A y \in s[q] : y \notin s[r] /\ \A b \in Sides : y \notin s[o2[b][Hdr]]
    BY <1>13, <1>15, <2>2
  <2>q. QED
    BY <1>13, <2>1, <2>3 DEF Aside
<1>18. PartsOf(o2, en2, r, q, goal, E, s)
  BY <1>14, <1>16, <1>17 DEF PartsOf, U
<1>q. QED
  BY <1>13, <1>18 DEF pl, pr

-----------------------------------------------------------------------------
(* The links as they are set *)

LinkTables == [Sides -> [SplayKeys \cup {Hdr} -> SplayLinks]]
EndTables == [Sides -> SplayKeys \cup {Hdr}]

\* The links c without those where the parts end.
Masked(c, en) ==
  [d \in Sides |-> [n \in SplayKeys \cup {Hdr} |-> IF n = en[d] THEN Nil ELSE c[d][n]]]

\* What the links count as.
LEMMA MaskedIs ==
  ASSUME NEW c, NEW en, NEW d \in Sides, NEW n \in SplayKeys \cup {Hdr}
  PROVE  Masked(c, en)[d][n] = IF n = en[d] THEN Nil ELSE c[d][n]
  BY DEF Masked

\* The links c2 are c but for one, or for one of each side.
OneLink(c, c2, d, n, x) ==
  /\ c2 \in LinkTables
  /\ \A b \in Sides : \A m \in SplayKeys \cup {Hdr} :
       c2[b][m] = IF b = d /\ m = n THEN x ELSE c[b][m]

TwoLinks(c, c2, d, n, x, e, k, y) ==
  /\ c2 \in LinkTables
  /\ \A b \in Sides : \A m \in SplayKeys \cup {Hdr} :
       c2[b][m] = IF b = d /\ m = n THEN x ELSE IF b = e /\ m = k THEN y ELSE c[b][m]

\* EXCEPT changes one link.
LEMMA OneLinkIs ==
  ASSUME NEW c \in LinkTables, NEW d \in Sides, NEW n \in SplayKeys \cup {Hdr}, NEW x \in SplayLinks
  PROVE  OneLink(c, [c EXCEPT ![d][n] = x], d, n, x)
  BY DEF LinkTables, OneLink

\* EXCEPT changes one link of each side.
LEMMA TwoLinksIs ==
  ASSUME NEW c \in LinkTables, NEW d \in Sides, NEW n \in SplayKeys \cup {Hdr}, NEW x \in SplayLinks,
         NEW e \in Sides, e # d, NEW k \in SplayKeys \cup {Hdr}, NEW y \in SplayLinks
  PROVE  TwoLinks(c, [c EXCEPT ![d][n] = x, ![e][k] = y], d, n, x, e, k, y)
<1> DEFINE c1 == [c EXCEPT ![d][n] = x]
           c2 == [c1 EXCEPT ![e][k] = y]
<1>1. OneLink(c, c1, d, n, x)
  BY DEF LinkTables, OneLink
<1>2. OneLink(c1, c2, e, k, y)
  <2>1. c1 \in LinkTables
    BY <1>1 DEF OneLink
  <2> HIDE DEF c1
  <2>q. QED
    BY <2>1 DEF LinkTables, OneLink
<1>3. [c EXCEPT ![d][n] = x, ![e][k] = y] = c2
  BY DEF LinkTables
<1> HIDE DEF c1, c2
<1>4. TwoLinks(c, c2, d, n, x, e, k, y)
  BY <1>1, <1>2 DEF OneLink, TwoLinks
<1>q. QED
  BY <1>3, <1>4

\* No part ends at a node that is left of the tree.
LEMMA EndsApart ==
  ASSUME NEW o, NEW en, NEW r, NEW q, NEW goal, NEW E, NEW sub,
         PartsOf(o, en, r, q, goal, E, sub), NEW n \in sub[r], NEW d \in Sides, n \in SplayKeys
  PROVE  n # en[d]
<1>1. SplitOff(sub, r, o[d][Hdr], en[d], goal, d)
  BY DEF PartsOf
<1>q. QED
  BY <1>1, NilFacts DEF SplitOff

\* An iteration of the splay at r: it rotates if the goal is further on the same side, and
\* goes on with the root r2 and the links c2.
TurnedTo(c, goal, d, r, c2, r2) ==
  LET x == c[d][r]
  IN /\ goal[r] = d /\ x # Nil
     /\ IF goal[x] = d THEN /\ r2 = x
                            /\ c2 = [c EXCEPT ![d][r] = c[Other(d)][x], ![Other(d)][x] = r]
        ELSE r2 = r /\ c2 = c

\* SPLAY_ROTATE_RIGHT and SPLAY_ROTATE_LEFT at the root, or no rotation, keep the parts; the
\* new root has the goal on the same side.
LEMMA TurnKeepsParts ==
  ASSUME NEW c \in LinkTables, NEW en, NEW r, NEW q, NEW goal, NEW E, NEW sub,
         PartsOf(Masked(c, en), en, r, q, goal, E, sub), r # Nil,
         NEW d \in Sides, NEW c2, NEW r2, TurnedTo(c, goal, d, r, c2, r2)
  PROVE  /\ c2 \in LinkTables /\ r2 \in SplayKeys /\ goal[r2] = d
         /\ \E s : /\ PartsOf(Masked(c2, en), en, r2, q, goal, E, s)
                   /\ s[r2] = sub[r] /\ s[q] = sub[q]
<1> DEFINE o == Masked(c, en)
           o2 == Masked(c2, en)
           x == c[d][r]
           b == Other(d)
<1>1. /\ Ordered(o, E, sub) /\ r \in E /\ r \in SplayKeys /\ r \in sub[r]
      /\ goal[r] = d /\ x # Nil
  BY PartsFacts DEF TurnedTo
<1>2. CASE goal[x] # d
  BY <1>1, <1>2 DEF TurnedTo
<1>3. CASE goal[x] = d
  <2>1. b \in Sides /\ b # d /\ r \in SplayKeys \cup {Hdr} /\ r \in SplayLinks
    BY <1>1, SideFacts, NilFacts
  <2>2. x \in SplayKeys
    BY <1>1, <2>1 DEF LinkTables, SplayLinks
  <2>3. \A a \in Sides : r # en[a]
    BY <1>1, EndsApart
  <2>4. o[d][r] = x
    BY <2>1, <2>3, MaskedIs
  <2>5. x \in E /\ x \in sub[r]
    <3> HIDE DEF o, x
    <3>1. x \in E \cup {Nil} /\ sub[x] \subseteq sub[r]
      BY <1>1, <2>4, ChildFacts
    <3>q. QED
      BY <1>1, <2>2, <3>1, NodeFacts, NilFacts
  <2>6. \A a \in Sides : x # en[a]
    BY <2>2, <2>5, EndsApart
  <2>7. o[b][x] = c[b][x] /\ c[b][x] \in SplayLinks
    <3>1. o[b][x] = c[b][x]
      BY <2>1, <2>2, <2>6, MaskedIs
    <3>2. c[b][x] \in SplayLinks
      BY <2>1, <2>2 DEF LinkTables
    <3>q. QED
      BY <3>1, <3>2
  <2>8. r2 = x /\ c2 = [c EXCEPT ![d][r] = c[b][x], ![b][x] = r]
    BY <1>3 DEF TurnedTo
  <2> HIDE DEF x, b, o2, o
  <2>9. /\ c2 \in LinkTables
        /\ \A a \in Sides : \A m \in SplayKeys \cup {Hdr} :
             c2[a][m] = IF a = d /\ m = r THEN c[b][x] ELSE IF a = b /\ m = x THEN r ELSE c[a][m]
    <3>1. x \in SplayKeys \cup {Hdr}
      BY <2>2
    <3>2. TwoLinks(c, [c EXCEPT ![d][r] = c[b][x], ![b][x] = r], d, r, c[b][x], b, x, r)
      BY <2>1, <2>7, <3>1, TwoLinksIs
    <3>q. QED
      BY <2>8, <3>2 DEF TwoLinks
  <2>10. /\ \A a \in Sides : \A m \in SplayKeys \cup {Hdr} :
              /\ o[a][m] = IF m = en[a] THEN Nil ELSE c[a][m]
              /\ o2[a][m] = IF m = en[a] THEN Nil ELSE c2[a][m]
    BY MaskedIs DEF o, o2
  <2>11. Turned(o, o2, d, r, x)
    <3>1. \A a \in Sides : \A m \in SplayKeys :
            o2[a][m] = IF a = d /\ m = r THEN o[b][x] ELSE IF a = b /\ m = x THEN r ELSE o[a][m]
      BY <2>3, <2>6, <2>7, <2>9, <2>10
    <3>2. x # Nil
      BY <2>2, NilFacts
    <3>q. QED
      BY <2>4, <3>1, <3>2 DEF Turned, b
  <2>12. \A a \in Sides : o2[a][Hdr] = o[a][Hdr]
    <3>1. Hdr # r /\ Hdr # x
      BY <2>1, <2>2, <1>1, NilFacts
    <3>q. QED
      BY <2>9, <2>10, <3>1
  <2>13. \E s : PartsOf(o2, en, x, q, goal, E, s) /\ s[x] = sub[r] /\ s[q] = sub[q]
    <3>1. PartsOf(o, en, r, q, goal, E, sub)
      BY DEF o
    <3>q. QED
      BY <2>11, <2>12, <3>1, RotateKeepsParts
  <2>q. QED
    BY <1>3, <2>2, <2>8, <2>9, <2>13 DEF o2, x
<1>q. QED
  BY <1>2, <1>3

\* The root r is hung at the end of the part of side d, and the end is moved.
Linking(c, en, d, r, c2, en2) ==
  c2 = [c EXCEPT ![d][en[d]] = r] /\ en2 = [en EXCEPT ![d] = r]

\* SPLAY_LINKLEFT and SPLAY_LINKRIGHT hang the root at the end of a part, and the link of the
\* root to the next one no longer counts.
LEMMA LinkMasked ==
  ASSUME NEW c \in LinkTables, NEW en \in EndTables, NEW d \in Sides, NEW r \in SplayKeys,
         \A b \in Sides : r # en[b],
         NEW c2, NEW en2, Linking(c, en, d, r, c2, en2)
  PROVE  /\ c2 \in LinkTables /\ en2 \in EndTables
         /\ en2[d] = r /\ en2[Other(d)] = en[Other(d)]
         /\ LinkedTo(Masked(c, en), Masked(c2, en2), d, r, en[d])
<1> DEFINE e == en[d]
           o == Masked(c, en)
           o2 == Masked(c2, en2)
<1>1. e \in SplayKeys \cup {Hdr} /\ r \in SplayLinks /\ r \in SplayKeys \cup {Hdr} /\ r # e
  BY NilFacts DEF EndTables
<1>2. en2 \in EndTables /\ \A b \in Sides : en2[b] = IF b = d THEN r ELSE en[b]
  BY DEF EndTables, Linking
<1>3. OneLink(c, [c EXCEPT ![d][e] = r], d, e, r)
  <2> HIDE DEF e
  <2>q. QED
    BY <1>1, OneLinkIs
<1>4. /\ c2 \in LinkTables
      /\ \A b \in Sides : \A m \in SplayKeys \cup {Hdr} :
           c2[b][m] = IF b = d /\ m = e THEN r ELSE c[b][m]
  BY <1>3 DEF OneLink, Linking
<1>5. \A b \in Sides : \A m \in SplayKeys \cup {Hdr} :
        /\ o[b][m] = IF m = en[b] THEN Nil ELSE c[b][m]
        /\ o2[b][m] = IF m = en2[b] THEN Nil ELSE c2[b][m]
  BY DEF Masked
<1> HIDE DEF e, o, o2
<1>6. ASSUME NEW b \in Sides, NEW m \in SplayKeys \cup {Hdr}
      PROVE  o2[b][m] = IF b = d /\ m = e THEN r ELSE IF b = d /\ m = r THEN Nil ELSE o[b][m]
  <2>1. CASE b = d
    <3>1. o2[b][m] = IF m = r THEN Nil ELSE IF m = e THEN r ELSE c[b][m]
      BY <1>2, <1>4, <1>5, <2>1
    <3>2. o[b][m] = IF m = e THEN Nil ELSE c[b][m]
      BY <1>5, <2>1 DEF e
    <3>q. QED
      BY <1>1, <2>1, <3>1, <3>2
  <2>2. CASE b # d
    BY <1>2, <1>4, <1>5, <2>2
  <2>q. QED
    BY <2>1, <2>2
<1>7. LinkedTo(o, o2, d, r, e)
  BY <1>6 DEF LinkedTo
<1>q. QED
  BY <1>2, <1>4, <1>7, SideFacts DEF e, o, o2

\* The links that SPLAY_ASSEMBLE sets, with hung after its first two assignments.
Mending(c, en, r, hung, c2) ==
  /\ hung = [c EXCEPT !["R"][en["R"]] = c["L"][r], !["L"][en["L"]] = c["R"][r]]
  /\ c2 = [hung EXCEPT !["L"][r] = hung["R"][Hdr], !["R"][r] = hung["L"][Hdr],
                       !["L"][Hdr] = Nil, !["R"][Hdr] = Nil]

\* SPLAY_ASSEMBLE leaves links that count as those of the assembled tree, with the header empty.
LEMMA AssembleMasked ==
  ASSUME NEW c \in LinkTables, NEW en \in EndTables, NEW r \in SplayKeys,
         \A b \in Sides : r # en[b], NEW hung, NEW c2, Mending(c, en, r, hung, c2)
  PROVE  /\ c2 \in LinkTables
         /\ Assembled(Masked(c, en), Masked(c2, [d \in Sides |-> Hdr]), en, r)
<1> DEFINE el == en["L"]
           er == en["R"]
           x == c["L"][r]
           y == c["R"][r]
           pl == hung["L"][Hdr]
           pr == hung["R"][Hdr]
           c1 == [hung EXCEPT !["L"][r] = pr, !["R"][r] = pl]
           c3 == [c1 EXCEPT !["L"][Hdr] = Nil, !["R"][Hdr] = Nil]
           o == Masked(c, en)
           o2 == Masked(c2, [d \in Sides |-> Hdr])
<1>1. /\ "L" \in Sides /\ "R" \in Sides /\ "L" # "R" /\ r \in SplayKeys \cup {Hdr} /\ r # Hdr
      /\ Hdr \in SplayKeys \cup {Hdr} /\ Nil \in SplayLinks
  BY SideFacts, NilFacts
<1>2. /\ el \in SplayKeys \cup {Hdr} /\ er \in SplayKeys \cup {Hdr} /\ el # r /\ er # r
      /\ x \in SplayLinks /\ y \in SplayLinks
  BY <1>1 DEF EndTables, LinkTables
<1>3. hung = [c EXCEPT !["R"][er] = x, !["L"][el] = y]
  BY DEF Mending
<1>4. TwoLinks(c, [c EXCEPT !["R"][er] = x, !["L"][el] = y], "R", er, x, "L", el, y)
  <2> HIDE DEF er, el, x, y
  <2>q. QED
    BY <1>1, <1>2, TwoLinksIs
<1>5. /\ hung \in LinkTables
      /\ \A m \in SplayKeys \cup {Hdr} :
           /\ hung["R"][m] = IF m = er THEN x ELSE c["R"][m]
           /\ hung["L"][m] = IF m = el THEN y ELSE c["L"][m]
  <2> HIDE DEF er, el, x, y
  <2>1. TwoLinks(c, hung, "R", er, x, "L", el, y)
    BY <1>3, <1>4
  <2>q. QED
    BY <1>1, <2>1 DEF TwoLinks
<1>6. pl \in SplayLinks /\ pr \in SplayLinks
  BY <1>1, <1>5 DEF LinkTables
<1>7. c2 = c3
  <2>1. c2 = [hung EXCEPT !["L"][r] = pr, !["R"][r] = pl, !["L"][Hdr] = Nil, !["R"][Hdr] = Nil]
    BY DEF Mending
  <2> HIDE DEF pl, pr
  <2>q. QED
    BY <1>5, <2>1 DEF LinkTables
<1> HIDE DEF er, el, x, y, pl, pr
<1>8. TwoLinks(hung, c1, "L", r, pr, "R", r, pl)
  BY <1>1, <1>5, <1>6, TwoLinksIs
<1>9. /\ c1 \in LinkTables
      /\ \A m \in SplayKeys \cup {Hdr} :
           /\ c1["L"][m] = IF m = r THEN pr ELSE hung["L"][m]
           /\ c1["R"][m] = IF m = r THEN pl ELSE hung["R"][m]
  <2> HIDE DEF c1
  <2>q. QED
    BY <1>1, <1>8 DEF TwoLinks
<1> HIDE DEF c1
<1>10. TwoLinks(c1, c3, "L", Hdr, Nil, "R", Hdr, Nil)
  BY <1>1, <1>9, TwoLinksIs
<1> HIDE DEF c3
<1>11. /\ c2 \in LinkTables
       /\ \A m \in SplayKeys :
            /\ c2["L"][m] = IF m = r THEN pr ELSE IF m = el THEN y ELSE c["L"][m]
            /\ c2["R"][m] = IF m = r THEN pl ELSE IF m = er THEN x ELSE c["R"][m]
  <2>1. /\ c2 \in LinkTables
        /\ \A m \in SplayKeys : c2["L"][m] = c1["L"][m] /\ c2["R"][m] = c1["R"][m]
    BY <1>1, <1>7, <1>10, NilFacts DEF TwoLinks
  <2>q. QED
    BY <1>5, <1>9, <2>1
<1>12. /\ pr = IF er = Hdr THEN x ELSE c["R"][Hdr]
       /\ pl = IF el = Hdr THEN y ELSE c["L"][Hdr]
  BY <1>1, <1>5 DEF pr, pl
<1>13. \A m \in SplayKeys \cup {Hdr} :
         /\ o["L"][m] = IF m = el THEN Nil ELSE c["L"][m]
         /\ o["R"][m] = IF m = er THEN Nil ELSE c["R"][m]
  BY <1>1, MaskedIs DEF el, er
<1>14. /\ \A b \in Sides : o2[b][Hdr] = Nil
       /\ \A m \in SplayKeys : o2["L"][m] = c2["L"][m] /\ o2["R"][m] = c2["R"][m]
  BY <1>1, MaskedIs, NilFacts
<1> HIDE DEF o, o2
<1>15. o["L"][r] = x /\ o["R"][r] = y
  BY <1>1, <1>2, <1>13 DEF x, y
<1>16. ASSUME NEW m \in SplayKeys
       PROVE  /\ o2["L"][m] = IF m = r THEN IF er = Hdr THEN o["L"][r] ELSE o["R"][Hdr]
                              ELSE IF m = el THEN o["R"][r] ELSE o["L"][m]
              /\ o2["R"][m] = IF m = r THEN IF el = Hdr THEN o["R"][r] ELSE o["L"][Hdr]
                              ELSE IF m = er THEN o["L"][r] ELSE o["R"][m]
  BY <1>1, <1>11, <1>12, <1>13, <1>14, <1>15
<1>17. Assembled(o, o2, en, r)
  BY <1>14, <1>16, SideFacts DEF Assembled, Sides, el, er
<1>q. QED
  BY <1>11, <1>17 DEF o, o2

-----------------------------------------------------------------------------
(* The invariant *)

\* The operation j that is under way, in a tree with the nodes E and the root r.
OperationOf(j, ea, r, E) ==
  /\ j \in [op : {"insert", "remove", "find", "next", "min", "max", "visit"},
            arg : SplayLinks, at : {"splay", "splayed", "join", "joined"}]
  /\ j.op \in {"insert", "remove", "find"} => j.arg \in SplayKeys
  /\ j.op = "next" => j.arg \in E
  /\ j.op \in {"min", "max"} => j.arg = Nil
  /\ IF j.op = "visit" THEN j.arg = ea ELSE ea = Nil
  /\ j.at \in {"join", "joined"} => j.op = "remove"
  /\ r # Nil

JobOf(j, ea, en, r, E) ==
  /\ ea \in E \cup {Nil}
  /\ j # NoSplay => OperationOf(j, ea, r, E)
  /\ j.at \notin {"splay", "join"} => \A d \in Sides : en[d] = Hdr

\* The node that SPLAY_REMOVE took out lies between what it set aside and all other nodes.
Waits(j, q, E, sub) ==
  /\ j.at \notin {"join", "joined"} => q = Nil
  /\ j.at \in {"join", "joined"} => \A x \in E : x \notin sub[q] => x < j.arg

\* After a splay no node lies between the root and the goal.
Reached(j, r, sub) ==
  j.at \in {"splayed", "joined"} =>
    \A e \in sub[r] : e # r /\ Side(e, r) = Leading(j.op, j.arg)[r] =>
      Leading(j.op, j.arg)[e] = Other(Leading(j.op, j.arg)[r])

Whole(o, en, r, q, j, ea, E, sub) ==
  /\ PartsOf(o, en, r, q, Leading(j.op, j.arg), E, sub)
  /\ JobOf(j, ea, en, r, E)
  /\ Waits(j, q, E, sub)
  /\ Reached(j, r, sub)

\* The links are those of search trees: what is left of the tree, the two parts on their
\* sides of it, and what was set aside.
IInv ==
  /\ child \in LinkTables /\ ends \in EndTables
  /\ Whole(OpenLinks, ends, root, rest, splay, each, SplayElements, NodesBelow(OpenLinks))

\* The nodes in the model are those of the trees.
LEMMA PartsAre ==
  ASSUME NEW o, NEW en, NEW r, NEW q, NEW goal, NEW E, NEW sub,
         PartsOf(o, en, r, q, goal, E, sub)
  PROVE  /\ NodesBelow(o) = sub
         /\ E = sub[r] \cup sub[o["L"][Hdr]] \cup sub[o["R"][Hdr]] \cup sub[q]
<1>1. Ordered(o, E, sub) /\ Tops(E, sub, Roots(o, r, q))
  BY DEF PartsOf, Forest
<1>2. NodesBelow(o) = sub
  BY <1>1, BelowIs
<1>3. \A t \in Roots(o, r, q) : sub[t] \subseteq E
  BY <1>1, SubFacts DEF Tops
<1>4. \A x \in E : \E t \in Roots(o, r, q) : x \in sub[t]
  BY <1>1 DEF Tops
<1>q. QED
  BY <1>2, <1>3, <1>4 DEF Roots

\* The invariant holds again once the trees were found.
LEMMA NextIInv ==
  ASSUME NEW E, NEW sub, child' \in LinkTables, ends' \in EndTables,
         Whole(OpenLinks', ends', root', rest', splay', each', E, sub)
  PROVE  IInv' /\ SplayElements' = E
<1>1. PartsOf(OpenLinks', ends', root', rest', Leading(splay'.op, splay'.arg), E, sub)
  BY DEF Whole
<1>2. /\ NodesBelow(OpenLinks') = sub
      /\ E = sub[root'] \cup sub[OpenLinks'["L"][Hdr]] \cup sub[OpenLinks'["R"][Hdr]] \cup sub[rest']
  BY <1>1, PartsAre
<1>3. SplayElements' = E
  BY <1>2 DEF SplayElements
<1>q. QED
  BY <1>2, <1>3 DEF IInv

\* The invariant holds of the empty tree.
LEMMA InitIInv == SplayInit => IInv
<1> SUFFICES ASSUME SplayInit
             PROVE  IInv
  OBVIOUS
<1> DEFINE sub == [n \in SplayLinks |-> IF n = Nil THEN {} ELSE {n}]
<1>1. child \in LinkTables /\ ends \in EndTables
  BY NilFacts DEF SplayInit, LinkTables, EndTables
<1>2. \A d \in Sides : OpenLinks[d][Hdr] = Nil /\ \A n \in SplayKeys : OpenLinks[d][n] = Nil
  BY DEF SplayInit, OpenLinks
<1>3. root = Nil /\ rest = Nil /\ each = Nil /\ splay = NoSplay /\ \A d \in Sides : ends[d] = Hdr
  BY DEF SplayInit
<1>4. sub \in [SplayLinks -> SUBSET SplayKeys] /\ sub[Nil] = {} /\ \A n \in SplayKeys : sub[n] = {n}
  BY NilFacts DEF SplayLinks
<1> HIDE DEF sub
<1>5. Roots(OpenLinks, root, rest) = {Nil}
  BY <1>2, <1>3, SideFacts DEF Roots
<1>6. Ordered(OpenLinks, {}, sub)
  BY <1>2, <1>4, FS_EmptySet DEF Ordered
<1>7. Forest(OpenLinks, {}, sub, Roots(OpenLinks, root, rest))
  BY <1>5, <1>6 DEF Forest, Tops
<1>8. PartsOf(OpenLinks, ends, root, rest, Leading(splay.op, splay.arg), {}, sub)
  BY <1>2, <1>3, <1>4, <1>7 DEF PartsOf, SplitOff, Aside
<1>9. Whole(OpenLinks, ends, root, rest, splay, each, {}, sub)
  <2>1. JobOf(splay, each, ends, root, {})
    BY <1>3 DEF JobOf
  <2>2. Waits(splay, rest, {}, sub) /\ Reached(splay, root, sub)
    BY <1>3 DEF NoSplay, Waits, Reached
  <2>q. QED
    BY <1>8, <2>1, <2>2 DEF Whole
<1>10. /\ NodesBelow(OpenLinks) = sub
       /\ {} = sub[root] \cup sub[OpenLinks["L"][Hdr]] \cup sub[OpenLinks["R"][Hdr]] \cup sub[rest]
  BY <1>8, PartsAre
<1>11. SplayElements = {}
  BY <1>10 DEF SplayElements
<1>q. QED
  BY <1>1, <1>9, <1>10, <1>11 DEF IInv

-----------------------------------------------------------------------------
(* The steps of a splay *)

\* What the invariant says in the middle of a splay.
LEMMA SplayFacts ==
  ASSUME IInv, splay # NoSplay,
         NEW E, E = SplayElements, NEW sub, sub = NodesBelow(OpenLinks),
         NEW goal, goal = Leading(splay.op, splay.arg)
  PROVE  /\ child \in LinkTables /\ ends \in EndTables /\ OpenLinks = Masked(child, ends)
         /\ PartsOf(Masked(child, ends), ends, root, rest, goal, E, sub)
         /\ JobOf(splay, each, ends, root, E) /\ Waits(splay, rest, E, sub) /\ Reached(splay, root, sub)
         /\ OperationOf(splay, each, root, E)
         /\ root # Nil /\ root \in E /\ root \in SplayKeys /\ Leads(goal)
         /\ \A x \in SplayKeys : Toward(x) = goal[x]
<1>1. OpenLinks = Masked(child, ends)
  BY DEF OpenLinks, Masked
<1>2. /\ child \in LinkTables /\ ends \in EndTables
      /\ PartsOf(Masked(child, ends), ends, root, rest, goal, E, sub)
      /\ JobOf(splay, each, ends, root, E) /\ Waits(splay, rest, E, sub) /\ Reached(splay, root, sub)
  BY <1>1 DEF IInv, Whole
<1>3. OperationOf(splay, each, root, E)
  BY <1>2 DEF JobOf
<1>4. root # Nil /\ splay.arg \in SplayLinks
  BY <1>3 DEF OperationOf
<1>5. root \in E /\ root \in SplayKeys
  BY <1>2, <1>4, PartsFacts
<1>6. Leads(goal)
  BY <1>4, LeadingLeads
<1>7. \A x \in SplayKeys : Toward(x) = goal[x]
  BY DEF Toward, Leading
<1>q. QED
  BY <1>1, <1>2, <1>3, <1>4, <1>5, <1>6, <1>7

\* The rotation, if there is one, leaves the parts as they are.
LEMMA TurnStep ==
  ASSUME IInv, splay # NoSplay, Turn,
         NEW E, E = SplayElements, NEW sub, sub = NodesBelow(OpenLinks),
         NEW goal, goal = Leading(splay.op, splay.arg), NEW d, d = Toward(root),
         NEW c, c = Rotated(d), NEW r, r = RotatedRoot(d)
  PROVE  /\ d \in Sides /\ c \in LinkTables /\ r \in SplayKeys /\ goal[r] = d
         /\ \A b \in Sides : r # ends[b]
         /\ \E s : /\ PartsOf(Masked(c, ends), ends, r, rest, goal, E, s)
                   /\ s[r] = sub[root] /\ s[rest] = sub[rest]
<1>1. /\ child \in LinkTables /\ PartsOf(Masked(child, ends), ends, root, rest, goal, E, sub)
      /\ root # Nil /\ root \in SplayKeys /\ \A x \in SplayKeys : Toward(x) = goal[x]
  BY SplayFacts
<1>2. d \in Sides /\ goal[root] = d /\ child[d][root] # Nil
  <2>1. d # "here" /\ child[d][root] # Nil
    BY DEF Turn
  <2>2. d \in {"L", "R", "here"}
    BY DEF Toward
  <2>q. QED
    BY <1>1, <2>1, <2>2 DEF Sides
<1>3. child[d][root] \in SplayKeys
  BY <1>1, <1>2 DEF LinkTables, SplayLinks
<1>4. TurnedTo(child, goal, d, root, c, r)
  BY <1>1, <1>2, <1>3 DEF TurnedTo, Zig, Rotated, RotatedRoot
<1>5. c \in LinkTables /\ r \in SplayKeys /\ goal[r] = d
  BY <1>1, <1>2, <1>4, TurnKeepsParts
<1>6. PICK s : /\ PartsOf(Masked(c, ends), ends, r, rest, goal, E, s)
               /\ s[r] = sub[root] /\ s[rest] = sub[rest]
  BY <1>1, <1>2, <1>4, TurnKeepsParts
<1>7. \A b \in Sides : r # ends[b]
  <2>1. r \in s[r]
    BY <1>5, <1>6, PartsFacts, NilFacts
  <2>q. QED
    BY <1>5, <1>6, <2>1, EndsApart
<1>q. QED
  BY <1>2, <1>5, <1>6, <1>7

\* SPLAY_LINKLEFT and SPLAY_LINKRIGHT, after a rotation or not, keep the invariant and lose no
\* node.
LEMMA LinkStep ==
  ASSUME IInv, SplayLink
  PROVE  IInv' /\ SplayElements' = SplayElements
<1>1. splay # NoSplay /\ splay.at \in {"splay", "join"} /\ Turn
  BY DEF SplayLink, NoSplay
<1>2. PICK E, sub, goal, d, c, r :
        /\ E = SplayElements /\ sub = NodesBelow(OpenLinks) /\ goal = Leading(splay.op, splay.arg)
        /\ d = Toward(root) /\ c = Rotated(d) /\ r = RotatedRoot(d)
  OBVIOUS
<1>3. /\ d \in Sides /\ c \in LinkTables /\ r \in SplayKeys /\ goal[r] = d
      /\ \A b \in Sides : r # ends[b]
  BY <1>1, <1>2, TurnStep
<1>4. PICK s : /\ PartsOf(Masked(c, ends), ends, r, rest, goal, E, s)
               /\ s[r] = sub[root] /\ s[rest] = sub[rest]
  BY <1>1, <1>2, TurnStep
<1>5. /\ ends \in EndTables /\ JobOf(splay, each, ends, root, E) /\ OperationOf(splay, each, root, E)
      /\ Waits(splay, rest, E, sub) /\ Leads(goal)
  BY <1>1, <1>2, SplayFacts
<1>6. /\ Linking(c, ends, d, r, child', ends')
      /\ root' = c[d][r] /\ c[d][r] # Nil
      /\ rest' = rest /\ splay' = splay /\ each' = each
  BY <1>2 DEF SplayLink, Linking
<1>7. OpenLinks' = Masked(child', ends')
  BY DEF OpenLinks, Masked
<1>8. /\ child' \in LinkTables /\ ends' \in EndTables
      /\ ends'[d] = r /\ ends'[Other(d)] = ends[Other(d)]
      /\ LinkedTo(Masked(c, ends), Masked(child', ends'), d, r, ends[d])
  BY <1>3, <1>5, <1>6, LinkMasked
<1>9. Masked(c, ends)[d][r] = root' /\ Masked(c, ends)[d][ends[d]] = Nil
  BY <1>3, <1>5, <1>6, MaskedIs DEF EndTables
<1>10. \E t : PartsOf(Masked(child', ends'), ends', root', rest, goal, E, t) /\ t[rest] = s[rest]
  BY <1>3, <1>4, <1>5, <1>8, <1>9, NilFacts, LinkKeepsParts
<1>11. PICK t : PartsOf(Masked(child', ends'), ends', root', rest, goal, E, t) /\ t[rest] = sub[rest]
  BY <1>4, <1>10
<1>12. PartsOf(OpenLinks', ends', root', rest', Leading(splay'.op, splay'.arg), E, t)
  BY <1>2, <1>6, <1>7, <1>11
<1>13. JobOf(splay', each', ends', root', E)
  BY <1>1, <1>5, <1>6 DEF JobOf, OperationOf
<1>14. Waits(splay', rest', E, t) /\ Reached(splay', root', t)
  BY <1>1, <1>5, <1>6, <1>11 DEF Waits, Reached
<1>15. Whole(OpenLinks', ends', root', rest', splay', each', E, t)
  BY <1>12, <1>13, <1>14 DEF Whole
<1>q. QED
  BY <1>2, <1>8, <1>15, NextIInv

\* Where the splay ends, at the goal or because there is no node further on, no node lies
\* between the root and the goal.
LEMMA NoneBetween ==
  ASSUME NEW o, NEW en, NEW r, NEW q, NEW goal, NEW E, NEW sub,
         PartsOf(o, en, r, q, goal, E, sub), r # Nil, goal[r] \in Sides => o[goal[r]][r] = Nil,
         NEW e \in sub[r] \cup sub[o["L"][Hdr]] \cup sub[o["R"][Hdr]], e # r, Side(e, r) = goal[r]
  PROVE  goal[e] = Other(goal[r])
<1> DEFINE d == goal[r]
<1>1. d \in Sides
  BY SideFacts
<1>2. Ordered(o, E, sub) /\ r \in E /\ r \in sub[r] /\ r \in SplayKeys /\ sub[Nil] = {}
  BY PartsFacts, SubFacts
<1>3. e \notin sub[r]
  <2>1. ASSUME e \in sub[r]
        PROVE  FALSE
    <3>1. e \notin sub[o[d][r]]
      BY <1>1, <1>2
    <3>2. Side(e, r) = Other(d)
      BY <1>1, <1>2, <2>1, <3>1, OtherSide
    <3>q. QED
      BY <1>1, <3>2, SideFacts
  <2>q. QED
    BY <2>1
<1>4. PICK b \in Sides : e \in sub[o[b][Hdr]]
  BY <1>3, SideFacts
<1>5. SplitOff(sub, r, o[b][Hdr], en[b], goal, b)
  BY DEF PartsOf
<1>6. goal[e] = b /\ Side(r, e) = b
  BY <1>2, <1>4, <1>5 DEF SplitOff
<1>7. e \in SplayKeys
  BY <1>2, <1>4, SubFacts, PartsFacts
<1>8. Side(e, r) = Other(b)
  BY <1>2, <1>6, <1>7, SideFlip
<1>q. QED
  BY <1>1, <1>6, <1>8, SideFacts

\* The parts as SPLAY_ASSEMBLE finds them.
LEMMA EndFacts ==
  ASSUME IInv, SplayEnd, NEW E, E = SplayElements, NEW sub, sub = NodesBelow(OpenLinks),
         NEW goal, goal = Leading(splay.op, splay.arg)
  PROVE  \E c, r, s :
           /\ Assemble(r, c)
           /\ c \in LinkTables /\ r \in SplayKeys /\ \A b \in Sides : r # ends[b]
           /\ goal[r] \in Sides => c[goal[r]][r] = Nil
           /\ PartsOf(Masked(c, ends), ends, r, rest, goal, E, s) /\ s[rest] = sub[rest]
<1>1. splay # NoSplay
  BY DEF SplayEnd, NoSplay
<1>2. CASE Turn
  <2>1. PICK d, c, r : d = Toward(root) /\ c = Rotated(d) /\ r = RotatedRoot(d)
    OBVIOUS
  <2>2. c[d][r] = Nil /\ Assemble(r, c)
    BY <1>2, <2>1 DEF SplayEnd
  <2>3. /\ d \in Sides /\ c \in LinkTables /\ r \in SplayKeys /\ goal[r] = d
        /\ \A b \in Sides : r # ends[b]
    BY <1>1, <1>2, <2>1, TurnStep
  <2>4. PICK s : /\ PartsOf(Masked(c, ends), ends, r, rest, goal, E, s)
                 /\ s[r] = sub[root] /\ s[rest] = sub[rest]
    BY <1>1, <1>2, <2>1, TurnStep
  <2>q. QED
    BY <2>2, <2>3, <2>4
<1>3. CASE ~Turn
  <2>1. /\ child \in LinkTables /\ PartsOf(Masked(child, ends), ends, root, rest, goal, E, sub)
        /\ root # Nil /\ root \in SplayKeys /\ \A x \in SplayKeys : Toward(x) = goal[x]
    BY <1>1, SplayFacts
  <2>2. Assemble(root, child)
    BY <1>3 DEF SplayEnd
  <2>3. \A b \in Sides : root # ends[b]
    BY <2>1, EndsApart, PartsFacts
  <2>4. goal[root] \in Sides => child[goal[root]][root] = Nil
    BY <1>3, <2>1 DEF Turn, Sides
  <2>q. QED
    BY <2>1, <2>2, <2>3, <2>4
<1>q. QED
  BY <1>2, <1>3

\* The end of a splay keeps the invariant and loses no node; no node is between the new root and
\* the goal.
LEMMA EndStep ==
  ASSUME IInv, SplayEnd
  PROVE  IInv' /\ SplayElements' = SplayElements
<1>1. splay # NoSplay /\ splay.at \in {"splay", "join"}
  BY DEF SplayEnd, NoSplay
<1>2. PICK E, sub, goal :
        E = SplayElements /\ sub = NodesBelow(OpenLinks) /\ goal = Leading(splay.op, splay.arg)
  OBVIOUS
<1>3. PICK c, r, s :
        /\ Assemble(r, c)
        /\ c \in LinkTables /\ r \in SplayKeys /\ \A b \in Sides : r # ends[b]
        /\ goal[r] \in Sides => c[goal[r]][r] = Nil
        /\ PartsOf(Masked(c, ends), ends, r, rest, goal, E, s) /\ s[rest] = sub[rest]
  BY <1>2, EndFacts
<1>4. /\ ends \in EndTables /\ JobOf(splay, each, ends, root, E) /\ OperationOf(splay, each, root, E)
      /\ Waits(splay, rest, E, sub)
  <2>1. IInv /\ splay # NoSplay
    BY <1>1
  <2>q. QED
    BY <1>2, <2>1, SplayFacts
<1>5. /\ root' = r /\ ends' = [d \in Sides |-> Hdr]
      /\ splay' = [splay EXCEPT !.at = IF @ = "splay" THEN "splayed" ELSE "joined"]
      /\ rest' = rest /\ each' = each
  <2>1. Assemble(r, c)
    BY <1>3
  <2>2. rest' = rest /\ each' = each
    BY DEF SplayEnd
  <2>q. QED
    BY <2>1, <2>2 DEF Assemble
<1>6. PICK hung : Mending(c, ends, r, hung, child')
  <2>1. Assemble(r, c)
    BY <1>3
  <2>q. QED
    BY <2>1, Zenon DEF Assemble, Mending
<1>7. PICK o : o = Masked(c, ends)
  OBVIOUS
<1>8. OpenLinks' = Masked(child', [d \in Sides |-> Hdr])
  BY <1>5 DEF OpenLinks, Masked
<1>9. child' \in LinkTables /\ Assembled(o, OpenLinks', ends, r)
  BY <1>3, <1>4, <1>6, <1>7, <1>8, AssembleMasked
<1>10. ends' \in EndTables /\ \A b \in Sides : ends'[b] = Hdr
  BY <1>5 DEF EndTables
<1>11. r # Nil /\ PartsOf(o, ends, r, rest, goal, E, s)
  BY <1>3, <1>7, NilFacts
<1>12. \E t : /\ PartsOf(OpenLinks', ends', r, rest, goal, E, t)
              /\ t[r] = s[r] \cup s[o["L"][Hdr]] \cup s[o["R"][Hdr]] /\ t[rest] = s[rest]
  BY <1>9, <1>10, <1>11, AssembleKeepsParts
<1>13. PICK t : /\ PartsOf(OpenLinks', ends', r, rest, goal, E, t)
                /\ t[r] = s[r] \cup s[o["L"][Hdr]] \cup s[o["R"][Hdr]] /\ t[rest] = sub[rest]
  BY <1>3, <1>12
<1>14. /\ splay'.op = splay.op /\ splay'.arg = splay.arg
       /\ splay'.at = IF splay.at = "splay" THEN "splayed" ELSE "joined"
       /\ splay' \in [op : {"insert", "remove", "find", "next", "min", "max", "visit"},
                      arg : SplayLinks, at : {"splay", "splayed", "join", "joined"}]
  BY <1>4, <1>5 DEF OperationOf
<1>15. goal[r] \in Sides => o[goal[r]][r] = Nil
  BY <1>3, <1>7, MaskedIs
<1>16. \A e \in t[r] : e # r /\ Side(e, r) = goal[r] => goal[e] = Other(goal[r])
  BY <1>11, <1>13, <1>15, NoneBetween
<1>17. JobOf(splay', each', ends', root', E)
  <2>1. OperationOf(splay', each', root', E)
    BY <1>1, <1>4, <1>5, <1>11, <1>14 DEF OperationOf
  <2>2. each' \in E \cup {Nil}
    BY <1>4, <1>5 DEF JobOf
  <2>q. QED
    BY <1>10, <2>1, <2>2 DEF JobOf
<1>18. Waits(splay', rest', E, t)
  BY <1>1, <1>4, <1>5, <1>13, <1>14 DEF Waits
<1>19. Reached(splay', root', t)
  BY <1>2, <1>5, <1>14, <1>16 DEF Reached
<1>20. Whole(OpenLinks', ends', root', rest', splay', each', E, t)
  BY <1>2, <1>5, <1>13, <1>14, <1>17, <1>18, <1>19 DEF Whole
<1>q. QED
  BY <1>2, <1>9, <1>10, <1>20, NextIInv

-----------------------------------------------------------------------------
(* Between the splays *)

\* Then nothing is split off.
LEMMA WholeTree ==
  ASSUME IInv, splay.at \notin {"splay", "join"},
         NEW E, E = SplayElements, NEW sub, sub = NodesBelow(OpenLinks)
  PROVE  /\ child \in LinkTables /\ ends \in EndTables
         /\ \A d \in Sides : /\ ends[d] = Hdr /\ OpenLinks[d][Hdr] = Nil
                             /\ \A n \in SplayKeys : OpenLinks[d][n] = child[d][n]
         /\ Roots(OpenLinks, root, rest) = {root, rest, Nil}
         /\ Forest(OpenLinks, E, sub, {root, rest, Nil}) /\ Aside(OpenLinks, root, rest, E, sub)
         /\ E = sub[root] \cup sub[rest] /\ sub[Nil] = {}
         /\ JobOf(splay, each, ends, root, E) /\ Waits(splay, rest, E, sub) /\ Reached(splay, root, sub)
<1>1. /\ child \in LinkTables /\ ends \in EndTables
      /\ PartsOf(OpenLinks, ends, root, rest, Leading(splay.op, splay.arg), E, sub)
      /\ JobOf(splay, each, ends, root, E) /\ Waits(splay, rest, E, sub) /\ Reached(splay, root, sub)
  BY DEF IInv, Whole
<1>2. \A d \in Sides : ends[d] = Hdr
  BY <1>1 DEF JobOf
<1>3. \A d \in Sides : OpenLinks[d][Hdr] = Nil
  BY <1>2 DEF OpenLinks
<1>4. \A d \in Sides : \A n \in SplayKeys : OpenLinks[d][n] = child[d][n]
  BY <1>2, NilFacts DEF OpenLinks
<1>5. Roots(OpenLinks, root, rest) = {root, rest, Nil}
  BY <1>3, SideFacts DEF Roots
<1>6. Forest(OpenLinks, E, sub, {root, rest, Nil}) /\ Aside(OpenLinks, root, rest, E, sub)
  BY <1>1, <1>5 DEF PartsOf
<1>7. sub[Nil] = {}
  BY <1>6, SubFacts DEF Forest
<1>8. E = sub[root] \cup sub[rest]
  <2>1. E = sub[root] \cup sub[OpenLinks["L"][Hdr]] \cup sub[OpenLinks["R"][Hdr]] \cup sub[rest]
    BY <1>1, PartsAre
  <2>q. QED
    BY <1>3, <1>7, <2>1, SideFacts
<1>q. QED
  BY <1>1, <1>2, <1>3, <1>4, <1>5, <1>6, <1>7, <1>8

\* The invariant implies what is stated of the end of a splay.
LEMMA GoalReached ==
  ASSUME IInv
  PROVE  SplayReachesGoal
<1> SUFFICES ASSUME splay.at = "splayed", NEW e \in SplayElements
             PROVE  CASE Toward(root) = "L" -> e < root => splay.arg # Nil /\ e < splay.arg
                      [] Toward(root) = "R" -> e > root => splay.arg # Nil /\ e > splay.arg
                      [] OTHER              -> TRUE
  BY DEF SplayReachesGoal
<1>1. PICK E, sub, goal :
        E = SplayElements /\ sub = NodesBelow(OpenLinks) /\ goal = Leading(splay.op, splay.arg)
  OBVIOUS
<1>2. splay # NoSplay /\ splay.at \notin {"splay", "join"}
  BY DEF NoSplay
<1>3. /\ root \in SplayKeys /\ OperationOf(splay, each, root, E) /\ Waits(splay, rest, E, sub)
      /\ Reached(splay, root, sub) /\ \A x \in SplayKeys : Toward(x) = goal[x]
  BY <1>1, <1>2, SplayFacts
<1>4. E = sub[root] \cup sub[rest] /\ sub[Nil] = {} /\ Forest(OpenLinks, E, sub, {root, rest, Nil})
  BY <1>1, <1>2, WholeTree
<1>5. rest = Nil
  BY <1>3 DEF Waits
<1>6. e \in sub[root] /\ e \in SplayKeys /\ e \in Int /\ root \in Int
  BY <1>1, <1>3, <1>4, <1>5, SubFacts, SplayKeysAssumption DEF Forest
<1>7. splay.arg \in SplayLinks /\ (splay.arg = Nil \/ splay.arg \in Int)
  BY <1>3, SplayKeysAssumption DEF OperationOf, SplayLinks
<1>8. e # root /\ Side(e, root) = goal[root] => goal[e] = Other(goal[root])
  BY <1>1, <1>3, <1>6 DEF Reached
<1>9. ASSUME goal[root] = "L", e < root
      PROVE  splay.arg # Nil /\ e < splay.arg
  <2>1. goal[e] = "R" /\ splay.op # "max"
    BY <1>1, <1>3, <1>6, <1>8, <1>9 DEF Side, Other, Leading
  <2>q. QED
    BY <1>1, <1>6, <1>7, <2>1 DEF Leading
<1>10. ASSUME goal[root] = "R", e > root
       PROVE  splay.arg # Nil /\ e > splay.arg
  <2>1. goal[e] = "L"
    BY <1>6, <1>8, <1>10 DEF Side, Other
  <2>2. splay.op # "max"
    BY <1>1, <1>6, <2>1 DEF Leading
  <2>3. splay.arg # Nil
    BY <1>1, <1>3, <1>10, <2>2 DEF Leading
  <2>q. QED
    BY <1>1, <1>6, <1>7, <2>1, <2>2, <2>3 DEF Leading
<1>q. QED
  BY <1>3, <1>9, <1>10

\* A step that leaves the tree alone, and begins or ends an operation.
LEMMA SameTree ==
  ASSUME IInv, splay.at \notin {"splay", "join", "joined"},
         root' = root, child' = child, ends' = ends, rest' = rest,
         splay'.at \in {"splay", "idle"}, JobOf(splay', each', ends, root, SplayElements)
  PROVE  IInv' /\ SplayElements' = SplayElements
<1>1. PICK E, sub : E = SplayElements /\ sub = NodesBelow(OpenLinks)
  OBVIOUS
<1>2. OpenLinks' = OpenLinks
  BY DEF OpenLinks
<1>3. /\ child \in LinkTables /\ ends \in EndTables
      /\ \A d \in Sides : ends[d] = Hdr /\ OpenLinks[d][Hdr] = Nil
      /\ Roots(OpenLinks, root, rest) = {root, rest, Nil}
      /\ Forest(OpenLinks, E, sub, {root, rest, Nil}) /\ Aside(OpenLinks, root, rest, E, sub)
      /\ sub[Nil] = {} /\ Waits(splay, rest, E, sub)
  BY <1>1, WholeTree
<1>4. PartsOf(OpenLinks, ends, root, rest, Leading(splay'.op, splay'.arg), E, sub)
  BY <1>3 DEF PartsOf, SplitOff
<1>5. Waits(splay', rest, E, sub) /\ Reached(splay', root, sub)
  BY <1>3 DEF Waits, Reached
<1>6. Whole(OpenLinks', ends', root', rest', splay', each', E, sub)
  BY <1>1, <1>2, <1>4, <1>5 DEF Whole
<1>q. QED
  BY <1>1, <1>3, <1>6, NextIInv

\* With no part split off, all links count.
LEMMA OpenNext ==
  ASSUME NEW d \in Sides, ends'[d] = Hdr
  PROVE  OpenLinks'[d][Hdr] = Nil /\ \A n \in SplayKeys : OpenLinks'[d][n] = child'[d][n]
  BY NilFacts DEF OpenLinks

\* The invariant holds again once the tree was found, and what was set aside.
LEMMA NewTree ==
  ASSUME child' \in LinkTables, ends' \in EndTables, \A d \in Sides : ends'[d] = Hdr,
         NEW E, NEW sub, Forest(OpenLinks', E, sub, {root', rest', Nil}),
         \A x \in sub[rest'] : x \notin sub[root'],
         \A x \in E : \A y \in sub[rest'] : x \notin sub[rest'] => x < y,
         JobOf(splay', each', ends', root', E), Waits(splay', rest', E, sub),
         splay'.at \notin {"splayed", "joined"}
  PROVE  IInv' /\ SplayElements' = E
<1>1. \A d \in Sides : OpenLinks'[d][Hdr] = Nil
  BY OpenNext
<1>2. Roots(OpenLinks', root', rest') = {root', rest', Nil}
  BY <1>1, SideFacts DEF Roots
<1>3. sub[Nil] = {}
  BY SubFacts DEF Forest
<1>4. PartsOf(OpenLinks', ends', root', rest', Leading(splay'.op, splay'.arg), E, sub)
  <2>1. Aside(OpenLinks', root', rest', E, sub)
    BY <1>1, <1>3 DEF Aside
  <2>2. \A d \in Sides :
          SplitOff(sub, root', OpenLinks'[d][Hdr], ends'[d], Leading(splay'.op, splay'.arg), d)
    BY <1>1, <1>3 DEF SplitOff
  <2>q. QED
    BY <1>2, <2>1, <2>2 DEF PartsOf
<1>5. Reached(splay', root', sub)
  BY DEF Reached
<1>6. Whole(OpenLinks', ends', root', rest', splay', each', E, sub)
  BY <1>4, <1>5 DEF Whole
<1>q. QED
  BY <1>6, NextIInv

\* Both links of a node are cleared.
Cleared(c, c2, n) ==
  /\ c2 \in LinkTables
  /\ \A d \in Sides : \A m \in SplayKeys : c2[d][m] = IF m = n THEN Nil ELSE c[d][m]

\* Setting both links of a node to NULL.
LEMMA ClearedIs ==
  ASSUME NEW c \in LinkTables, NEW n \in SplayKeys
  PROVE  Cleared(c, [d \in Sides |-> [c[d] EXCEPT ![n] = Nil]], n)
  BY NilFacts DEF LinkTables, Cleared

\* SPLAY_INSERT into an empty tree leaves a tree of one node.
LEMMA InsertEmptyStep ==
  ASSUME IInv, NEW e \in SplayKeys, InsertEmpty(e)
  PROVE  IInv' /\ SplayElements' = {e} /\ SplayElements = {}
<1>1. PICK E, sub : E = SplayElements /\ sub = NodesBelow(OpenLinks)
  OBVIOUS
<1>2. /\ splay = NoSplay /\ each = Nil /\ root = Nil /\ root' = e
      /\ child' = [d \in Sides |-> [child[d] EXCEPT ![e] = Nil]]
      /\ ends' = ends /\ rest' = rest /\ splay' = splay /\ each' = each
  BY DEF InsertEmpty
<1>3. /\ child \in LinkTables /\ ends \in EndTables
      /\ \A d \in Sides : ends[d] = Hdr /\ \A n \in SplayKeys : OpenLinks[d][n] = child[d][n]
      /\ Forest(OpenLinks, E, sub, {root, rest, Nil}) /\ E = sub[root] \cup sub[rest] /\ sub[Nil] = {}
      /\ Waits(splay, rest, E, sub)
  BY <1>1, <1>2, WholeTree DEF NoSplay
<1>4. rest = Nil
  BY <1>2, <1>3 DEF Waits, NoSplay
<1>5. E = {} /\ Forest(OpenLinks, {}, sub, {Nil})
  <2>1. E = {} /\ {root, rest, Nil} = {Nil}
    BY <1>2, <1>3, <1>4
  <2>q. QED
    BY <1>3, <2>1
<1>6. \A d \in Sides : \A n \in SplayKeys : OpenLinks[d][n] = Nil
  BY <1>5 DEF Forest, Ordered
<1>7. /\ child' \in LinkTables
      /\ \A d \in Sides : \A m \in SplayKeys : child'[d][m] = IF m = e THEN Nil ELSE child[d][m]
  <2>1. Cleared(child, [d \in Sides |-> [child[d] EXCEPT ![e] = Nil]], e)
    BY <1>3, ClearedIs
  <2>q. QED
    BY <1>2, <2>1 DEF Cleared
<1>8. \A d \in Sides : \A m \in SplayKeys : OpenLinks'[d][m] = OpenLinks[d][m]
  BY <1>2, <1>3, <1>6, <1>7, OpenNext
<1>9. Forest(OpenLinks', {}, sub, {Nil})
  BY <1>5, <1>8, SameLinks DEF Forest
<1>10. PICK F, T : F = {} \cup {e} /\ T = {Nil} \cup {e}
  OBVIOUS
<1>11. Forest(OpenLinks', F, sub, T)
  BY <1>9, <1>10, AddNode
<1>12. F = {e} /\ T = {root', rest', Nil} /\ rest' = Nil
  BY <1>2, <1>4, <1>10
<1>13. JobOf(splay', each', ends', root', F) /\ Waits(splay', rest', F, sub)
  BY <1>2, <1>3, <1>12 DEF JobOf, Waits, NoSplay
<1>14. splay'.at \notin {"splayed", "joined"}
  BY <1>2 DEF NoSplay
<1>15. IInv' /\ SplayElements' = F
  BY <1>2, <1>3, <1>7, <1>11, <1>12, <1>13, <1>14, NewTree
<1>q. QED
  BY <1>1, <1>5, <1>12, <1>15

\* The insertion of a node that is not in the tree: the root and what lies on its side of
\* the new one on the one side, and the rest on the other.
LEMMA InsertSplayedStep ==
  ASSUME IInv, InsertSplayed, Toward(root) # "here"
  PROVE  /\ IInv' /\ splay.arg \in SplayKeys \ SplayElements
         /\ SplayElements' = SplayElements \cup {splay.arg}
<1>1. PICK E, sub, goal, e, d, o :
        /\ E = SplayElements /\ sub = NodesBelow(OpenLinks) /\ goal = Leading(splay.op, splay.arg)
        /\ e = splay.arg /\ d = Toward(root) /\ o = Other(d)
  OBVIOUS
<1>2. /\ splay.at = "splayed" /\ splay.op = "insert"
      /\ child' = [child EXCEPT ![d][e] = child[d][root], ![o][e] = root, ![d][root] = Nil]
      /\ root' = e /\ splay' = NoSplay /\ ends' = ends /\ rest' = rest /\ each' = each
  BY <1>1 DEF InsertSplayed, At, AnswersArg
<1>3. splay # NoSplay /\ splay.at \notin {"splay", "join"}
  BY <1>2 DEF NoSplay
<1>4. /\ root \in SplayKeys /\ root \in E /\ OperationOf(splay, each, root, E) /\ Waits(splay, rest, E, sub)
      /\ Reached(splay, root, sub) /\ Leads(goal) /\ \A x \in SplayKeys : Toward(x) = goal[x]
  BY <1>1, <1>3, SplayFacts
<1>5. /\ child \in LinkTables /\ ends \in EndTables
      /\ \A b \in Sides : ends[b] = Hdr /\ \A n \in SplayKeys : OpenLinks[b][n] = child[b][n]
      /\ Forest(OpenLinks, E, sub, {root, rest, Nil}) /\ E = sub[root] \cup sub[rest] /\ sub[Nil] = {}
      /\ JobOf(splay, each, ends, root, E)
  BY <1>1, <1>3, WholeTree
<1>6. /\ rest = Nil /\ e \in SplayKeys /\ d \in Sides /\ o \in Sides /\ o # d /\ goal[root] = d /\ each = Nil
      /\ E = sub[root] /\ E \subseteq SplayKeys
  <2>1. rest = Nil /\ e \in SplayKeys /\ each = Nil
    BY <1>1, <1>2, <1>4 DEF Waits, OperationOf
  <2>2. d \in {"L", "R", "here"}
    BY <1>1 DEF Toward
  <2>3. E \subseteq SplayKeys
    BY <1>5, SubFacts DEF Forest
  <2>q. QED
    BY <1>1, <1>4, <1>5, <2>1, <2>2, <2>3, SideFacts DEF Sides
<1>7. ASSUME NEW m \in SplayKeys, NEW b \in Sides, goal[m] = b
      PROVE  m # e /\ Side(m, e) = Other(b) /\ Side(e, m) = b
  <2>1. m \in Int /\ e \in Int /\ e # Nil
    BY <1>6, <1>7, SplayKeysAssumption
  <2>2. goal[m] = IF e < m THEN "L" ELSE IF e > m THEN "R" ELSE "here"
    BY <1>1, <1>2, <1>7, <2>1 DEF Leading
  <2>q. QED
    BY <1>7, <2>1, <2>2 DEF Sides, Side, Other
<1>8. ASSUME NEW m \in sub[root], m # root, Side(m, root) = d
      PROVE  goal[m] = o
  BY <1>1, <1>2, <1>4, <1>6, <1>8 DEF Reached
<1>9. e \notin E
  <2>1. ASSUME e \in E
        PROVE  FALSE
    <3>1. e # root /\ Side(e, root) = d
      BY <1>4, <1>6, <1>7
    <3>2. goal[e] = o
      BY <1>6, <1>8, <2>1, <3>1
    <3>q. QED
      BY <1>6, <1>7, <3>2
  <2>q. QED
    BY <2>1
<1>10. PICK a : a = OpenLinks[d][root]
  OBVIOUS
<1>11. Forest(OpenLinks, E, sub, {root, Nil}) /\ Ordered(OpenLinks, E, sub)
  <2>1. {root, rest, Nil} = {root, Nil}
    BY <1>6
  <2>q. QED
    BY <1>5, <2>1 DEF Forest
<1>12. ASSUME NEW m \in sub[a]
       PROVE  Side(m, e) = d
  <2>1. m # root /\ Side(m, root) = d /\ m \in sub[root] /\ m \in SplayKeys
    BY <1>4, <1>6, <1>10, <1>11, <1>12, ChildFacts
  <2>2. goal[m] = o
    BY <1>8, <2>1
  <2>q. QED
    BY <1>1, <1>6, <1>7, <2>1, <2>2, SideFacts
<1>13. ASSUME NEW m \in sub[root], m \notin sub[a]
       PROVE  Side(m, e) = Other(d)
  <2>1. m \in SplayKeys /\ goal[m] = d
    BY <1>4, <1>6, <1>10, <1>11, <1>13, LeftBehind
  <2>q. QED
    BY <1>6, <1>7, <2>1
<1>14. /\ child' \in LinkTables
       /\ \A b \in Sides : \A m \in SplayKeys :
            child'[b][m] = IF b = d /\ m = root THEN Nil
                           ELSE IF b = d /\ m = e THEN a ELSE IF b = o /\ m = e THEN root ELSE child[b][m]
  <2> DEFINE c1 == [child EXCEPT ![d][e] = a, ![o][e] = root]
             c2 == [c1 EXCEPT ![d][root] = Nil]
  <2>1. a = child[d][root] /\ a \in SplayLinks /\ root \in SplayLinks /\ e \in SplayKeys \cup {Hdr}
        /\ root \in SplayKeys \cup {Hdr} /\ Nil \in SplayLinks
    BY <1>4, <1>5, <1>6, <1>10, NilFacts DEF LinkTables
  <2>2. TwoLinks(child, c1, d, e, a, o, e, root)
    BY <1>5, <1>6, <2>1, TwoLinksIs
  <2>3. child' = c2
    BY <1>2, <1>5, <2>1 DEF LinkTables
  <2> HIDE DEF c1
  <2>4. c1 \in LinkTables
    BY <2>2 DEF TwoLinks
  <2>5. OneLink(c1, c2, d, root, Nil)
    BY <1>6, <2>1, <2>4, OneLinkIs
  <2> HIDE DEF c2
  <2>q. QED
    BY <2>2, <2>3, <2>5 DEF TwoLinks, OneLink
<1>15. InsertedAbove(OpenLinks, OpenLinks', d, root, e)
  <2>1. \A b \in Sides : \A m \in SplayKeys : OpenLinks'[b][m] = child'[b][m] /\ OpenLinks[b][m] = child[b][m]
    BY <1>2, <1>5, OpenNext
  <2>2. e # root /\ \A b \in Sides : b = d \/ b = o
    BY <1>1, <1>4, <1>6, <1>9, SideFacts
  <2>q. QED
    BY <1>6, <1>10, <1>14, <2>1, <2>2 DEF InsertedAbove
<1>16. \E s : Forest(OpenLinks', E \cup {e}, s, {e, Nil})
  <2>1. /\ \A m \in sub[a] : Side(m, e) = d
        /\ \A m \in sub[root] : m \notin sub[a] => Side(m, e) = Other(d)
    BY <1>12, <1>13
  <2>q. QED
    BY <1>4, <1>6, <1>9, <1>10, <1>11, <1>15, <2>1, InsertRoot
<1>17. PICK s : Forest(OpenLinks', E \cup {e}, s, {e, Nil})
  BY <1>16
<1>18. PICK F : F = E \cup {e}
  OBVIOUS
<1>19. Forest(OpenLinks', F, s, {root', rest', Nil}) /\ s[Nil] = {} /\ rest' = Nil
  <2>1. {root', rest', Nil} = {e, Nil} /\ rest' = Nil
    BY <1>2, <1>6
  <2>2. s[Nil] = {}
    BY <1>17, SubFacts DEF Forest
  <2>q. QED
    BY <1>17, <1>18, <2>1, <2>2
<1>20. JobOf(splay', each', ends', root', F) /\ Waits(splay', rest', F, s)
  BY <1>2, <1>5, <1>6, <1>19 DEF JobOf, Waits, NoSplay
<1>21. splay'.at \notin {"splayed", "joined"} /\ ends' \in EndTables /\ \A b \in Sides : ends'[b] = Hdr
  BY <1>2, <1>5 DEF NoSplay
<1>22. IInv' /\ SplayElements' = F
  BY <1>14, <1>19, <1>20, <1>21, NewTree
<1>q. QED
  BY <1>1, <1>6, <1>9, <1>18, <1>22

\* The removal of the root: the left part is left, if there is one, and else the right one.
LEMMA RemoveSplayedStep ==
  ASSUME IInv, RemoveSplayed, root = splay.arg
  PROVE  /\ IInv' /\ splay.arg \in SplayElements
         /\ SplayElements' = SplayElements \ {splay.arg}
<1>1. PICK E, sub, r, a, b, F, T :
        /\ E = SplayElements /\ sub = NodesBelow(OpenLinks) /\ r = root
        /\ a = OpenLinks["L"][root] /\ b = OpenLinks["R"][root] /\ F = E \ {root}
        /\ T = {a, b, Nil}
  OBVIOUS
<1>2. splay.at = "splayed" /\ splay.op = "remove"
  BY DEF RemoveSplayed, At
<1>3. splay # NoSplay /\ splay.at \notin {"splay", "join"}
  BY <1>2 DEF NoSplay
<1>4. r \in SplayKeys /\ r \in E /\ OperationOf(splay, each, root, E) /\ Waits(splay, rest, E, sub)
  BY <1>1, <1>3, SplayFacts
<1>5. /\ child \in LinkTables /\ ends \in EndTables
      /\ \A d \in Sides : ends[d] = Hdr /\ \A n \in SplayKeys : OpenLinks[d][n] = child[d][n]
      /\ Forest(OpenLinks, E, sub, {root, rest, Nil}) /\ E = sub[root] \cup sub[rest] /\ sub[Nil] = {}
  BY <1>1, <1>3, WholeTree
<1>6. /\ rest = Nil /\ each = Nil /\ E = sub[r] /\ E \subseteq SplayKeys
      /\ Forest(OpenLinks, E, sub, {r, Nil}) /\ Ordered(OpenLinks, E, sub)
  <2>1. rest = Nil /\ each = Nil
    BY <1>2, <1>4 DEF Waits, OperationOf
  <2>2. {root, rest, Nil} = {r, Nil}
    BY <1>1, <2>1
  <2>3. Forest(OpenLinks, E, sub, {r, Nil}) /\ Ordered(OpenLinks, E, sub)
    BY <1>5, <2>2 DEF Forest
  <2>4. E \subseteq SplayKeys
    BY <2>3, SubFacts
  <2>q. QED
    BY <1>1, <1>5, <2>1, <2>3, <2>4
<1>7. /\ child' = [d \in Sides |-> [child[d] EXCEPT ![r] = Nil]] /\ ends' = ends /\ each' = each
      /\ IF a = Nil THEN root' = b /\ rest' = rest /\ splay' = NoSplay
         ELSE root' = a /\ rest' = b /\ splay' = [splay EXCEPT !.at = "join"]
  <2>1. a = child["L"][root] /\ b = child["R"][root]
    BY <1>1, <1>4, <1>5, SideFacts
  <2>q. QED
    BY <1>1, <2>1 DEF RemoveSplayed
<1>8. child' \in LinkTables
      /\ \A d \in Sides : \A m \in SplayKeys : child'[d][m] = IF m = r THEN Nil ELSE child[d][m]
  <2>1. Cleared(child, [d \in Sides |-> [child[d] EXCEPT ![r] = Nil]], r)
    BY <1>4, <1>5, ClearedIs
  <2>q. QED
    BY <1>7, <2>1 DEF Cleared
<1>9. \A d \in Sides : \A m \in SplayKeys : OpenLinks'[d][m] = IF m = r THEN Nil ELSE OpenLinks[d][m]
  BY <1>5, <1>7, <1>8, OpenNext
<1>10. PICK s : LeftTwo(OpenLinks', E, sub, r, a, b, s)
  <2>1. Dropped(OpenLinks, OpenLinks', r, a, b)
    BY <1>1, <1>9 DEF Dropped
  <2>2. \E s : LeftTwo(OpenLinks', E, sub, r, a, b, s)
    BY <1>4, <1>6, <2>1, DropRoot
  <2>q. QED
    BY <2>2
<1>11. Forest(OpenLinks', F, s, T) /\ s[a] = sub[a] /\ s[b] = sub[b]
  BY <1>1, <1>10 DEF LeftTwo
<1>12. /\ E = {r} \cup sub[a] \cup sub[b] /\ r \notin sub[a] /\ r \notin sub[b]
       /\ a \in E \cup {Nil} /\ b \in E \cup {Nil}
       /\ \A x \in sub[a] : x # r /\ Side(x, r) = "L"
       /\ \A x \in sub[b] : x # r /\ Side(x, r) = "R"
  <2>1. sub[r] = {r} \cup sub[a] \cup sub[b]
    BY <1>1, <1>4, <1>6, NodeFacts
  <2>2. /\ r \notin sub[a] /\ a \in E \cup {Nil} /\ \A x \in sub[a] : x # r /\ Side(x, r) = "L"
    BY <1>1, <1>4, <1>6, SideFacts, ChildFacts
  <2>3. /\ r \notin sub[b] /\ b \in E \cup {Nil} /\ \A x \in sub[b] : x # r /\ Side(x, r) = "R"
    BY <1>1, <1>4, <1>6, SideFacts, ChildFacts
  <2>q. QED
    BY <1>6, <2>1, <2>2, <2>3
<1>13. F = sub[a] \cup sub[b] /\ F = E \ {r}
  BY <1>1, <1>12
<1>14. \A x \in sub[a] : \A y \in sub[b] : x < r /\ x < y /\ x # y
  <2>1. ASSUME NEW x \in sub[a], NEW y \in sub[b]
        PROVE  x < r /\ x < y /\ x # y
    <3>1. x # r /\ Side(x, r) = "L" /\ y # r /\ Side(y, r) = "R"
      BY <1>12, <2>1
    <3>2. x \in Int /\ y \in Int /\ r \in Int
      BY <1>4, <1>6, <1>12, <2>1, SplayKeysAssumption
    <3>q. QED
      BY <3>1, <3>2 DEF Side
  <2>q. QED
    BY <2>1
<1>15. \A x \in sub[a] : x < r
  <2>1. ASSUME NEW x \in sub[a]
        PROVE  x < r
    <3>1. x \in Int /\ r \in Int /\ x # r /\ Side(x, r) = "L"
      BY <1>4, <1>6, <1>12, <2>1, SplayKeysAssumption
    <3>q. QED
      BY <3>1 DEF Side
  <2>q. QED
    BY <2>1
<1>16. ends' \in EndTables /\ \A d \in Sides : ends'[d] = Hdr
  BY <1>5, <1>7
<1>17. splay.arg = r
  BY <1>1
<1>18. CASE a = Nil
  <2>1. root' = b /\ rest' = Nil /\ splay' = NoSplay /\ each' = Nil
    BY <1>6, <1>7, <1>18
  <2>2. {root', rest', Nil} = T /\ s[Nil] = {}
    BY <1>1, <1>5, <1>11, <1>18, <2>1
  <2>3. Forest(OpenLinks', F, s, {root', rest', Nil})
    BY <1>11, <2>2
  <2>4. JobOf(splay', each', ends', root', F) /\ Waits(splay', rest', F, s)
        /\ splay'.at \notin {"splayed", "joined"}
    BY <1>16, <2>1 DEF JobOf, Waits, NoSplay
  <2>5. IInv' /\ SplayElements' = F
    BY <1>8, <1>16, <2>1, <2>2, <2>3, <2>4, NewTree
  <2>q. QED
    BY <1>1, <1>4, <2>5
<1>19. CASE a # Nil
  <2>1. root' = a /\ rest' = b /\ splay' = [splay EXCEPT !.at = "join"] /\ each' = Nil
    BY <1>6, <1>7, <1>19
  <2>2. Forest(OpenLinks', F, s, {root', rest', Nil})
    BY <1>1, <1>11, <2>1
  <2>3. /\ splay'.op = "remove" /\ splay'.arg = r /\ splay'.at = "join"
        /\ splay' \in [op : {"insert", "remove", "find", "next", "min", "max", "visit"},
                       arg : SplayLinks, at : {"splay", "splayed", "join", "joined"}]
    BY <1>2, <1>4, <1>17, <2>1 DEF OperationOf
  <2>4. JobOf(splay', each', ends', root', F)
    BY <1>4, <1>16, <1>19, <2>1, <2>3 DEF JobOf, OperationOf
  <2>5. s[root'] = sub[a] /\ s[rest'] = sub[b]
    BY <1>11, <2>1
  <2>6. Waits(splay', rest', F, s)
    BY <1>13, <1>15, <2>3, <2>5 DEF Waits
  <2>7. \A x \in s[rest'] : x \notin s[root']
    BY <1>14, <2>5
  <2>8. \A x \in F : \A y \in s[rest'] : x \notin s[rest'] => x < y
    BY <1>13, <1>14, <2>5
  <2>9. splay'.at \notin {"splayed", "joined"}
    BY <2>3
  <2>10. IInv' /\ SplayElements' = F
    BY <1>8, <1>16, <2>2, <2>4, <2>6, <2>7, <2>8, <2>9, NewTree
  <2>q. QED
    BY <1>1, <1>4, <2>10
<1>q. QED
  BY <1>18, <1>19

\* The part that was set aside is put to the right of the root, where nothing is.
LEMMA JoinStep ==
  ASSUME IInv, Join
  PROVE  IInv' /\ SplayElements' = SplayElements
<1>1. PICK E, sub, goal, r, q :
        /\ E = SplayElements /\ sub = NodesBelow(OpenLinks) /\ goal = Leading(splay.op, splay.arg)
        /\ r = root /\ q = rest
  OBVIOUS
<1>2. /\ splay.at = "joined" /\ child' = [child EXCEPT !["R"][r] = q] /\ rest' = Nil
      /\ splay' = NoSplay /\ root' = r /\ ends' = ends /\ each' = each
  BY <1>1 DEF Join
<1>3. splay # NoSplay /\ splay.at \notin {"splay", "join"}
  BY <1>2 DEF NoSplay
<1>4. /\ r \in SplayKeys /\ r \in E /\ OperationOf(splay, each, root, E) /\ Waits(splay, q, E, sub)
      /\ Reached(splay, r, sub)
  BY <1>1, <1>3, SplayFacts
<1>5. /\ child \in LinkTables /\ ends \in EndTables
      /\ \A d \in Sides : ends[d] = Hdr /\ \A n \in SplayKeys : OpenLinks[d][n] = child[d][n]
      /\ Forest(OpenLinks, E, sub, {r, q, Nil}) /\ Aside(OpenLinks, r, q, E, sub)
      /\ E = sub[r] \cup sub[q] /\ sub[Nil] = {}
  BY <1>1, <1>3, WholeTree
<1>6. /\ splay.op = "remove" /\ splay.arg \in SplayKeys /\ each = Nil
  BY <1>2, <1>4 DEF OperationOf
<1>7. /\ Ordered(OpenLinks, E, sub) /\ E \subseteq SplayKeys /\ r \in sub[r] /\ q \in E \cup {Nil}
  <2>1. Ordered(OpenLinks, E, sub) /\ q \in E \cup {Nil}
    BY <1>5 DEF Forest, Tops
  <2>q. QED
    BY <1>4, <2>1, SubFacts, NodeFacts
<1>8. q # r /\ \A y \in sub[r] : \A z \in sub[q] : y < z
  <2>1. \A y \in sub[q] : y \notin sub[r]
    BY <1>5 DEF Aside
  <2>2. \A x \in E : \A y \in sub[q] : x \notin sub[q] => x < y
    BY <1>5 DEF Aside
  <2>q. QED
    BY <1>5, <1>7, <2>1, <2>2
<1>9. \A x \in sub[r] : x < splay.arg
  <2>1. \A x \in sub[r] : x \in E /\ x \notin sub[q]
    BY <1>5 DEF Aside
  <2>q. QED
    BY <1>2, <1>4, <2>1 DEF Waits
<1>10. ASSUME NEW x \in sub[r]
       PROVE  goal[x] = "R"
  <2>1. x \in SplayKeys /\ x \in Int /\ splay.arg \in Int /\ splay.arg # Nil /\ x < splay.arg
    BY <1>5, <1>6, <1>7, <1>9, <1>10, SplayKeysAssumption
  <2>q. QED
    BY <1>1, <1>6, <2>1 DEF Leading
<1>11. OpenLinks["R"][r] = Nil
  <2>1. PICK x : x = OpenLinks["R"][r]
    OBVIOUS
  <2>2. ASSUME x # Nil
        PROVE  FALSE
    <3>1. x \in E /\ sub[x] \subseteq sub[r] /\ \A y \in sub[x] : y # r /\ Side(y, r) = "R"
      BY <1>4, <1>7, <2>1, <2>2, ChildFacts, SideFacts
    <3>2. x \in sub[x]
      BY <1>7, <3>1, NodeFacts
    <3>3. x \in sub[r] /\ x # r /\ Side(x, r) = "R"
      BY <3>1, <3>2
    <3>4. goal[r] = "R" /\ goal[x] = "R"
      BY <1>7, <1>10, <3>3
    <3>5. goal[x] = Other(goal[r])
      BY <1>1, <1>2, <1>4, <3>3, <3>4 DEF Reached
    <3>q. QED
      BY <3>4, <3>5 DEF Other
  <2>q. QED
    BY <2>1, <2>2
<1>12. OneLink(child, child', "R", r, q)
  <2>1. OneLink(child, [child EXCEPT !["R"][r] = q], "R", r, q)
    <3>1. q \in SplayLinks /\ "R" \in Sides /\ r \in SplayKeys \cup {Hdr}
      BY <1>4, <1>7, NilFacts, SideFacts
    <3>q. QED
      BY <1>5, <3>1, OneLinkIs
  <2>q. QED
    BY <1>2, <2>1
<1>13. child' \in LinkTables /\ Relinked(OpenLinks, OpenLinks', "R", r, q)
  <2>1. \A b \in Sides : \A m \in SplayKeys : OpenLinks'[b][m] = child'[b][m] /\ OpenLinks[b][m] = child[b][m]
    BY <1>2, <1>5, OpenNext
  <2>q. QED
    BY <1>12, <2>1 DEF OneLink, Relinked
<1>14. PICK s : Forest(OpenLinks', E, s, {r, Nil})
  BY <1>4, <1>5, <1>8, <1>11, <1>13, JoinRight
<1>15. {root', rest', Nil} = {r, Nil} /\ s[Nil] = {} /\ rest' = Nil
  BY <1>2, <1>14, SubFacts DEF Forest
<1>16. Forest(OpenLinks', E, s, {root', rest', Nil})
  BY <1>14, <1>15
<1>17. /\ JobOf(splay', each', ends', root', E) /\ Waits(splay', rest', E, s)
       /\ splay'.at \notin {"splayed", "joined"} /\ ends' \in EndTables
       /\ \A d \in Sides : ends'[d] = Hdr
  BY <1>2, <1>5, <1>6 DEF JobOf, Waits, NoSplay
<1>18. IInv' /\ SplayElements' = E
  BY <1>13, <1>15, <1>16, <1>17, NewTree
<1>q. QED
  BY <1>1, <1>18

-----------------------------------------------------------------------------
(* The node that follows another one *)

\* m is the first of S on the way to side d, and NULL if there is none.
IsFirst(S, d, m) ==
  IF S = {} THEN m = Nil ELSE m \in S /\ \A y \in S : IF d = "R" THEN m <= y ELSE m >= y

\* The recursion of SPLAY_NEXT, down to the left.
IsDown(c, f) == f = [m \in SplayKeys |-> IF c["L"][m] = Nil THEN m ELSE f[c["L"][m]]]
Leftmost(c) == CHOOSE f : IsDown(c, f)

\* SPLAY_NEXT goes to the right once and then to the left as far as it can.
LEMMA SuccessorIs ==
  Successor(splay.arg) =
    IF child["R"][splay.arg] = Nil THEN Nil ELSE Leftmost(child)[child["R"][splay.arg]]
  BY DEF Successor, Leftmost, IsDown

\* The first node below another one is the node itself, or the first one to its left.
LEMMA FirstGoesLeft ==
  ASSUME NEW c, NEW E, NEW sub, Ordered(c, E, sub), NEW m \in E, NEW k, k = c["L"][m]
  PROVE  /\ k = Nil => IsFirst(sub[m], "R", m)
         /\ \A x : k # Nil /\ IsFirst(sub[k], "R", x) => IsFirst(sub[m], "R", x)
<1>1. /\ m \in sub[m] /\ sub[m] = {m} \cup sub[k] \cup sub[c["R"][m]] /\ sub[m] \subseteq Int
      /\ m \in Int /\ k \in E \cup {Nil} /\ sub[Nil] = {}
  <2>1. m \in sub[m] /\ sub[m] = {m} \cup sub[k] \cup sub[c["R"][m]] /\ sub[m] \subseteq E
    BY NodeFacts
  <2>2. E \subseteq SplayKeys /\ sub[Nil] = {}
    BY SubFacts
  <2>3. k \in E \cup {Nil}
    BY SideFacts, ChildFacts
  <2>q. QED
    BY <2>1, <2>2, <2>3, SplayKeysAssumption
<1>2. ASSUME NEW y \in sub[k]
      PROVE  y \in Int /\ y < m
  <2>1. y # m /\ Side(y, m) = "L"
    BY <1>2, SideFacts, ChildFacts
  <2>2. y \in Int
    BY <1>1, <1>2
  <2>q. QED
    BY <1>1, <2>1, <2>2 DEF Side
<1>3. ASSUME NEW y \in sub[c["R"][m]]
      PROVE  y \in Int /\ m < y
  <2>1. y # m /\ Side(y, m) = "R"
    BY <1>3, SideFacts, ChildFacts
  <2>2. y \in Int
    BY <1>1, <1>3
  <2>q. QED
    BY <1>1, <2>1, <2>2 DEF Side
<1>4. ASSUME k = Nil
      PROVE  IsFirst(sub[m], "R", m)
  <2>1. \A y \in sub[m] : m <= y
    BY <1>1, <1>3, <1>4
  <2>q. QED
    BY <1>1, <2>1 DEF IsFirst
<1>5. ASSUME k # Nil, NEW x, IsFirst(sub[k], "R", x)
      PROVE  IsFirst(sub[m], "R", x)
  <2>1. k \in sub[k]
    BY <1>1, <1>5, NodeFacts
  <2>2. x \in sub[k] /\ \A y \in sub[k] : x <= y
    BY <1>5, <2>1 DEF IsFirst
  <2>3. x \in Int /\ x < m
    BY <1>2, <2>2
  <2>4. \A y \in sub[c["R"][m]] : x <= y
    BY <1>1, <1>3, <2>3
  <2>5. \A y \in sub[m] : x <= y
    BY <1>1, <2>2, <2>3, <2>4
  <2>q. QED
    BY <1>1, <2>2, <2>5 DEF IsFirst
<1>q. QED
  BY <1>4, <1>5

\* There is one, and only one.
LEMMA FirstExists ==
  ASSUME NEW c, NEW E, NEW sub, Ordered(c, E, sub), NEW m \in E
  PROVE  /\ \E x : IsFirst(sub[m], "R", x)
         /\ \A x, y : IsFirst(sub[m], "R", x) /\ IsFirst(sub[m], "R", y) => x = y
<1> DEFINE B == {n \in E : \A x : ~IsFirst(sub[n], "R", x)}
<1>1. B = {}
  <2> SUFFICES ASSUME B # {}
               PROVE  FALSE
    OBVIOUS
  <2>1. PICK n \in B : \A d \in Sides : c[d][n] \notin B
    BY LowestNode
  <2>2. PICK k : k = c["L"][n]
    OBVIOUS
  <2>3. k \in E \cup {Nil} /\ k \notin B /\ Nil \notin E
    BY <2>1, <2>2, SideFacts, ChildFacts, SubFacts
  <2>4. CASE k = Nil
    BY <2>2, <2>4, FirstGoesLeft
  <2>5. CASE k # Nil
    <3>1. PICK x : IsFirst(sub[k], "R", x)
      BY <2>3, <2>5
    <3>2. IsFirst(sub[n], "R", x)
      BY <2>2, <2>5, <3>1, FirstGoesLeft
    <3>q. QED
      BY <3>2
  <2>q. QED
    BY <2>4, <2>5
<1>2. m \in sub[m] /\ sub[m] \subseteq Int
  <2>1. m \in sub[m] /\ sub[m] \subseteq E /\ E \subseteq SplayKeys
    BY NodeFacts, SubFacts
  <2>q. QED
    BY <2>1, SplayKeysAssumption
<1>3. ASSUME NEW x, NEW y, IsFirst(sub[m], "R", x), IsFirst(sub[m], "R", y)
      PROVE  x = y
  <2>1. x \in Int /\ y \in Int /\ x <= y /\ y <= x
    BY <1>2, <1>3 DEF IsFirst
  <2>q. QED
    BY <2>1
<1>q. QED
  BY <1>1, <1>3

\* The recursion ends at the first node.
LEMMA LeftmostIs ==
  ASSUME NEW c, NEW E, NEW sub, Ordered(c, E, sub), NEW m \in E
  PROVE  IsFirst(sub[m], "R", Leftmost(c)[m])
<1> DEFINE first(n) == CHOOSE x : IsFirst(sub[n], "R", x)
           f == [n \in SplayKeys |-> IF n \in E THEN first(n) ELSE n]
           g == Leftmost(c)
<1>1. \A n \in E : IsFirst(sub[n], "R", first(n))
  BY FirstExists
<1>2. ASSUME NEW n \in SplayKeys
      PROVE  f[n] = IF c["L"][n] = Nil THEN n ELSE f[c["L"][n]]
  <2> HIDE DEF first
  <2>1. CASE n \in E
    <3>1. PICK k : k = c["L"][n]
      OBVIOUS
    <3>2. k \in E \cup {Nil} /\ E \subseteq SplayKeys
      BY <2>1, <3>1, SideFacts, ChildFacts, SubFacts
    <3>3. CASE k = Nil
      <4>1. IsFirst(sub[n], "R", n)
        BY <2>1, <3>1, <3>3, FirstGoesLeft
      <4>2. first(n) = n
        BY <1>1, <2>1, <4>1, FirstExists
      <4>q. QED
        BY <2>1, <3>1, <3>3, <4>2
    <3>4. CASE k # Nil
      <4>1. IsFirst(sub[k], "R", first(k))
        BY <1>1, <3>2, <3>4
      <4>2. IsFirst(sub[n], "R", first(k))
        BY <2>1, <3>1, <3>4, <4>1, FirstGoesLeft
      <4>3. first(n) = first(k)
        BY <1>1, <2>1, <4>2, FirstExists
      <4>q. QED
        BY <2>1, <3>1, <3>2, <3>4, <4>3
    <3>q. QED
      BY <3>3, <3>4
  <2>2. CASE n \notin E
    <3>1. c["L"][n] = Nil
      BY <2>2, SideFacts DEF Ordered
    <3>q. QED
      BY <2>2, <3>1
  <2>q. QED
    BY <2>1, <2>2
<1>3. IsDown(c, f)
  <2>1. f = [n \in SplayKeys |-> f[n]]
    OBVIOUS
  <2> HIDE DEF f
  <2>q. QED
    BY <1>2, <2>1 DEF IsDown
<1>4. IsDown(c, g)
  <2> HIDE DEF f
  <2>q. QED
    BY <1>3 DEF Leftmost
<1> HIDE DEF f, g
<1>5. \A n \in SplayKeys : g[n] = IF c["L"][n] = Nil THEN n ELSE g[c["L"][n]]
  BY <1>4 DEF IsDown
<1> DEFINE B == {n \in E : ~IsFirst(sub[n], "R", g[n])}
<1>6. ASSUME B # {}
      PROVE  FALSE
  <2>1. PICK n \in B : \A d \in Sides : c[d][n] \notin B
    BY <1>6, LowestNode
  <2>2. PICK k : k = c["L"][n]
    OBVIOUS
  <2>3. k \in E \cup {Nil} /\ k \notin B /\ n \in E /\ n \in SplayKeys
    BY <2>1, <2>2, SideFacts, ChildFacts, SubFacts
  <2>4. CASE k = Nil
    <3>1. g[n] = n
      BY <1>5, <2>2, <2>3, <2>4
    <3>q. QED
      BY <2>2, <2>3, <2>4, <3>1, FirstGoesLeft
  <2>5. CASE k # Nil
    <3>1. g[n] = g[k] /\ IsFirst(sub[k], "R", g[k])
      BY <1>5, <2>2, <2>3, <2>5
    <3>2. IsFirst(sub[n], "R", g[k])
      BY <2>2, <2>3, <2>5, <3>1, FirstGoesLeft
    <3>q. QED
      BY <3>1, <3>2
  <2>q. QED
    BY <2>4, <2>5
<1>q. QED
  BY <1>6 DEF g

-----------------------------------------------------------------------------
(* The answers *)

\* What the splay brought to the root: the goal if it is in the tree, and the first or the
\* last node if that is what was asked for.
LEMMA SplayedRoot ==
  ASSUME IInv, splay.at = "splayed"
  PROVE  /\ root \in SplayElements /\ SplayElements \subseteq SplayKeys /\ Nil \notin SplayElements
         /\ OperationOf(splay, each, root, SplayElements)
         /\ splay.op # "max" /\ splay.arg # Nil =>
              /\ splay.arg \in SplayElements <=> root = splay.arg
              /\ Toward(root) = "here" <=> root = splay.arg
         /\ splay.op # "max" /\ splay.arg = Nil => IsFirst(SplayElements, "R", root)
         /\ splay.op = "max" => IsFirst(SplayElements, "L", root)
<1>1. PICK E, sub, goal :
        E = SplayElements /\ sub = NodesBelow(OpenLinks) /\ goal = Leading(splay.op, splay.arg)
  OBVIOUS
<1>2. splay # NoSplay /\ splay.at \notin {"splay", "join"}
  BY DEF NoSplay
<1>3. /\ root \in SplayKeys /\ root \in E /\ OperationOf(splay, each, root, E)
  BY <1>1, <1>2, SplayFacts
<1>4. E \subseteq SplayKeys
  BY <1>1, <1>2, WholeTree, SubFacts DEF Forest
<1>5. \A e \in E : /\ Toward(root) = "L" => (e < root => splay.arg # Nil /\ e < splay.arg)
                   /\ Toward(root) = "R" => (e > root => splay.arg # Nil /\ e > splay.arg)
  BY <1>1, GoalReached DEF SplayReachesGoal
<1>6. /\ root \in Int /\ \A e \in E : e \in Int
      /\ splay.arg \in SplayLinks /\ (splay.arg # Nil => splay.arg \in Int)
  BY <1>3, <1>4, SplayKeysAssumption DEF OperationOf, SplayLinks
<1>7. ASSUME splay.op # "max", splay.arg # Nil
      PROVE  /\ splay.arg \in E <=> root = splay.arg
             /\ Toward(root) = "here" <=> root = splay.arg
  <2>1. Toward(root) = IF splay.arg < root THEN "L" ELSE IF splay.arg > root THEN "R" ELSE "here"
    BY <1>7 DEF Toward
  <2>2. Toward(root) = "here" <=> root = splay.arg
    BY <1>6, <1>7, <2>1
  <2>3. ASSUME splay.arg \in E, splay.arg # root
        PROVE  FALSE
    <3>1. CASE splay.arg < root
      BY <1>5, <1>6, <1>7, <2>1, <2>3, <3>1
    <3>2. CASE splay.arg > root
      BY <1>5, <1>6, <1>7, <2>1, <2>3, <3>2
    <3>q. QED
      BY <1>6, <1>7, <2>3, <3>1, <3>2
  <2>q. QED
    BY <1>3, <2>2, <2>3
<1>8. ASSUME splay.op # "max", splay.arg = Nil
      PROVE  IsFirst(E, "R", root)
  <2>1. Toward(root) = "L"
    BY <1>8 DEF Toward
  <2>2. \A e \in E : root <= e
    BY <1>5, <1>6, <1>8, <2>1
  <2>q. QED
    BY <1>3, <2>2 DEF IsFirst
<1>9. ASSUME splay.op = "max"
      PROVE  IsFirst(E, "L", root)
  <2>1. Toward(root) = "R" /\ splay.arg = Nil
    BY <1>3, <1>9 DEF Toward, OperationOf
  <2>2. \A e \in E : root >= e
    BY <1>5, <1>6, <2>1
  <2>q. QED
    BY <1>3, <2>2 DEF IsFirst
<1>q. QED
  BY <1>1, <1>3, <1>4, <1>7, <1>8, <1>9, NilFacts

\* SPLAY_NEXT answers with the first node to the right.
LEMMA SuccessorAnswers ==
  ASSUME IInv, splay.at = "splayed", splay.op # "max", splay.arg \in SplayElements
  PROVE  IsFirst({x \in SplayElements : x > splay.arg}, "R", Successor(splay.arg))
<1>1. PICK E, sub, r, b :
        E = SplayElements /\ sub = NodesBelow(OpenLinks) /\ r = root /\ b = OpenLinks["R"][root]
  OBVIOUS
<1>2. splay # NoSplay /\ splay.at \notin {"splay", "join"}
  BY DEF NoSplay
<1>3. r \in E /\ r \in SplayKeys /\ r = splay.arg /\ E \subseteq SplayKeys /\ Nil \notin E
  BY <1>1, SplayedRoot
<1>4. /\ \A d \in Sides : \A n \in SplayKeys : OpenLinks[d][n] = child[d][n]
      /\ Ordered(OpenLinks, E, sub) /\ E = sub[root] \cup sub[rest] /\ sub[Nil] = {}
      /\ Waits(splay, rest, E, sub)
  BY <1>1, <1>2, WholeTree DEF Forest
<1>5. E = sub[r]
  <2>1. rest = Nil
    BY <1>4 DEF Waits
  <2>q. QED
    BY <1>1, <1>4, <2>1
<1>6. Ordered(child, E, sub)
  BY <1>4, SameLinks
<1>7. child["R"][r] = b /\ b \in E \cup {Nil}
  BY <1>1, <1>3, <1>4, SideFacts, ChildFacts
<1>8. {x \in E : x > r} = sub[b]
  <2>1. ASSUME NEW x \in sub[b]
        PROVE  x \in E /\ x > r
    <3>1. x # r /\ Side(x, r) = "R" /\ x \in E
      BY <1>1, <1>3, <1>4, <1>5, <2>1, SideFacts, ChildFacts
    <3>2. x \in Int /\ r \in Int
      BY <1>3, <3>1, SplayKeysAssumption
    <3>q. QED
      BY <3>1, <3>2 DEF Side
  <2>2. ASSUME NEW x \in E, x > r
        PROVE  x \in sub[b]
    <3>1. x \in Int /\ r \in Int
      BY <1>3, SplayKeysAssumption
    <3>2. x # r /\ Side(x, r) = "R" /\ x \in sub[r]
      BY <1>5, <2>2, <3>1 DEF Side
    <3>3. x \in sub[OpenLinks[Side(x, r)][r]]
      BY <1>3, <1>4, <3>2, BelowSides
    <3>q. QED
      BY <1>1, <3>2, <3>3
  <2>q. QED
    BY <2>1, <2>2
<1>9. Successor(splay.arg) = IF b = Nil THEN Nil ELSE Leftmost(child)[b]
  BY <1>3, <1>7, SuccessorIs
<1>10. IsFirst(sub[b], "R", Successor(splay.arg))
  <2>1. CASE b = Nil
    BY <1>4, <1>9, <2>1 DEF IsFirst
  <2>2. CASE b # Nil
    BY <1>6, <1>7, <1>9, <2>2, LeftmostIs
  <2>q. QED
    BY <2>1, <2>2
<1>q. QED
  BY <1>1, <1>3, <1>8, <1>10

\* Between the operations.
LEMMA NoJob ==
  ASSUME IInv, NEW j, j = NoSplay, NEW ea \in SplayElements \cup {Nil}, splay.at \notin {"splay", "join"},
         NEW r
  PROVE  JobOf(j, ea, ends, r, SplayElements) /\ j.at \in {"splay", "idle"}
<1>1. \A d \in Sides : ends[d] = Hdr
  BY WholeTree
<1>q. QED
  BY <1>1 DEF JobOf, NoSplay

\* An answer that leaves the tree alone.
LEMMA AnswerStep ==
  ASSUME IInv, splay.at \notin {"splay", "join", "joined"}, splay' = NoSplay,
         root' = root, child' = child, ends' = ends, rest' = rest, each' \in SplayElements \cup {Nil}
  PROVE  IInv' /\ SplayElements' = SplayElements
<1>1. splay.at \notin {"splay", "join"}
  OBVIOUS
<1>2. JobOf(splay', each', ends, root, SplayElements) /\ splay'.at \in {"splay", "idle"}
  BY <1>1, NoJob
<1>q. QED
  BY <1>2, SameTree

\* An operation begins.
LEMMA BeginStep ==
  ASSUME IInv, splay = NoSplay, root # Nil, NEW op, NEW arg,
         \/ op \in {"insert", "remove", "find"} /\ arg \in SplayKeys /\ each = Nil
         \/ op = "next" /\ arg \in SplayElements /\ each = Nil
         \/ op \in {"min", "max"} /\ arg = Nil /\ each = Nil
         \/ op = "visit" /\ arg = each,
         splay' = [op |-> op, arg |-> arg, at |-> "splay"],
         root' = root, child' = child, ends' = ends, rest' = rest, each' = each
  PROVE  IInv' /\ SplayElements' = SplayElements
<1>1. splay.at = "idle" /\ splay.at \notin {"splay", "join", "joined"}
  BY DEF NoSplay
<1>2. each \in SplayElements \cup {Nil} /\ SplayElements \subseteq SplayKeys
  BY <1>1, WholeTree, SubFacts DEF JobOf, Forest
<1>3. arg \in SplayLinks
  BY <1>2, NilFacts DEF SplayLinks
<1>4. splay'.op = op /\ splay'.arg = arg /\ splay'.at = "splay"
  OBVIOUS
<1>5. splay' \in [op : {"insert", "remove", "find", "next", "min", "max", "visit"},
                  arg : SplayLinks, at : {"splay", "splayed", "join", "joined"}]
  BY <1>3
<1>6. OperationOf(splay', each', root, SplayElements)
  BY <1>2, <1>4, <1>5 DEF OperationOf
<1>7. JobOf(splay', each', ends, root, SplayElements) /\ splay'.at \in {"splay", "idle"}
  BY <1>2, <1>4, <1>6 DEF JobOf
<1>q. QED
  BY <1>1, <1>7, SameTree

-----------------------------------------------------------------------------
(* The steps, as steps of an ordered set *)

\* The walk of the contract, as SplaySet has it.
walkBar == IF each = Nil THEN "none" ELSE "R"
todoBar == IF each = Nil THEN {} ELSE {e \in SplayElements : e > each}

\* What each step is shown to do: it keeps the invariant, and is one of the contract.
Implements == [SplaySet!Next]_(SplaySet!vars)
Kept == IInv' /\ Implements

\* CHOOSE in the contract picks the first element.
LEMMA SplayFirstIs ==
  ASSUME NEW S, S \subseteq SplayKeys, NEW d \in Sides, NEW m, IsFirst(S, d, m)
  PROVE  SplaySet!First(S, d) = m
<1>1. CASE S = {}
  BY <1>1 DEF IsFirst, SplaySet!First
<1>2. CASE S # {}
  <2> DEFINE best(x) == \A y \in S : IF d = "R" THEN x <= y ELSE x >= y
  <2>1. m \in S /\ m \in Int /\ \A y \in S : y \in Int
    BY <1>2, SplayKeysAssumption DEF IsFirst
  <2>2. best(m)
    BY <1>2 DEF IsFirst
  <2>3. \A x \in S : best(x) => x = m
    BY <2>1, <2>2
  <2>4. SplaySet!First(S, d) = CHOOSE x \in S : best(x)
    BY <1>2 DEF SplaySet!First
  <2> HIDE DEF best
  <2>q. QED
    BY <2>1, <2>2, <2>3, <2>4
<1>q. QED
  BY <1>1, <1>2

\* The elements are keys, and a loop is at one of them.
LEMMA ElementsAre ==
  ASSUME IInv
  PROVE  SplayElements \subseteq SplayKeys /\ each \in SplayElements \cup {Nil} /\ Nil \notin SplayElements
<1>1. SplayElements \subseteq SplayKeys /\ each \in SplayElements \cup {Nil}
  BY SubFacts DEF IInv, Whole, PartsOf, Forest, JobOf
<1>q. QED
  BY <1>1, NilFacts

\* A caller sees nothing of a step of the splay.
LEMMA Unseen ==
  ASSUME SplayElements' = SplayElements, each' = each, answered' = answered
  PROVE  Implements
  BY DEF Implements, SplaySet!vars

\* An operation begins on a tree that is not empty.
LEMMA BeginKept ==
  ASSUME IInv, NEW op, NEW arg, Begin(op, arg),
         \/ op \in {"insert", "remove", "find"} /\ arg \in SplayKeys
         \/ op = "next" /\ arg \in SplayElements
         \/ op \in {"min", "max", "visit"} /\ arg = Nil
  PROVE  Kept
<1>1. /\ splay = NoSplay /\ root # Nil /\ each = Nil
      /\ splay' = [op |-> op, arg |-> arg, at |-> "splay"]
      /\ root' = root /\ child' = child /\ ends' = ends /\ rest' = rest /\ each' = each
      /\ answered' = answered
  BY DEF Begin
<1>2. IInv' /\ SplayElements' = SplayElements
  BY <1>1, BeginStep
<1>q. QED
  BY <1>1, <1>2, Unseen DEF Kept

\* SPLAY_FOREACH goes on: the tree is not empty.
LEMMA ForEachNextKept ==
  ASSUME IInv, SplayForEachNext
  PROVE  Kept
<1>1. /\ splay = NoSplay /\ each # Nil
      /\ splay' = [op |-> "visit", arg |-> each, at |-> "splay"]
      /\ root' = root /\ child' = child /\ ends' = ends /\ rest' = rest /\ each' = each
      /\ answered' = answered
  BY DEF SplayForEachNext
<1>2. splay.at \notin {"splay", "join", "joined"}
  BY <1>1 DEF NoSplay
<1>3. PICK E, sub : E = SplayElements /\ sub = NodesBelow(OpenLinks)
  OBVIOUS
<1>4. E = sub[root] \cup sub[rest] /\ sub[Nil] = {} /\ Waits(splay, rest, E, sub)
  BY <1>2, <1>3, WholeTree
<1>5. each \in E
  BY <1>1, <1>3, ElementsAre
<1>6. root # Nil
  BY <1>2, <1>4, <1>5 DEF Waits
<1>7. IInv' /\ SplayElements' = SplayElements
  BY <1>1, <1>6, BeginStep
<1>q. QED
  BY <1>1, <1>7, Unseen DEF Kept

\* The calls on an empty tree answer NULL.
LEMMA CallEmptyKept ==
  ASSUME IInv, NEW op, NEW arg, CallEmpty(op, arg),
         \/ op \in {"remove", "find"} /\ arg \in SplayKeys
         \/ op \in {"min", "max", "visit"} /\ arg = Nil
  PROVE  Kept
<1>1. /\ splay = NoSplay /\ each = Nil /\ root = Nil
      /\ answered' = [op |-> op, arg |-> arg, answer |-> Nil]
      /\ root' = root /\ child' = child /\ ends' = ends /\ rest' = rest /\ each' = each
      /\ splay' = splay
  BY DEF CallEmpty, Answers
<1>2. splay.at \notin {"splay", "join", "joined"}
  BY <1>1 DEF NoSplay
<1>3. IInv' /\ SplayElements' = SplayElements
  BY <1>1, <1>2, AnswerStep
<1>4. SplayElements = {}
  <2>1. PICK E, sub : E = SplayElements /\ sub = NodesBelow(OpenLinks)
    OBVIOUS
  <2>2. E = sub[root] \cup sub[rest] /\ sub[Nil] = {} /\ Waits(splay, rest, E, sub)
    BY <1>2, <2>1, WholeTree
  <2>q. QED
    BY <1>1, <1>2, <2>1, <2>2 DEF Waits
<1>5. \A d \in Sides : SplaySet!First({}, d) = Nil
  BY DEF SplaySet!First
<1>6. walkBar = "none" /\ walkBar' = "none" /\ todoBar = {} /\ todoBar' = {}
  BY <1>1 DEF walkBar, todoBar
<1>7. CASE op = "remove"
  <2>1. SplaySet!Remove(arg)
    BY <1>1, <1>3, <1>4, <1>6, <1>7 DEF SplaySet!Remove, SplaySet!Returns, walkBar, todoBar
  <2>q. QED
    BY <1>3, <1>7, <2>1 DEF Kept, Implements, SplaySet!Next
<1>8. CASE op = "find"
  <2>1. SplaySet!Find(arg)
    BY <1>1, <1>3, <1>4, <1>6, <1>8 DEF SplaySet!Find, SplaySet!Returns, walkBar, todoBar
  <2>q. QED
    BY <1>3, <1>8, <2>1 DEF Kept, Implements, SplaySet!Next
<1>9. CASE op \in {"min", "max"}
  <2>1. PICK d \in Sides : op = IF d = "R" THEN "min" ELSE "max"
    BY <1>9 DEF Sides
  <2>2. arg = Nil
    BY <1>9
  <2>3. SplaySet!MinMax(d)
    BY <1>1, <1>3, <1>4, <1>5, <1>6, <2>1, <2>2 DEF SplaySet!MinMax, SplaySet!Returns, walkBar, todoBar
  <2>q. QED
    BY <1>3, <2>3 DEF Kept, Implements, SplaySet!Next, Sides
<1>10. CASE op = "visit"
  <2>1. SplaySet!Visit("R", SplayElements)
    BY <1>1, <1>3, <1>4, <1>5, <1>6, <1>10 DEF SplaySet!Visit, SplaySet!Returns, walkBar, todoBar, Sides
  <2>2. SplaySet!Walk
    BY <1>6, <2>1 DEF SplaySet!Walk, walkBar
  <2>q. QED
    BY <1>3, <2>2 DEF Kept, Implements, SplaySet!Next
<1>q. QED
  BY <1>7, <1>8, <1>9, <1>10

\* SPLAY_INSERT into an empty tree.
LEMMA InsertEmptyKept ==
  ASSUME IInv, NEW e \in SplayKeys, InsertEmpty(e)
  PROVE  Kept
<1>1. IInv' /\ SplayElements' = {e} /\ SplayElements = {}
  BY InsertEmptyStep
<1>2. each = Nil /\ each' = Nil /\ answered' = [op |-> "insert", arg |-> e, answer |-> Nil]
  BY DEF InsertEmpty, Answers
<1>3. walkBar = "none" /\ walkBar' = "none" /\ todoBar = {} /\ todoBar' = {}
  BY <1>2 DEF walkBar, todoBar
<1>4. SplaySet!Insert(e)
  BY <1>1, <1>2, <1>3 DEF SplaySet!Insert, SplaySet!Returns, walkBar, todoBar
<1>q. QED
  BY <1>1, <1>4 DEF Kept, Implements, SplaySet!Next

\* SPLAY_LINKLEFT and SPLAY_LINKRIGHT, SPLAY_ASSEMBLE, and the end of SPLAY_REMOVE.
LEMMA LinkKept ==
  ASSUME IInv, SplayLink \/ SplayEnd \/ Join
  PROVE  Kept
<1>1. IInv' /\ SplayElements' = SplayElements
  BY LinkStep, EndStep, JoinStep
<1>2. each' = each /\ answered' = answered
  BY DEF SplayLink, SplayEnd, Join
<1>q. QED
  BY <1>1, <1>2, Unseen DEF Kept

\* SPLAY_INSERT answers with the node that is there already, or adds its own.
LEMMA InsertSplayedKept ==
  ASSUME IInv, InsertSplayed
  PROVE  Kept
<1>1. PICK e : e = splay.arg
  OBVIOUS
<1>2. splay.at = "splayed" /\ splay.op = "insert"
  BY DEF InsertSplayed, At
<1>3. /\ e \in SplayKeys /\ e # Nil /\ each = Nil
      /\ (e \in SplayElements <=> root = e) /\ (Toward(root) = "here" <=> root = e)
  BY <1>1, <1>2, SplayedRoot, NilFacts DEF OperationOf
<1>4. each' = Nil /\ ends' = ends /\ rest' = rest
  BY <1>3 DEF InsertSplayed
<1>5. walkBar = "none" /\ walkBar' = "none" /\ todoBar = {} /\ todoBar' = {}
  BY <1>3, <1>4 DEF walkBar, todoBar
<1>6. CASE Toward(root) = "here"
  <2>1. /\ root' = root /\ child' = child /\ splay' = NoSplay
        /\ answered' = [op |-> "insert", arg |-> e, answer |-> e]
    BY <1>1, <1>2, <1>3, <1>6 DEF InsertSplayed, AnswersArg, Answers
  <2>2. IInv' /\ SplayElements' = SplayElements
    BY <1>2, <1>4, <2>1, AnswerStep
  <2>3. SplaySet!Insert(e)
    BY <1>3, <1>5, <1>6, <2>1, <2>2 DEF SplaySet!Insert, SplaySet!Returns, walkBar, todoBar
  <2>q. QED
    BY <1>3, <2>2, <2>3 DEF Kept, Implements, SplaySet!Next
<1>7. CASE Toward(root) # "here"
  <2>1. answered' = [op |-> "insert", arg |-> e, answer |-> Nil]
    BY <1>1, <1>2, <1>7 DEF InsertSplayed, AnswersArg, Answers
  <2>2. IInv' /\ e \notin SplayElements /\ SplayElements' = SplayElements \cup {e}
    BY <1>1, <1>7, InsertSplayedStep
  <2>3. SplaySet!Insert(e)
    BY <1>5, <2>1, <2>2 DEF SplaySet!Insert, SplaySet!Returns, walkBar, todoBar
  <2>q. QED
    BY <1>3, <2>2, <2>3 DEF Kept, Implements, SplaySet!Next
<1>q. QED
  BY <1>6, <1>7

\* SPLAY_REMOVE takes its node away if it is there.
LEMMA RemoveSplayedKept ==
  ASSUME IInv, RemoveSplayed
  PROVE  Kept
<1>1. PICK e : e = splay.arg
  OBVIOUS
<1>2. splay.at = "splayed" /\ splay.op = "remove"
  BY DEF RemoveSplayed, At
<1>3. e \in SplayKeys /\ e # Nil /\ each = Nil /\ (e \in SplayElements <=> root = e)
  BY <1>1, <1>2, SplayedRoot, NilFacts DEF OperationOf
<1>4. each' = Nil /\ ends' = ends
  BY <1>3 DEF RemoveSplayed
<1>5. walkBar = "none" /\ walkBar' = "none" /\ todoBar = {} /\ todoBar' = {}
  BY <1>3, <1>4 DEF walkBar, todoBar
<1>6. CASE root # splay.arg
  <2>1. /\ root' = root /\ child' = child /\ rest' = rest /\ splay' = NoSplay
        /\ answered' = [op |-> "remove", arg |-> e, answer |-> Nil]
    BY <1>1, <1>2, <1>6 DEF RemoveSplayed, AnswersArg, Answers
  <2>2. IInv' /\ SplayElements' = SplayElements
    BY <1>2, <1>4, <2>1, AnswerStep
  <2>3. e \notin SplayElements
    BY <1>1, <1>3, <1>6
  <2>4. SplaySet!Remove(e)
    BY <1>5, <2>1, <2>2, <2>3 DEF SplaySet!Remove, SplaySet!Returns, walkBar, todoBar
  <2>q. QED
    BY <1>3, <2>2, <2>4 DEF Kept, Implements, SplaySet!Next
<1>7. CASE root = splay.arg
  <2>1. answered' = [op |-> "remove", arg |-> e, answer |-> e]
    BY <1>1, <1>7 DEF RemoveSplayed, Answers
  <2>2. IInv' /\ e \in SplayElements /\ SplayElements' = SplayElements \ {e}
    BY <1>1, <1>7, RemoveSplayedStep
  <2>3. SplaySet!Remove(e)
    BY <1>5, <2>1, <2>2 DEF SplaySet!Remove, SplaySet!Returns, walkBar, todoBar
  <2>q. QED
    BY <1>3, <2>2, <2>3 DEF Kept, Implements, SplaySet!Next
<1>q. QED
  BY <1>6, <1>7

\* SPLAY_FIND and SPLAY_NEXT.
LEMMA FindKept ==
  ASSUME IInv, FindSplayed \/ NextSplayed
  PROVE  Kept
<1>1. PICK e : e = splay.arg
  OBVIOUS
<1>2. splay.at = "splayed" /\ splay.op \in {"find", "next"} /\ splay' = NoSplay
  BY DEF FindSplayed, NextSplayed, At, AnswersArg
<1>3. /\ OperationOf(splay, each, root, SplayElements)
      /\ e # Nil => (e \in SplayElements <=> root = e)
  BY <1>1, <1>2, SplayedRoot
<1>4. /\ each = Nil /\ e \in SplayKeys /\ e # Nil /\ (splay.op = "next" => e \in SplayElements)
  BY <1>1, <1>2, <1>3, ElementsAre, NilFacts DEF OperationOf
<1>5. root' = root /\ child' = child /\ ends' = ends /\ rest' = rest /\ each' = each
  BY DEF FindSplayed, NextSplayed
<1>6. IInv' /\ SplayElements' = SplayElements
  BY <1>2, <1>4, <1>5, AnswerStep
<1>7. walkBar = "none" /\ walkBar' = "none" /\ todoBar = {} /\ todoBar' = {}
  BY <1>4, <1>5 DEF walkBar, todoBar
<1>8. CASE FindSplayed
  <2>1. answered' = [op |-> "find", arg |-> e, answer |-> IF e \in SplayElements THEN e ELSE Nil]
    BY <1>1, <1>3, <1>4, <1>8 DEF FindSplayed, At, AnswersArg, Answers
  <2>2. SplaySet!Find(e)
    BY <1>6, <1>7, <2>1 DEF SplaySet!Find, SplaySet!Returns, walkBar, todoBar
  <2>q. QED
    BY <1>4, <1>6, <2>2 DEF Kept, Implements, SplaySet!Next
<1>9. CASE NextSplayed
  <2> DEFINE right == {x \in SplayElements : x > e}
  <2>1. /\ answered' = [op |-> "next", arg |-> e, answer |-> Successor(e)]
        /\ e \in SplayElements
    BY <1>1, <1>4, <1>9 DEF NextSplayed, At, AnswersArg, Answers
  <2>2. IsFirst(right, "R", Successor(e))
    BY <1>1, <1>2, <2>1, SuccessorAnswers
  <2>3. right \subseteq SplayKeys
    BY ElementsAre
  <2>4. SplaySet!First(right, "R") = Successor(e)
    <3> HIDE DEF right
    <3>q. QED
      BY <2>2, <2>3, SideFacts, SplayFirstIs
  <2>5. SplaySet!Returns("next", e, SplaySet!First(right, "R"))
    BY <2>1, <2>4 DEF SplaySet!Returns
  <2>6. SplaySet!Find(e)
    BY <1>6, <1>7, <2>1, <2>5 DEF SplaySet!Find, walkBar, todoBar
  <2>q. QED
    BY <1>4, <1>6, <2>6 DEF Kept, Implements, SplaySet!Next
<1>q. QED
  BY <1>8, <1>9

\* SPLAY_MIN and SPLAY_MAX.
LEMMA MinMaxKept ==
  ASSUME IInv, MinMaxSplayed
  PROVE  Kept
<1>1. PICK d \in Sides : splay.op = IF d = "R" THEN "min" ELSE "max"
  BY DEF MinMaxSplayed, At, Sides
<1>2. splay.at = "splayed" /\ splay.op \in {"min", "max"} /\ splay' = NoSplay
  BY DEF MinMaxSplayed, At, AnswersArg
<1>3. each = Nil /\ splay.arg = Nil
  BY <1>2, SplayedRoot DEF OperationOf
<1>4. IsFirst(SplayElements, d, root)
  BY <1>1, <1>2, <1>3, SplayedRoot DEF Sides
<1>5. root' = root /\ child' = child /\ ends' = ends /\ rest' = rest /\ each' = each
  BY DEF MinMaxSplayed
<1>6. IInv' /\ SplayElements' = SplayElements
  BY <1>2, <1>3, <1>5, AnswerStep
<1>7. walkBar = "none" /\ walkBar' = "none" /\ todoBar = {} /\ todoBar' = {}
  BY <1>3, <1>5 DEF walkBar, todoBar
<1>8. SplaySet!First(SplayElements, d) = root
  BY <1>4, ElementsAre, SplayFirstIs
<1>9. answered' = [op |-> splay.op, arg |-> Nil, answer |-> root]
  BY <1>3 DEF MinMaxSplayed, AnswersArg, Answers
<1>10. SplaySet!MinMax(d)
  BY <1>1, <1>6, <1>7, <1>8, <1>9 DEF SplaySet!MinMax, SplaySet!Returns, walkBar, todoBar
<1>q. QED
  BY <1>6, <1>10 DEF Kept, Implements, SplaySet!Next, Sides

\* What a step of a loop has to find: the first of the nodes that are left.
LEMMA VisitFinds ==
  ASSUME IInv, NEW left, left \subseteq SplayElements, NEW x, IsFirst(left, "R", x),
         x # Nil => left \ {x} = {e \in SplayElements : e > x},
         each' = x, SplayElements' = SplayElements,
         answered' = [op |-> "visit", arg |-> Nil, answer |-> x]
  PROVE  SplaySet!Visit("R", left)
<1>1. SplayElements \subseteq SplayKeys /\ Nil \notin SplayElements
  BY ElementsAre
<1>2. SplaySet!First(left, "R") = x
  BY <1>1, SideFacts, SplayFirstIs
<1>3. x = Nil <=> left = {}
  BY <1>1 DEF IsFirst
<1>4. todoBar' = left \ {x}
  BY <1>3 DEF todoBar
<1>5. walkBar' = IF left = {} THEN "none" ELSE "R"
  BY <1>3 DEF walkBar
<1>q. QED
  BY <1>2, <1>4, <1>5 DEF SplaySet!Visit, SplaySet!Returns, walkBar, todoBar

\* SPLAY_FOREACH: the first node, and then each time the next one.
LEMMA VisitKept ==
  ASSUME IInv, VisitSplayed
  PROVE  Kept
<1>0. PICK E, x, left : /\ E = SplayElements
                        /\ x = IF splay.arg = Nil THEN root ELSE Successor(splay.arg)
                        /\ left = IF each = Nil THEN E ELSE {e \in E : e > each}
  OBVIOUS
<1>1. /\ splay.at = "splayed" /\ splay.op = "visit" /\ splay' = NoSplay /\ each' = x
      /\ answered' = [op |-> "visit", arg |-> Nil, answer |-> x]
      /\ root' = root /\ child' = child /\ ends' = ends /\ rest' = rest
  BY <1>0 DEF VisitSplayed, At, Answers
<1>2. splay.arg = each
  BY <1>1, SplayedRoot DEF OperationOf
<1>3. /\ E \subseteq SplayKeys /\ each \in E \cup {Nil} /\ Nil \notin E
      /\ left \subseteq E /\ \A e \in E : e \in Int
  BY <1>0, ElementsAre, SplayKeysAssumption
<1>4. IsFirst(left, "R", x)
  <2>1. CASE each = Nil
    BY <1>0, <1>1, <1>2, <2>1, SplayedRoot
  <2>2. CASE each # Nil
    <3>1. IsFirst({e \in SplayElements : e > splay.arg}, "R", Successor(splay.arg))
      BY <1>0, <1>1, <1>2, <1>3, <2>2, SuccessorAnswers
    <3>q. QED
      BY <1>0, <1>2, <2>2, <3>1
  <2>q. QED
    BY <2>1, <2>2
<1>5. x \in E \cup {Nil}
  BY <1>3, <1>4 DEF IsFirst
<1>6. IInv' /\ SplayElements' = SplayElements
  BY <1>0, <1>1, <1>5, AnswerStep
<1>7. ASSUME x # Nil
      PROVE  left \ {x} = {e \in E : e > x}
  <2>1. x \in left /\ x \in E /\ \A y \in left : x <= y
    BY <1>3, <1>4, <1>7 DEF IsFirst
  <2>2. ASSUME NEW e \in E
        PROVE  e \in left \ {x} <=> e > x
    <3>1. CASE each = Nil
      BY <1>0, <1>3, <2>1, <3>1
    <3>2. CASE each # Nil
      BY <1>0, <1>3, <2>1, <3>2
    <3>q. QED
      BY <3>1, <3>2
  <2>q. QED
    BY <1>3, <2>2
<1>8. SplaySet!Visit("R", left)
  BY <1>0, <1>1, <1>3, <1>4, <1>6, <1>7, VisitFinds
<1>9. SplaySet!Walk \/ SplaySet!Step
  <2>1. CASE each = Nil
    <3>1. walkBar = "none" /\ left = SplayElements
      BY <1>0, <2>1 DEF walkBar
    <3>2. SplaySet!Walk
      BY <1>8, <3>1 DEF SplaySet!Walk, SplaySet!Visit, walkBar
    <3>q. QED
      BY <3>2
  <2>2. CASE each # Nil
    <3>1. walkBar = "R" /\ todoBar = left
      BY <1>0, <2>2 DEF walkBar, todoBar
    <3>2. SplaySet!Step
      BY <1>8, <3>1 DEF SplaySet!Step, SplaySet!Visit, walkBar, todoBar
    <3>q. QED
      BY <3>2
  <2>q. QED
    BY <2>1, <2>2
<1>q. QED
  BY <1>6, <1>9 DEF Kept, Implements, SplaySet!Next

\* Every step keeps the invariant, and is one of the contract or changes nothing there.
LEMMA StepKept == IInv /\ [SplayNext]_splayVars => Kept
<1> SUFFICES ASSUME IInv, [SplayNext]_splayVars
             PROVE  Kept
  OBVIOUS
<1>1. CASE UNCHANGED splayVars
  <2>1. /\ root' = root /\ child' = child /\ ends' = ends /\ rest' = rest /\ splay' = splay
        /\ each' = each /\ answered' = answered
    BY <1>1 DEF splayVars
  <2>2. OpenLinks' = OpenLinks
    BY <2>1 DEF OpenLinks
  <2>3. SplayElements' = SplayElements
    BY <2>1, <2>2 DEF SplayElements
  <2>4. IInv'
    BY <2>1, <2>2, <2>3 DEF IInv
  <2>q. QED
    BY <2>1, <2>3, <2>4, Unseen DEF Kept
<1>2. ASSUME NEW e \in SplayKeys, NEW op \in {"insert", "remove", "find"}, Begin(op, e)
      PROVE  Kept
  BY <1>2, BeginKept
<1>3. ASSUME NEW e \in SplayKeys, e \in SplayElements, Begin("next", e)
      PROVE  Kept
  BY <1>3, BeginKept
<1>4. ASSUME NEW e \in SplayKeys, InsertEmpty(e) \/ CallEmpty("remove", e) \/ CallEmpty("find", e)
      PROVE  Kept
  BY <1>4, InsertEmptyKept, CallEmptyKept
<1>5. ASSUME NEW op \in {"min", "max", "visit"}, Begin(op, Nil) \/ CallEmpty(op, Nil)
      PROVE  Kept
  BY <1>5, BeginKept, CallEmptyKept
<1>6. CASE SplayLink \/ SplayEnd \/ Join
  BY <1>6, LinkKept
<1>7. CASE InsertSplayed \/ RemoveSplayed
  BY <1>7, InsertSplayedKept, RemoveSplayedKept
<1>8. CASE FindSplayed \/ MinMaxSplayed \/ NextSplayed
  BY <1>8, FindKept, MinMaxKept
<1>9. CASE VisitSplayed \/ SplayForEachNext
  BY <1>9, VisitKept, ForEachNextKept
<1>q. QED
  BY <1>1, <1>2, <1>3, <1>4, <1>5, <1>6, <1>7, <1>8, <1>9 DEF SplayNext

\* An empty tree is an empty set.
LEMMA InitImplements == SplayInit => SplaySet!Init
<1> SUFFICES ASSUME SplayInit
             PROVE  SplaySet!Init
  OBVIOUS
<1>1. PICK E, sub : E = SplayElements /\ sub = NodesBelow(OpenLinks)
  OBVIOUS
<1>2. splay.at \notin {"splay", "join", "joined"} /\ root = Nil /\ rest = Nil /\ each = Nil
  BY DEF SplayInit, NoSplay
<1>3. IInv
  BY InitIInv
<1>4. E = sub[root] \cup sub[rest] /\ sub[Nil] = {}
  BY <1>1, <1>2, <1>3, WholeTree
<1>5. SplayElements = {}
  BY <1>1, <1>2, <1>4
<1>q. QED
  BY <1>2, <1>5 DEF SplayInit, SplaySet!Init, SplaySet!NoCall

\* However far a splay has taken the tree apart, its parts are search trees, each on its
\* side of the others, and together they hold every node once.
THEOREM Invariant == SplaySpec => []IInv
<1>1. IInv /\ [SplayNext]_splayVars => IInv'
  BY StepKept DEF Kept
<1>q. QED
  BY <1>1, InitIInv, PTL DEF SplaySpec

\* Every splay, of every tree and with every goal, ends at the goal if it is in the tree and
\* else next to it.
THEOREM ReachesGoal == SplaySpec => []SplayReachesGoal
<1>1. IInv => SplayReachesGoal
  BY GoalReached
<1>q. QED
  BY <1>1, Invariant, PTL

\* Whatever calls are made in whatever order, each gives the answer of an ordered set, no
\* node is lost or added while the tree is taken apart, and a loop visits all nodes in
\* order although each of its steps changes the tree.
THEOREM Refinement == SplaySpec => SplayImplementsOrderedSet
<1>1. IInv /\ [SplayNext]_splayVars => [SplaySet!Next]_(SplaySet!vars)
  BY StepKept DEF Kept, Implements
<1>q. QED
  BY <1>1, Invariant, InitImplements, PTL
     DEF SplaySpec, SplayImplementsOrderedSet, SplaySet!Spec
=============================================================================
