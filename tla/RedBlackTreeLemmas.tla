-------------------------- MODULE RedBlackTreeLemmas --------------------------
(***************************************************************************)
(* Lemmas about trees of keys: what makes a tree a search tree, what the   *)
(* operators of RedBlackTree that only look at a tree answer on one, and   *)
(* what those that change a tree (putting a node in, taking one out, a     *)
(* rotation, a change of color) do to its shape, its heights and its reds. *)
(***************************************************************************)
EXTENDS RedBlackTree, FiniteSetTheorems, WellFoundedInduction, TLAPS

-----------------------------------------------------------------------------
(* The shape of a tree *)

Tree ==
  [root : Links, child : [Sides -> [Keys -> Links]], parent : [Keys -> Links],
   color : [Keys -> {"red", "black"}]]

\* The part of a tree below a node: a set of keys for each link, which the node divides.
Divides(t, sub, n) ==
  /\ sub[n] = {n} \cup sub[t.child["L"][n]] \cup sub[t.child["R"][n]]
  /\ \A d \in Sides : \A x \in sub[t.child[d][n]] : x # n /\ Side(x, n) = d

\* The links of t are those of a search tree of the keys E.
Linked(t, E, n) ==
  /\ n # t.root => t.parent[n] \in E /\ \E d \in Sides : t.child[d][t.parent[n]] = n
  /\ \A d \in Sides :
       LET c == t.child[d][n] IN c # Nil => c \in E /\ t.parent[c] = n

Bounds(t, E) ==
  /\ t \in Tree
  /\ E \subseteq Keys /\ IsFiniteSet(E)
  /\ t.root \in E \cup {Nil}
  /\ t.root # Nil => t.parent[t.root] = Nil
  /\ \A n \in Keys \ E : t.parent[n] = Nil /\ \A d \in Sides : t.child[d][n] = Nil

Shape(t, E, sub) ==
  /\ Bounds(t, E)
  /\ sub \in [Links -> SUBSET E] /\ sub[Nil] = {} /\ sub[t.root] = E
  /\ \A n \in E : Divides(t, sub, n) /\ Linked(t, E, n)

-----------------------------------------------------------------------------
(* Sides *)

\* NULL is a link but no node.
LEMMA NilFacts == Nil \notin Keys /\ Nil \in Links /\ Keys \subseteq Links
  BY KeysAssumption DEF Links

\* There are two sides, and each key is on one of them.
LEMMA SideFacts ==
  /\ "L" \in Sides /\ "R" \in Sides /\ "L" # "R"
  /\ \A d \in Sides : Other(d) \in Sides /\ Other(d) # d /\ Other(Other(d)) = d
  /\ \A d, e \in Sides : e = d \/ e = Other(d)
  /\ \A x, n : Side(x, n) \in Sides
  BY DEF Sides, Other, Side

\* What lies to one side of a node that lies to that side of another does so, too.
LEMMA SideOrder ==
  /\ \A x, y, z \in Keys : y # z /\ x # y /\ Side(x, y) = Side(y, z) => x # z /\ Side(x, z) = Side(x, y)
  /\ \A x, y \in Keys : x # y => Side(y, x) = Other(Side(x, y))
  BY KeysAssumption DEF Side, Other

\* The part below a node holds the node, and the parts below its children.
LEMMA InItself ==
  ASSUME NEW t, NEW E, NEW sub, Shape(t, E, sub), NEW n \in E
  PROVE  n \in Keys /\ n \in sub[n] /\ \A d \in Sides : sub[t.child[d][n]] \subseteq sub[n]
  BY DEF Shape, Bounds, Divides, Sides

-----------------------------------------------------------------------------
(* Induction over the nodes of a tree *)

\* A set of numbers that is not empty has a smallest one.
LEMMA SmallestExists ==
  ASSUME NEW D, D \subseteq Nat, D # {}
  PROVE  \E d \in D : \A e \in D : d <= e
<1> DEFINE Less == {r \in Nat \X Nat : r[1] < r[2]}
<1>1. IsWellFoundedOn(Less, Nat)
  BY NatLessThanWellFounded DEF OpToRel
<1>2. PICK d \in D : \A e \in D : <<e, d>> \notin Less
  <2> HIDE DEF Less
  <2>q. QED
    BY <1>1, WFMin
<1>3. ASSUME NEW e \in D
      PROVE  d <= e
  <2>1. d \in Nat /\ e \in Nat /\ (e < d => <<e, d>> \in Less)
    OBVIOUS
  <2>2. ~(e < d)
    BY <1>2, <2>1
  <2>q. QED
    BY <2>1, <2>2
<1>q. QED
  BY <1>3

\* The part below a child is smaller than that below the node.
LEMMA Sizes ==
  ASSUME NEW t, NEW E, NEW sub, Shape(t, E, sub)
  PROVE  /\ Cardinality(E) \in Nat
         /\ \A n \in E : Cardinality(sub[n]) \in Nat /\ Cardinality(sub[n]) <= Cardinality(E)
         /\ \A n \in E : \A d \in Sides :
              t.child[d][n] \in E => Cardinality(sub[t.child[d][n]]) < Cardinality(sub[n])
<1>1. Cardinality(E) \in Nat
  BY FS_CardinalityType DEF Shape, Bounds
<1>2. ASSUME NEW n \in E
      PROVE  /\ IsFiniteSet(sub[n]) /\ Cardinality(sub[n]) \in Nat
             /\ Cardinality(sub[n]) <= Cardinality(E)
  <2>1. n \in Links /\ sub[n] \in SUBSET E /\ IsFiniteSet(E)
    BY DEF Shape, Bounds, Links
  <2>q. QED
    BY <2>1, FS_Subset, FS_CardinalityType
<1>3. ASSUME NEW n \in E, NEW d \in Sides, t.child[d][n] \in E
      PROVE  Cardinality(sub[t.child[d][n]]) < Cardinality(sub[n])
  <2> DEFINE c == t.child[d][n]
  <2>1. sub[c] \subseteq sub[n] /\ n \in sub[n] /\ n \notin sub[c]
    BY DEF Shape, Divides, Sides
  <2>2. Cardinality(sub[c]) <= Cardinality(sub[n]) /\ Cardinality(sub[c]) # Cardinality(sub[n])
    BY <1>2, <2>1, FS_Subset
  <2>3. Cardinality(sub[c]) \in Nat /\ Cardinality(sub[n]) \in Nat
    BY <1>2, <1>3
  <2>q. QED
    BY <2>2, <2>3
<1>q. QED
  BY <1>1, <1>2, <1>3

\* A set that holds no node without one of its children holds no node.
LEMMA LowestNode ==
  ASSUME NEW t, NEW E, NEW sub, Shape(t, E, sub), NEW B \in SUBSET E, B # {}
  PROVE  \E n \in B : \A d \in Sides : t.child[d][n] \notin B
<1> DEFINE size(n) == Cardinality(sub[n])
           D == {size(n) : n \in B}
<1>1. PICK k \in D : \A e \in D : k <= e
  <2>1. D \subseteq Nat /\ D # {}
    BY Sizes
  <2> HIDE DEF D
  <2>q. QED
    BY <2>1, SmallestExists
<1>2. PICK n \in B : k = size(n)
  OBVIOUS
<1>3. ASSUME NEW d \in Sides, t.child[d][n] \in B
      PROVE  FALSE
  <2> DEFINE c == t.child[d][n]
  <2>1. size(c) < size(n) /\ size(c) \in Nat /\ size(n) \in Nat
    BY <1>3, Sizes
  <2>2. size(n) <= size(c)
    BY <1>1, <1>2, <1>3
  <2> HIDE DEF size
  <2>q. QED
    BY <2>1, <2>2
<1>q. QED
  BY <1>3

\* A node below another has its parent there, too, or is that node.
LEMMA ParentInside ==
  ASSUME NEW t, NEW E, NEW sub, Shape(t, E, sub)
  PROVE  \A m \in E : \A c \in sub[m] : c = m \/ t.parent[c] \in sub[m]
<1> DEFINE B == {m \in E : \E c \in sub[m] : c # m /\ t.parent[c] \notin sub[m]}
<1>1. SUFFICES ASSUME B # {}
               PROVE  FALSE
  OBVIOUS
<1>2. PICK m \in B : \A d \in Sides : t.child[d][m] \notin B
  BY <1>1, LowestNode
<1>3. PICK c \in sub[m] : c # m /\ t.parent[c] \notin sub[m]
  OBVIOUS
<1>4. PICK d \in Sides : c \in sub[t.child[d][m]]
  BY <1>3 DEF Shape, Divides, Sides
<1>5. t.child[d][m] # Nil /\ t.child[d][m] \in E /\ t.parent[t.child[d][m]] = m
  BY <1>4 DEF Shape, Linked
<1>6. sub[t.child[d][m]] \subseteq sub[m] /\ m \in sub[m]
  BY DEF Shape, Divides, Sides
<1>q. QED
  BY <1>2, <1>3, <1>4, <1>5, <1>6

-----------------------------------------------------------------------------
(* Searches *)

\* f is where a walk ends that begins at a node and goes on to the next one until it stops.
WalkEnd(f, stop, out, next) ==
  /\ f = [n \in Keys |-> f[n]]
  /\ \A n \in Keys : f[n] = IF n \in stop THEN out[n] ELSE f[next[n]]

\* Its nodes have numbers below a bound that decrease.
Descends(rank, bound, stop, next) ==
  /\ rank \in [Keys -> Nat] /\ bound \in Nat /\ \A n \in Keys : rank[n] < bound
  /\ \A n \in Keys : n \notin stop => next[n] \in Keys /\ rank[next[n]] < rank[n]

\* A walk that gets closer to its end with each step is a function.
LEMMA WalkExists ==
  ASSUME NEW rank, NEW bound, NEW stop, NEW out, NEW next, Descends(rank, bound, stop, next)
  PROVE  \E f : WalkEnd(f, stop, out, next)
<1> USE DEF Descends
<1> DEFINE D(k) == {n \in Keys : rank[n] < k}
           G(k) == \E f : f = [n \in D(k) |-> IF n \in stop THEN out[n] ELSE f[next[n]]]
           B == {k \in Nat : ~G(k)}
<1>1. D(bound) = Keys
  OBVIOUS
<1>2. SUFFICES ASSUME B # {}
               PROVE  FALSE
  <2>1. G(bound)
    BY <1>2
  <2>2. PICK f : f = [n \in Keys |-> IF n \in stop THEN out[n] ELSE f[next[n]]]
    BY <1>1, <2>1
  <2>q. QED
    BY <2>2 DEF WalkEnd
<1>3. PICK k \in B : \A e \in B : k <= e
  <2>1. B \subseteq Nat
    OBVIOUS
  <2> HIDE DEF B
  <2>q. QED
    BY <1>2, <2>1, SmallestExists
<1>4. k # 0
  <2>1. D(0) = {}
    OBVIOUS
  <2> DEFINE f == [n \in D(0) |-> 0]
  <2>2. f = [n \in D(0) |-> IF n \in stop THEN out[n] ELSE f[next[n]]]
    BY <2>1
  <2>3. G(0)
    <3> HIDE DEF f
    <3>q. QED
      BY <2>2
  <2>q. QED
    BY <2>3
<1>5. k \in Nat /\ k - 1 \in Nat /\ k - 1 < k
  BY <1>4
<1>6. G(k - 1)
  <2>1. k - 1 \notin B
    <3> HIDE DEF B
    <3>q. QED
      BY <1>3, <1>5
  <2>q. QED
    BY <1>5, <2>1
<1>7. PICK g : g = [n \in D(k - 1) |-> IF n \in stop THEN out[n] ELSE g[next[n]]]
  BY <1>6
<1> DEFINE f == [n \in D(k) |-> IF n \in stop THEN out[n] ELSE g[next[n]]]
<1>8. ASSUME NEW n \in D(k - 1)
      PROVE  n \in D(k) /\ f[n] = g[n]
  <2>1. g[n] = IF n \in stop THEN out[n] ELSE g[next[n]]
    BY <1>7
  <2>2. n \in D(k)
    BY <1>5
  <2>q. QED
    BY <2>1, <2>2
<1>9. ASSUME NEW n \in D(k), n \notin stop
      PROVE  next[n] \in D(k - 1)
  BY <1>5, <1>9
<1>10. f = [n \in D(k) |-> IF n \in stop THEN out[n] ELSE f[next[n]]]
  <2>1. ASSUME NEW n \in D(k)
        PROVE  f[n] = IF n \in stop THEN out[n] ELSE f[next[n]]
    BY <1>8, <1>9
  <2>q. QED
    BY <2>1
<1>11. G(k)
  <2> HIDE DEF f
  <2>q. QED
    BY <1>10
<1>q. QED
  BY <1>3, <1>11

\* A search for e that came to n has not passed the place of e.
OnTheWay(t, E, sub, e, n) ==
  /\ \A m \in E : \A d \in Sides : n \in sub[t.child[d][m]] => e # m /\ Side(e, m) = d
  /\ e \in E => e \in sub[n]

\* Each step of a search keeps the place of e below the node it came to.
LEMMA WayDown ==
  ASSUME NEW t, NEW E, NEW sub, Shape(t, E, sub), NEW e \in Keys, NEW n \in E, n # e,
         OnTheWay(t, E, sub, e, n)
  PROVE  LET c == t.child[Side(e, n)][n] IN
           /\ c # Nil => c \in E /\ t.parent[c] = n /\ OnTheWay(t, E, sub, e, c)
           /\ c = Nil => e \notin E
<1> DEFINE s == Side(e, n)
           c == t.child[s][n]
<1>1. s \in Sides
  BY SideFacts
<1>2. e \in E => e \in sub[c]
  <2>1. \A d \in Sides : e \in sub[t.child[d][n]] => s = d
    BY DEF Shape, Divides
  <2>2. e \in E => e \in sub[t.child["L"][n]] \/ e \in sub[t.child["R"][n]]
    BY DEF OnTheWay, Shape, Divides
  <2>q. QED
    BY <2>1, <2>2, SideFacts
<1>3. ASSUME c # Nil, NEW m \in E, NEW d \in Sides, c \in sub[t.child[d][m]]
      PROVE  e # m /\ Side(e, m) = d
  <2>1. c \in E /\ t.parent[c] = n
    BY <1>1, <1>3 DEF Shape, Linked
  <2>2. CASE m = n
    <3>1. c \in sub[t.child[s][n]] /\ c \in sub[t.child[d][n]]
      BY <1>3, <2>1, <2>2, InItself
    <3>q. QED
      BY <1>1, <2>2, <3>1 DEF Shape, Divides
  <2>3. CASE m # n
    <3>1. t.child[d][m] \in E /\ t.parent[t.child[d][m]] = m
      BY <1>3 DEF Shape, Linked
    <3>2. n \in sub[t.child[d][m]]
      BY <1>3, <2>1, <2>3, <3>1, ParentInside
    <3>q. QED
      BY <3>2 DEF OnTheWay
  <2>q. QED
    BY <2>2, <2>3
<1>4. c # Nil => c \in E /\ t.parent[c] = n
  BY <1>1 DEF Shape, Linked
<1>5. c = Nil => e \notin E
  BY <1>2 DEF Shape
<1>q. QED
  BY <1>2, <1>3, <1>4, <1>5 DEF OnTheWay

\* The search finds e if it is in the tree, and else where it belongs.
LEMMA PlaceOf ==
  ASSUME NEW t, NEW E, NEW sub, Shape(t, E, sub), NEW e \in Keys
  PROVE  LET p == Place(t, e) IN
           /\ e \in E => p = e
           /\ E = {} => p = Nil
           /\ E # {} /\ e \notin E =>
                p \in E /\ t.child[Side(e, p)][p] = Nil /\ OnTheWay(t, E, sub, e, p)
<1> DEFINE f == CHOOSE f : f = [n \in Keys |-> LET c == t.child[Side(e, n)][n]
                                               IN IF n = e \/ c = Nil THEN n ELSE f[c]]
           Good(p) ==
             p \in E /\ OnTheWay(t, E, sub, e, p) /\ (p = e \/ t.child[Side(e, p)][p] = Nil)
           B == {n \in E : OnTheWay(t, E, sub, e, n) /\ ~Good(f[n])}
<1>1. \E g : g = [n \in Keys |-> LET c == t.child[Side(e, n)][n]
                                 IN IF n = e \/ c = Nil THEN n ELSE g[c]]
  <2> DEFINE rank == [n \in Keys |-> IF n \in E THEN Cardinality(sub[n]) ELSE 0]
             next == [n \in Keys |-> t.child[Side(e, n)][n]]
             stop == {n \in Keys : n = e \/ next[n] = Nil}
             out == [n \in Keys |-> n]
             bound == Cardinality(E) + 1
  <2>1. rank \in [Keys -> Nat] /\ bound \in Nat /\ \A n \in Keys : rank[n] < bound
    BY Sizes
  <2>2. ASSUME NEW n \in Keys, n \notin stop
        PROVE  next[n] \in Keys /\ rank[next[n]] < rank[n]
    <3>1. n \in E /\ next[n] \in E
      BY <2>2, SideFacts DEF Shape, Bounds, Linked
    <3>q. QED
      BY <3>1, SideFacts, Sizes DEF Shape, Bounds
  <2>3. PICK g : WalkEnd(g, stop, out, next)
    <3>1. Descends(rank, bound, stop, next)
      BY <2>1, <2>2 DEF Descends
    <3>q. QED
      BY <3>1, WalkExists
  <2>4. g = [n \in Keys |-> LET c == t.child[Side(e, n)][n]
                            IN IF n = e \/ c = Nil THEN n ELSE g[c]]
    <3>1. ASSUME NEW n \in Keys
          PROVE  g[n] = LET c == t.child[Side(e, n)][n] IN IF n = e \/ c = Nil THEN n ELSE g[c]
      BY <2>3 DEF WalkEnd
    <3>q. QED
      BY <2>3, <3>1 DEF WalkEnd
  <2>q. QED
    BY <2>4
<1>2. f = [n \in Keys |-> LET c == t.child[Side(e, n)][n]
                          IN IF n = e \/ c = Nil THEN n ELSE f[c]]
  BY <1>1
<1>3. Place(t, e) = IF t.root = Nil THEN Nil ELSE f[t.root]
  BY DEF Place
<1> HIDE DEF f
<1>4. ASSUME NEW n \in Keys
      PROVE  LET c == t.child[Side(e, n)][n] IN f[n] = IF n = e \/ c = Nil THEN n ELSE f[c]
  BY <1>2
<1>5. B = {}
  <2>1. SUFFICES ASSUME B # {}
                 PROVE  FALSE
    OBVIOUS
  <2>2. PICK n \in B : \A d \in Sides : t.child[d][n] \notin B
    <3>1. B \in SUBSET E
      OBVIOUS
    <3> HIDE DEF B
    <3>q. QED
      BY <2>1, <3>1, LowestNode
  <2>3. n \in Keys /\ n # e /\ t.child[Side(e, n)][n] # Nil
    BY <1>4 DEF Shape, Bounds
  <2>4. t.child[Side(e, n)][n] \in B
    BY <1>4, <2>3, WayDown
  <2>q. QED
    BY <2>2, <2>4, SideFacts
<1>6. ASSUME E # {}
      PROVE  Good(Place(t, e))
  <2>1. t.root \in E /\ sub[t.root] = E
    BY <1>6 DEF Shape, Bounds
  <2>2. OnTheWay(t, E, sub, e, t.root)
    <3>1. ASSUME NEW m \in E, NEW d \in Sides, t.root \in sub[t.child[d][m]]
          PROVE  FALSE
      <4>1. t.child[d][m] \in E /\ t.parent[t.child[d][m]] = m
        BY <3>1 DEF Shape, Linked
      <4>2. t.root # Nil /\ t.parent[t.root] = Nil /\ m # Nil /\ sub[t.child[d][m]] \subseteq E
        BY <2>1, <4>1, NilFacts DEF Shape, Bounds, Links
      <4>3. t.root = t.child[d][m]
        BY <3>1, <4>1, <4>2, ParentInside, NilFacts DEF Shape, Bounds
      <4>q. QED
        BY <4>1, <4>2, <4>3
    <3>q. QED
      BY <2>1, <3>1 DEF OnTheWay
  <2>q. QED
    BY <1>3, <1>5, <2>1, <2>2, NilFacts DEF Shape, Bounds
<1>7. ASSUME e \in E
      PROVE  Place(t, e) = e
  BY <1>6, <1>7, WayDown
<1>8. E = {} => Place(t, e) = Nil
  BY <1>3 DEF Shape, Bounds
<1>q. QED
  BY <1>6, <1>7, <1>8

\* The walk to side d ends at the last key on that side.
LEMMA OutermostOf ==
  ASSUME NEW t, NEW E, NEW sub, Shape(t, E, sub), NEW n \in E, NEW d \in Sides
  PROVE  LET s == Outermost(t, n, d) IN
           /\ s \in sub[n] /\ t.child[d][s] = Nil
           /\ \A y \in sub[n] : y = s \/ Side(y, s) = Other(d)
<1> DEFINE f == CHOOSE f : f = [m \in Keys |-> IF t.child[d][m] = Nil THEN m ELSE f[t.child[d][m]]]
           Good(m) == /\ f[m] \in sub[m] /\ t.child[d][f[m]] = Nil
                      /\ \A y \in sub[m] : y = f[m] \/ Side(y, f[m]) = Other(d)
           B == {m \in E : ~Good(m)}
<1>1. \E g : g = [m \in Keys |-> IF t.child[d][m] = Nil THEN m ELSE g[t.child[d][m]]]
  <2> DEFINE rank == [m \in Keys |-> IF m \in E THEN Cardinality(sub[m]) ELSE 0]
             next == t.child[d]
             stop == {m \in Keys : next[m] = Nil}
             out == [m \in Keys |-> m]
             bound == Cardinality(E) + 1
  <2>1. rank \in [Keys -> Nat] /\ bound \in Nat /\ \A m \in Keys : rank[m] < bound
    BY Sizes
  <2>2. ASSUME NEW m \in Keys, m \notin stop
        PROVE  next[m] \in Keys /\ rank[next[m]] < rank[m]
    <3>1. m \in E /\ next[m] \in E
      BY <2>2 DEF Shape, Bounds, Linked
    <3>q. QED
      BY <3>1, Sizes DEF Shape, Bounds
  <2>3. PICK g : WalkEnd(g, stop, out, next)
    <3>1. Descends(rank, bound, stop, next)
      BY <2>1, <2>2 DEF Descends
    <3>q. QED
      BY <3>1, WalkExists
  <2>4. g = [m \in Keys |-> IF t.child[d][m] = Nil THEN m ELSE g[t.child[d][m]]]
    <3>1. ASSUME NEW m \in Keys
          PROVE  g[m] = IF t.child[d][m] = Nil THEN m ELSE g[t.child[d][m]]
      BY <2>3 DEF WalkEnd
    <3>q. QED
      BY <2>3, <3>1 DEF WalkEnd
  <2>q. QED
    BY <2>4
<1>2. f = [m \in Keys |-> IF t.child[d][m] = Nil THEN m ELSE f[t.child[d][m]]]
  BY <1>1
<1>3. Outermost(t, n, d) = f[n]
  BY NilFacts DEF Outermost, Shape, Bounds
<1> HIDE DEF f
<1>4. ASSUME NEW m \in Keys
      PROVE  f[m] = IF t.child[d][m] = Nil THEN m ELSE f[t.child[d][m]]
  BY <1>2
<1>5. B = {}
  <2>1. SUFFICES ASSUME B # {}
                 PROVE  FALSE
    OBVIOUS
  <2>2. PICK m \in B : \A e \in Sides : t.child[e][m] \notin B
    <3>1. B \in SUBSET E
      OBVIOUS
    <3> HIDE DEF B
    <3>q. QED
      BY <2>1, <3>1, LowestNode
  <2> DEFINE c == t.child[d][m]
             o == t.child[Other(d)][m]
  <2>3. m \in E /\ m \in Keys /\ m \in sub[m] /\ sub[c] \subseteq sub[m] /\ sub[m] \subseteq Keys
    BY InItself, NilFacts DEF Shape, Bounds
  <2>4. \A y \in sub[m] : y = m \/ y \in sub[c] \/ (y \in sub[o] /\ Side(y, m) = Other(d))
    BY <2>3, SideFacts DEF Shape, Divides, Sides
  <2>5. CASE c = Nil
    <3>1. f[m] = m
      BY <1>4, <2>3, <2>5
    <3>2. Good(m)
      BY <2>3, <2>4, <2>5, <3>1 DEF Shape
    <3>q. QED
      BY <3>2
  <2>6. CASE c # Nil
    <3>1. f[m] = f[c] /\ c \in E /\ Good(c)
      BY <1>4, <2>2, <2>3, <2>6 DEF Shape, Linked
    <3> DEFINE s == f[m]
    <3>2. s \in sub[c] /\ s \in sub[m] /\ t.child[d][s] = Nil
      BY <2>3, <3>1
    <3>3. s # m /\ Side(s, m) = d /\ s \in Keys
      BY <2>3, <3>2 DEF Shape, Divides
    <3>4. Side(m, s) = Other(d)
      BY <2>3, <3>3, SideOrder
    <3> HIDE DEF s
    <3>5. ASSUME NEW y \in sub[o], Side(y, m) = Other(d), y # m
          PROVE  Side(y, s) = Other(d)
      <4>1. y \in Keys
        BY SideFacts DEF Shape, Divides, Bounds, Links
      <4>q. QED
        BY <2>3, <3>3, <3>4, <3>5, <4>1, SideOrder
    <3>6. ASSUME NEW y \in sub[m]
          PROVE  y = s \/ Side(y, s) = Other(d)
      BY <2>4, <3>1, <3>4, <3>5 DEF s
    <3>q. QED
      BY <3>2, <3>6 DEF s
  <2>q. QED
    BY <2>5, <2>6
<1>q. QED
  BY <1>3, <1>5

-----------------------------------------------------------------------------
(* Macros that change links and colors *)

\* What each of them makes of a tree t.
Painted(t, n, c, u) ==
  /\ u \in Tree /\ u.root = t.root /\ u.child = t.child /\ u.parent = t.parent
  /\ \A m \in Keys : u.color[m] = IF m = n THEN c ELSE t.color[m]

Adopted(t, n, p, u) ==
  /\ u \in Tree /\ u.root = t.root /\ u.child = t.child /\ u.color = t.color
  /\ \A m \in Keys : u.parent[m] = IF m = n THEN p ELSE t.parent[m]

Hung(t, d, n, c, u) ==
  /\ u \in Tree /\ u.root = t.root /\ u.parent = t.parent /\ u.color = t.color
  /\ \A k \in Sides, m \in Keys :
       u.child[k][m] = IF k = d /\ m = n THEN c ELSE t.child[k][m]

Relinked(t, p, old, new, u) ==
  /\ u \in Tree /\ u.parent = t.parent /\ u.color = t.color
  /\ u.root = IF p = Nil THEN new ELSE t.root
  /\ \A k \in Sides, m \in Keys :
       u.child[k][m] =
         IF m = p /\ k = (IF t.child["L"][p] = old THEN "L" ELSE "R") THEN new
         ELSE t.child[k][m]

\* What Paint changes.
LEMMA PaintIs ==
  ASSUME NEW t \in Tree, NEW n \in Links, NEW c \in {"red", "black"}
  PROVE  Painted(t, n, c, Paint(t, n, c))
  BY NilFacts DEF Painted, Paint, Tree, Links

\* What SetParent changes.
LEMMA SetParentIs ==
  ASSUME NEW t \in Tree, NEW n \in Links, NEW p \in Links
  PROVE  Adopted(t, n, p, SetParent(t, n, p))
  BY NilFacts DEF Adopted, SetParent, Tree, Links

\* What an assignment to a link changes.
LEMMA SetChildIs ==
  ASSUME NEW t \in Tree, NEW d \in Sides, NEW n \in Keys, NEW c \in Links
  PROVE  Hung(t, d, n, c, [t EXCEPT !.child[d][n] = c])
  BY DEF Hung, Tree

\* What Relink changes.
LEMMA RelinkIs ==
  ASSUME NEW t \in Tree, NEW p \in Links, NEW old, NEW new \in Links
  PROVE  Relinked(t, p, old, new, Relink(t, p, old, new))
<1>1. CASE p = Nil
  BY <1>1, NilFacts DEF Relinked, Relink, Tree, Links
<1>2. CASE p # Nil
  <2> DEFINE d == IF t.child["L"][p] = old THEN "L" ELSE "R"
  <2>1. p \in Keys /\ d \in Sides
    BY <1>2, SideFacts DEF Links
  <2>2. Relink(t, p, old, new) = [t EXCEPT !.child[d][p] = new]
    BY <1>2 DEF Relink
  <2> HIDE DEF d
  <2>3. Hung(t, d, p, new, Relink(t, p, old, new))
    BY <2>1, <2>2, SetChildIs
  <2>q. QED
    BY <1>2, <2>3 DEF Hung, Relinked, d
<1>q. QED
  BY <1>1, <1>2

\* A node divides the keys below it, seen from either side.
LEMMA Divided ==
  ASSUME NEW t, NEW E, NEW sub, Shape(t, E, sub), NEW n \in E, NEW d \in Sides
  PROVE  /\ sub[n] = {n} \cup sub[t.child[d][n]] \cup sub[t.child[Other(d)][n]]
         /\ \A x \in sub[t.child[d][n]] : x # n /\ Side(x, n) = d
         /\ \A x \in sub[t.child[Other(d)][n]] : x # n /\ Side(x, n) = Other(d)
  BY DEF Shape, Divides, Sides, Other

\* A node and what it is linked with.
LEMMA Family ==
  ASSUME NEW t, NEW E, NEW sub, Shape(t, E, sub), NEW e \in E
  PROVE  /\ t \in Tree /\ E \subseteq Keys /\ e \in Keys
         /\ t.parent[e] = Nil <=> e = t.root
         /\ t.parent[e] # Nil => t.parent[e] \in E /\ t.parent[e] # e
         /\ \A d \in Sides : t.child[d][e] # Nil =>
              /\ t.child[d][e] \in E /\ t.child[d][e] # e /\ t.parent[t.child[d][e]] = e
              /\ t.child[d][e] # t.child[Other(d)][e]
              /\ t.child[d][e] # t.parent[e]
         /\ t.parent[e] # Nil =>
              \E k \in Sides : t.child[k][t.parent[e]] = e /\ t.child[Other(k)][t.parent[e]] # e
<1>1. t \in Tree /\ E \subseteq Keys /\ e \in Keys /\ (t.parent[e] = Nil <=> e = t.root)
  BY NilFacts DEF Shape, Bounds, Linked
<1>2. ASSUME NEW n \in E, NEW d \in Sides, t.child[d][n] # Nil
      PROVE  /\ t.child[d][n] \in E /\ t.parent[t.child[d][n]] = n
             /\ t.child[d][n] # n /\ Side(t.child[d][n], n) = d
  <2>1. t.child[d][n] \in E /\ t.parent[t.child[d][n]] = n
    BY <1>2 DEF Shape, Linked
  <2>2. t.child[d][n] \in sub[t.child[d][n]]
    BY <2>1, InItself
  <2>q. QED
    BY <2>1, <2>2 DEF Shape, Divides
<1>3. ASSUME NEW n \in E, NEW d \in Sides, t.child[d][n] # Nil
      PROVE  t.child[d][n] # t.child[Other(d)][n]
  BY <1>2, <1>3, SideFacts
<1>4. ASSUME t.parent[e] # Nil
      PROVE  /\ t.parent[e] \in E /\ t.parent[e] # e
             /\ \E k \in Sides : t.child[k][t.parent[e]] = e /\ t.child[Other(k)][t.parent[e]] # e
  <2>1. t.parent[e] \in E /\ \E k \in Sides : t.child[k][t.parent[e]] = e
    BY <1>1, <1>4 DEF Shape, Linked
  <2>q. QED
    BY <1>1, <1>2, <1>3, <2>1, NilFacts
<1>5. ASSUME NEW d \in Sides, t.child[d][e] # Nil, t.child[d][e] = t.parent[e]
      PROVE  FALSE
  <2>1. PICK k \in Sides : t.child[k][t.parent[e]] = e
    BY <1>4, <1>5
  <2>2. t.parent[e] \in E /\ t.parent[e] \in Keys
    BY <1>1, <1>4, <1>5
  <2>3. Side(e, t.parent[e]) = k /\ Side(t.parent[e], e) = d /\ t.parent[e] # e
    BY <1>1, <1>2, <1>5, <2>1, <2>2, NilFacts
  <2>4. t.parent[e] \in sub[e] /\ e \in sub[t.parent[e]] /\ sub[e] \subseteq sub[t.parent[e]]
    BY <1>5, <2>1, <2>2, InItself
  <2>5. k = Other(d)
    BY <1>1, <2>2, <2>3, SideOrder
  <2>6. t.parent[e] \in sub[t.child[k][t.parent[e]]]
    BY <2>1, <2>4
  <2>q. QED
    BY <2>2, <2>6 DEF Shape, Divides
<1>q. QED
  BY <1>1, <1>2, <1>3, <1>4, <1>5

\* A rotation: the links it changes.
Rotated(t, d, e, u) ==
  LET o     == Other(d)
      tmp   == t.child[o][e]
      inner == t.child[d][tmp]
      p     == t.parent[e]
  IN /\ u \in Tree /\ u.color = t.color
     /\ u.root = IF p = Nil THEN tmp ELSE t.root
     /\ \A n \in Keys :
          u.parent[n] = IF n = tmp THEN p
                        ELSE IF n = e THEN tmp
                        ELSE IF n = inner THEN e ELSE t.parent[n]
     /\ \A k \in Sides, n \in Keys :
          u.child[k][n] = IF n = e /\ k = o THEN inner
                          ELSE IF n = tmp /\ k = d THEN e
                          ELSE IF n = p /\ t.child[k][n] = e THEN tmp ELSE t.child[k][n]

\* What RB_ROTATE_LEFT and RB_ROTATE_RIGHT change, of a node with a child on the other side.
LEMMA RotateIs ==
  ASSUME NEW t, NEW E, NEW sub, Shape(t, E, sub), NEW d \in Sides, NEW e \in E,
         t.child[Other(d)][e] # Nil
  PROVE  Rotated(t, d, e, Rotate(t, d, e))
<1> DEFINE o     == Other(d)
           tmp   == t.child[o][e]
           inner == t.child[d][tmp]
           p     == t.parent[e]
           t0    == [t EXCEPT !.child[o][e] = inner]
           t1    == SetParent(t0, inner, e)
           t2    == Relink(t1, p, e, tmp)
           t3    == SetParent(t2, tmp, p)
           t4    == [t3 EXCEPT !.child[d][tmp] = e]
           t5    == SetParent(t4, e, tmp)
<1>1. /\ t \in Tree /\ e \in Keys /\ tmp \in Keys /\ o \in Sides /\ inner \in Links /\ p \in Links
      /\ tmp # e /\ tmp # p /\ p # e /\ inner # e /\ inner # tmp /\ d # o
      /\ e \in Links /\ tmp \in Links
  <2>1. /\ tmp \in E /\ tmp # e /\ tmp # p /\ t.parent[tmp] = e /\ t \in Tree /\ E \subseteq Keys
        /\ e \in Keys /\ o \in Sides /\ d # o
    BY Family, SideFacts
  <2>2. inner # tmp /\ inner # e /\ p # e
    BY <2>1, Family, NilFacts, SideFacts
  <2>q. QED
    BY <2>1, <2>2, NilFacts DEF Tree
<1>2. \A k \in Sides : p # Nil /\ t.child[k][p] = e => t.child[Other(k)][p] # e
  BY Family, SideFacts
<1>3. p # Nil => \E k \in Sides : t.child[k][p] = e
  BY Family
<1>4. Rotate(t, d, e) = t5
  BY DEF Rotate
<1> HIDE DEF o, tmp, inner, p
<1>5. Hung(t, o, e, inner, t0)
  BY <1>1, SetChildIs
<1> HIDE DEF t0
<1>6. Adopted(t0, inner, e, t1)
  BY <1>1, <1>5, SetParentIs DEF Hung
<1> HIDE DEF t1
<1>7. Relinked(t1, p, e, tmp, t2)
  BY <1>1, <1>6, RelinkIs DEF Adopted
<1> HIDE DEF t2
<1>8. Adopted(t2, tmp, p, t3)
  BY <1>1, <1>7, SetParentIs DEF Relinked
<1> HIDE DEF t3
<1>9. Hung(t3, d, tmp, e, t4)
  BY <1>1, <1>8, SetChildIs DEF Adopted
<1> HIDE DEF t4
<1>10. Adopted(t4, e, tmp, t5)
  BY <1>1, <1>9, SetParentIs DEF Hung
<1> HIDE DEF t5
<1> USE DEF Adopted, Hung, Relinked
<1>11. \A k \in Sides, n \in Keys :
         t5.child[k][n] = IF n = e /\ k = o THEN inner
                          ELSE IF n = tmp /\ k = d THEN e
                          ELSE IF n = p /\ t.child[k][n] = e THEN tmp ELSE t.child[k][n]
  <2> SUFFICES ASSUME NEW k \in Sides, NEW n \in Keys
               PROVE  t5.child[k][n] = IF n = e /\ k = o THEN inner
                          ELSE IF n = tmp /\ k = d THEN e
                          ELSE IF n = p /\ t.child[k][n] = e THEN tmp ELSE t.child[k][n]
    OBVIOUS
  <2>1. t5.child[k][n] = IF k = d /\ n = tmp THEN e ELSE t2.child[k][n]
    BY <1>8, <1>9, <1>10
  <2>2. t2.child[k][n] =
          IF n = p /\ k = (IF t1.child["L"][p] = e THEN "L" ELSE "R") THEN tmp
          ELSE IF k = o /\ n = e THEN inner ELSE t.child[k][n]
    BY <1>5, <1>6, <1>7
  <2>3. CASE n = p
    <3>1. t1.child["L"][p] = t.child["L"][p] /\ p # Nil
      BY <1>1, <1>5, <1>6, <2>3, SideFacts, NilFacts
    <3>2. k = (IF t.child["L"][p] = e THEN "L" ELSE "R") <=> t.child[k][p] = e
      BY <1>2, <1>3, <3>1 DEF Sides, Other
    <3>q. QED
      BY <1>1, <2>1, <2>2, <2>3, <3>1, <3>2
  <2>4. CASE n # p
    BY <1>1, <2>1, <2>2, <2>4
  <2>q. QED
    BY <2>3, <2>4
<1>12. \A n \in Keys :
         t5.parent[n] = IF n = tmp THEN p
                        ELSE IF n = e THEN tmp
                        ELSE IF n = inner THEN e ELSE t.parent[n]
  BY <1>1, <1>5, <1>6, <1>7, <1>8, <1>9, <1>10
<1>13. /\ t5 \in Tree /\ t5.color = t.color
       /\ t5.root = IF p = Nil THEN tmp ELSE t.root
  BY <1>5, <1>6, <1>7, <1>8, <1>9, <1>10
<1>q. QED
  BY <1>4, <1>11, <1>12, <1>13 DEF Rotated, o, tmp, inner, p

\* The parts below the two nodes a rotation exchanges.
Turned(t, d, e, sub) ==
  LET tmp == t.child[Other(d)][e]
  IN [n \in Links |-> IF n = tmp THEN sub[e]
                      ELSE IF n = e THEN {e} \cup sub[t.child[d][e]] \cup sub[t.child[d][tmp]]
                      ELSE sub[n]]

\* A rotation leaves a search tree of the same keys.
LEMMA RotateShape ==
  ASSUME NEW t, NEW E, NEW sub, Shape(t, E, sub), NEW d \in Sides, NEW e \in E,
         t.child[Other(d)][e] # Nil, NEW u, Rotated(t, d, e, u)
  PROVE  Shape(u, E, Turned(t, d, e, sub))
<1> DEFINE o     == Other(d)
           tmp   == t.child[o][e]
           inner == t.child[d][tmp]
           p     == t.parent[e]
           near  == t.child[d][e]
           outer == t.child[o][tmp]
           sub2  == Turned(t, d, e, sub)
<1>1. /\ t \in Tree /\ E \subseteq Keys /\ e \in Keys /\ tmp \in E /\ tmp \in Keys
      /\ o \in Sides /\ d # o /\ Other(o) = d
      /\ p \in E \cup {Nil} /\ inner \in E \cup {Nil} /\ near \in E \cup {Nil} /\ outer \in E \cup {Nil}
      /\ t.parent[tmp] = e /\ (inner # Nil => t.parent[inner] = tmp)
      /\ (near # Nil => t.parent[near] = e) /\ (outer # Nil => t.parent[outer] = tmp)
      /\ p = Nil <=> e = t.root
      /\ tmp # t.root /\ e # Nil /\ tmp # Nil
  BY Family, SideFacts, NilFacts
<1>2. /\ tmp # e /\ tmp # p /\ p # e /\ inner # e /\ inner # tmp /\ near # e /\ near # tmp
      /\ outer # e /\ outer # tmp
      /\ (inner # Nil => inner # near /\ inner # outer /\ inner # p)
      /\ (near # Nil => near # p) /\ (outer # Nil => outer # p)
  <2>1. tmp # e /\ tmp # p /\ p # e /\ inner # tmp /\ near # e /\ outer # tmp
    BY <1>1, Family
  <2>0. near # tmp
    BY <1>1, Family
  <2>2. inner # e /\ outer # e
    BY <1>1, <2>1, Family
  <2>3. p # Nil => p \notin sub[e]
    <3>1. p # Nil => \E k \in Sides : t.child[k][p] = e
      BY Family
    <3>q. QED
      BY <1>1, <3>1 DEF Shape, Divides
  <2>4. sub[inner] \subseteq sub[e] /\ sub[outer] \subseteq sub[e]
    BY <1>1, InItself
  <2>5. (inner # Nil => inner # p) /\ (outer # Nil => outer # p)
    BY <1>1, <2>3, <2>4, InItself
  <2>6. (inner # Nil => inner # near /\ inner # outer) /\ (near # Nil => near # p)
    BY <1>1, <2>1, Family
  <2> HIDE DEF o, tmp, inner, p, near, outer
  <2>q. QED
    BY <2>0, <2>1, <2>2, <2>5, <2>6
<1>3. \A n \in E : \A k \in Sides :
        /\ t.child[k][n] = e => n = p
        /\ t.child[k][n] = tmp => n = e /\ k = o
        /\ t.child[k][n] = inner /\ inner # Nil => n = tmp /\ k = d
  <2>1. \A n \in E : \A k \in Sides : t.child[k][n] # Nil => t.parent[t.child[k][n]] = n
    BY Family
  <2>q. QED
    BY <1>1, <1>2, <2>1, Family, SideFacts
<1>4. /\ sub \in [Links -> SUBSET E] /\ sub[Nil] = {} /\ E \subseteq Links /\ Nil \in Links
      /\ sub[e] = {e} \cup sub[near] \cup sub[tmp] /\ sub[tmp] = {tmp} \cup sub[inner] \cup sub[outer]
      /\ \A x \in sub[near] : x # e /\ Side(x, e) = d
      /\ \A x \in sub[tmp] : x # e /\ Side(x, e) = o
      /\ \A x \in sub[inner] : x # tmp /\ Side(x, tmp) = d
      /\ \A x \in sub[outer] : x # tmp /\ Side(x, tmp) = o
  <2>1. sub \in [Links -> SUBSET E] /\ sub[Nil] = {} /\ E \subseteq Links /\ Nil \in Links
    BY <1>1, NilFacts DEF Shape
  <2>2. /\ sub[e] = {e} \cup sub[near] \cup sub[tmp]
        /\ \A x \in sub[near] : x # e /\ Side(x, e) = d
        /\ \A x \in sub[tmp] : x # e /\ Side(x, e) = o
    BY Divided
  <2>3. /\ sub[tmp] = {tmp} \cup sub[inner] \cup sub[outer]
        /\ \A x \in sub[inner] : x # tmp /\ Side(x, tmp) = d
        /\ \A x \in sub[outer] : x # tmp /\ Side(x, tmp) = o
    BY <1>1, Divided
  <2>q. QED
    BY <2>1, <2>2, <2>3
<1>5. /\ sub2 \in [Links -> SUBSET E]
      /\ sub2[tmp] = sub[e] /\ sub2[e] = {e} \cup sub[near] \cup sub[inner]
      /\ \A n \in Links : n # e /\ n # tmp => sub2[n] = sub[n]
  BY <1>1, <1>2, <1>4 DEF Turned
<1> DEFINE root2 == IF p = Nil THEN tmp ELSE t.root
<1>6. /\ u \in Tree /\ u.root = root2
      /\ \A n \in Keys : u.parent[n] = IF n = tmp THEN p ELSE IF n = e THEN tmp
                                       ELSE IF n = inner THEN e ELSE t.parent[n]
      /\ \A k \in Sides, n \in Keys :
           u.child[k][n] = IF n = e /\ k = o THEN inner
                           ELSE IF n = tmp /\ k = d THEN e
                           ELSE IF n = p /\ t.child[k][n] = e THEN tmp ELSE t.child[k][n]
  BY DEF Rotated
<1> DEFINE at == /\ tmp = t.child[o][e] /\ inner = t.child[d][tmp] /\ outer = t.child[o][tmp]
                 /\ near = t.child[d][e] /\ p = t.parent[e]
<1>0. at
  OBVIOUS
<1> HIDE DEF o, tmp, inner, p, near, outer, sub2
<1>7. Bounds(u, E)
  <2>1. root2 \in E /\ u.parent[root2] = Nil
    BY <1>1, <1>2, <1>6, NilFacts DEF Shape, Bounds
  <2>2. ASSUME NEW n \in Keys \ E
        PROVE  u.parent[n] = Nil /\ \A k \in Sides : u.child[k][n] = Nil
    BY <1>1, <1>6, NilFacts DEF Shape, Bounds
  <2>q. QED
    BY <1>6, <2>1, <2>2 DEF Shape, Bounds
<1>8. sub2 \in [Links -> SUBSET E] /\ sub2[Nil] = {} /\ sub2[u.root] = E
  <2>1. sub2[Nil] = {}
    BY <1>1, <1>4, <1>5
  <2>2. CASE p = Nil
    BY <1>1, <1>5, <1>6, <2>1, <2>2 DEF Shape
  <2>3. CASE p # Nil
    BY <1>1, <1>4, <1>5, <1>6, <2>1, <2>3 DEF Shape, Bounds
  <2>q. QED
    BY <1>5, <2>1, <2>2, <2>3
<1>9. ASSUME NEW n \in E
      PROVE  Divides(u, sub2, n)
  <2>1. CASE n = e
    <3>1. u.child[d][n] = near /\ u.child[o][n] = inner
      BY <1>0, <1>1, <1>2, <1>6, <2>1
    <3>2. sub2[near] = sub[near] /\ sub2[inner] = sub[inner]
      BY <1>1, <1>2, <1>4, <1>5
    <3>q. QED
      BY <1>1, <1>4, <1>5, <2>1, <3>1, <3>2 DEF Divides, Sides
  <2>2. CASE n = tmp
    <3>1. u.child[d][n] = e /\ u.child[o][n] = outer
      BY <1>0, <1>1, <1>2, <1>6, <2>2
    <3>2. sub2[outer] = sub[outer]
      BY <1>1, <1>2, <1>4, <1>5
    <3>3. sub2[n] = {n} \cup sub2[e] \cup sub2[outer]
      BY <1>4, <1>5, <2>2, <3>2
    <3>4. ASSUME NEW x \in sub2[e]
          PROVE  x # tmp /\ Side(x, tmp) = d
      <4>1. Side(tmp, e) = o /\ x \in Keys
        BY <1>1, <1>4, <1>5
      <4>2. Side(e, tmp) = d
        BY <1>1, <1>2, <4>1, SideOrder
      <4>3. CASE x \in sub[near]
        BY <1>1, <1>2, <1>4, <4>1, <4>2, <4>3, SideOrder
      <4>4. CASE x \in sub[inner]
        BY <1>4, <4>4
      <4>5. CASE x = e
        BY <1>2, <4>2, <4>5
      <4>q. QED
        BY <1>5, <4>3, <4>4, <4>5
    <3>q. QED
      BY <1>1, <1>4, <2>2, <3>1, <3>2, <3>3, <3>4 DEF Divides, Sides
  <2>3. CASE n # e /\ n # tmp
    <3>1. sub2[n] = sub[n]
      BY <1>4, <1>5, <2>3
    <3>2. ASSUME NEW k \in Sides
          PROVE  sub2[u.child[k][n]] = sub[t.child[k][n]]
      <4>1. CASE t.child[k][n] = e
        BY <1>1, <1>3, <1>5, <1>6, <2>3, <4>1
      <4>2. CASE t.child[k][n] # e
        <5>1. u.child[k][n] = t.child[k][n] /\ t.child[k][n] # tmp /\ t.child[k][n] \in Links
          BY <1>1, <1>3, <1>6, <2>3, <4>2 DEF Tree
        <5>q. QED
          BY <1>5, <4>2, <5>1
      <4>q. QED
        BY <4>1, <4>2
    <3>q. QED
      BY <3>1, <3>2 DEF Shape, Divides, Sides
  <2>q. QED
    BY <2>1, <2>2, <2>3
<1>10. ASSUME NEW n \in E, NEW k \in Sides, u.child[k][n] # Nil
       PROVE  u.child[k][n] \in E /\ u.parent[u.child[k][n]] = n
  <2>1. t.child[k][n] # Nil => t.child[k][n] \in E /\ t.parent[t.child[k][n]] = n
    BY Family
  <2>q. QED
    BY <1>1, <1>2, <1>3, <1>6, <1>10, <2>1
<1>11. ASSUME NEW n \in E, n # u.root
       PROVE  u.parent[n] \in E /\ \E k \in Sides : u.child[k][u.parent[n]] = n
  <2>1. CASE n = tmp
    <3>1. p # Nil /\ p \in E /\ \E k \in Sides : t.child[k][p] = e
      BY <1>1, <1>6, <1>11, <2>1, Family DEF p
    <3>q. QED
      BY <1>1, <1>2, <1>6, <2>1, <3>1
  <2>2. CASE n = e
    BY <1>1, <1>2, <1>6, <2>2
  <2>3. CASE n = inner
    BY <1>1, <1>2, <1>6, <2>3
  <2>4. CASE n # tmp /\ n # e /\ n # inner
    <3>1. n # t.root
      BY <1>1, <1>6, <1>11, <2>4
    <3>2. u.parent[n] = t.parent[n] /\ t.parent[n] \in E
      BY <1>1, <1>6, <2>4, <3>1 DEF Shape, Linked
    <3>3. PICK k \in Sides : t.child[k][t.parent[n]] = n
      BY <3>1 DEF Shape, Linked
    <3>4. u.child[k][t.parent[n]] = n
      BY <1>0, <1>1, <1>2, <1>6, <2>4, <3>2, <3>3
    <3>q. QED
      BY <3>2, <3>4
  <2>q. QED
    BY <2>1, <2>2, <2>3, <2>4
<1>q. QED
  BY <1>7, <1>8, <1>9, <1>10, <1>11 DEF Shape, Linked, sub2

\* A new leaf.
Attached(t, e, p, u) ==
  /\ u \in Tree
  /\ u.root = IF p = Nil THEN e ELSE t.root
  /\ \A n \in Keys : u.parent[n] = IF n = e THEN p ELSE t.parent[n]
  /\ \A n \in Keys : u.color[n] = IF n = e THEN "red" ELSE t.color[n]
  /\ \A k \in Sides, n \in Keys :
       u.child[k][n] = IF n = e THEN Nil
                       ELSE IF n = p /\ k = Side(e, p) THEN e ELSE t.child[k][n]

\* What RB_SET and the link of the parent change.
LEMMA AttachIs ==
  ASSUME NEW t \in Tree, NEW e \in Keys, NEW p \in Links, p # e
  PROVE  Attached(t, e, p, Attach(t, e, p))
<1> DEFINE t1 == [t EXCEPT !.parent[e] = p, !.child["L"][e] = Nil, !.child["R"][e] = Nil,
                           !.color[e] = "red"]
<1>1. /\ t1 \in Tree /\ t1.root = t.root
      /\ \A n \in Keys : t1.parent[n] = IF n = e THEN p ELSE t.parent[n]
      /\ \A n \in Keys : t1.color[n] = IF n = e THEN "red" ELSE t.color[n]
      /\ \A k \in Sides, n \in Keys : t1.child[k][n] = IF n = e THEN Nil ELSE t.child[k][n]
  BY NilFacts DEF Tree, Sides
<1>2. Attach(t, e, p) = IF p = Nil THEN [t1 EXCEPT !.root = e]
                        ELSE [t1 EXCEPT !.child[Side(e, p)][p] = e]
  BY DEF Attach
<1> HIDE DEF t1
<1>3. CASE p = Nil
  <2>1. Attach(t, e, p) = [t1 EXCEPT !.root = e]
    BY <1>2, <1>3
  <2>2. [t1 EXCEPT !.root = e] \in Tree
    BY <1>1, NilFacts DEF Tree
  <2>3. /\ [t1 EXCEPT !.root = e].root = e
        /\ [t1 EXCEPT !.root = e].parent = t1.parent
        /\ [t1 EXCEPT !.root = e].color = t1.color
        /\ [t1 EXCEPT !.root = e].child = t1.child
    BY <1>1 DEF Tree
  <2> DEFINE u == [t1 EXCEPT !.root = e]
  <2> HIDE DEF u
  <2>4. \A n \in Keys : n # p
    BY <1>3, NilFacts
  <2>5. Attached(t, e, p, u)
    BY <1>1, <1>3, <2>2, <2>3, <2>4 DEF Attached, u
  <2>q. QED
    BY <2>1, <2>5 DEF u
<1>4. CASE p # Nil
  <2>1. p \in Keys /\ Side(e, p) \in Sides /\ e \in Links
    BY <1>4, SideFacts, NilFacts DEF Links
  <2>2. Hung(t1, Side(e, p), p, e, Attach(t, e, p))
    BY <1>1, <1>2, <1>4, <2>1, SetChildIs
  <2>q. QED
    BY <1>1, <1>4, <2>1, <2>2 DEF Attached, Hung
<1>q. QED
  BY <1>3, <1>4

\* The parts below the nodes above the new leaf grow by it.
Grown(E, sub, e, p) ==
  [n \in Links |-> IF n = e THEN {e} ELSE IF n \in E /\ p \in sub[n] THEN sub[n] \cup {e} ELSE sub[n]]

\* A leaf hung where the search for it ended leaves a search tree with one key more.
LEMMA AttachShape ==
  ASSUME NEW t, NEW E, NEW sub, Shape(t, E, sub), NEW e \in Keys \ E, NEW p,
         \/ E = {} /\ p = Nil
         \/ p \in E /\ t.child[Side(e, p)][p] = Nil /\ OnTheWay(t, E, sub, e, p),
         NEW u, Attached(t, e, p, u)
  PROVE  Shape(u, E \cup {e}, Grown(E, sub, e, p))
<1> DEFINE sub2 == Grown(E, sub, e, p)
           E2   == E \cup {e}
<1>1. /\ t \in Tree /\ E \subseteq Keys /\ IsFiniteSet(E) /\ t.root \in E \cup {Nil}
      /\ sub \in [Links -> SUBSET E] /\ sub[Nil] = {} /\ sub[t.root] = E
      /\ t.root # Nil => t.parent[t.root] = Nil
      /\ \A n \in Keys \ E : t.parent[n] = Nil /\ \A d \in Sides : t.child[d][n] = Nil
      /\ p \in E \cup {Nil} /\ p # e /\ e # Nil /\ E2 \subseteq Keys /\ E2 \subseteq Links /\ Nil \notin Keys
      /\ Nil \in Links
  BY NilFacts DEF Shape, Bounds
<1>2. /\ sub2 \in [Links -> SUBSET E2] /\ sub2[Nil] = {} /\ sub2[e] = {e}
      /\ \A n \in E : sub2[n] = IF p \in sub[n] THEN sub[n] \cup {e} ELSE sub[n]
      /\ \A n \in Links : n # e /\ p \notin sub[n] => sub2[n] = sub[n]
  BY <1>1 DEF Grown
<1>3. ASSUME NEW n \in E, NEW k \in Sides
      PROVE  /\ t.child[k][n] \in E \cup {Nil}
             /\ t.child[k][n] # Nil => t.parent[t.child[k][n]] = n
             /\ t.child[k][n] # e
             /\ n \in Keys /\ n # e
  BY <1>1, Family
<1>4. IsFiniteSet(E2)
  BY <1>1, FS_AddElement
<1>5. Bounds(u, E2)
  <2>1. u.root \in E2 /\ u.parent[u.root] = Nil
    BY <1>1 DEF Attached, Shape
  <2>q. QED
    BY <1>1, <1>4, <2>1 DEF Attached, Bounds
<1>6. sub2[u.root] = E2
  <2>1. CASE p = Nil
    BY <1>1, <1>2, <2>1 DEF Attached
  <2>2. CASE p # Nil
    <3>1. u.root = t.root /\ t.root \in E /\ p \in sub[t.root]
      BY <1>1, <2>2 DEF Attached
    <3>q. QED
      BY <1>1, <1>2, <3>1
  <2>q. QED
    BY <2>1, <2>2
<1>7. ASSUME NEW n \in E2
      PROVE  Divides(u, sub2, n)
  <2>1. CASE n = e
    BY <1>1, <1>2, <2>1 DEF Attached, Divides, Sides
  <2>2. CASE n = p
    <3> DEFINE s == Side(e, p)
    <3>1. s \in Sides /\ Other(s) \in Sides /\ s # Other(s)
      BY SideFacts
    <3>2. /\ u.child[s][n] = e /\ u.child[Other(s)][n] = t.child[Other(s)][n] /\ t.child[s][n] = Nil
          /\ n \in E
      BY <1>1, <2>2, <3>1 DEF Attached
    <3> HIDE DEF s
    <3>3. /\ sub[n] = {n} \cup sub[t.child[s][n]] \cup sub[t.child[Other(s)][n]]
          /\ \A x \in sub[t.child[Other(s)][n]] : x # n /\ Side(x, n) = Other(s)
      BY <3>1, <3>2, Divided
    <3>c. /\ t.child[Other(s)][n] \in Links /\ t.child[Other(s)][n] # e
          /\ p \notin sub[t.child[Other(s)][n]] /\ p \in sub[n]
      BY <1>1, <1>3, <2>2, <3>1, <3>2, <3>3
    <3>4. sub2[t.child[Other(s)][n]] = sub[t.child[Other(s)][n]] /\ sub2[n] = sub[n] \cup {e}
      BY <1>2, <2>2, <3>2, <3>c
    <3>5. /\ sub2[n] = {n} \cup sub2[u.child[s][n]] \cup sub2[u.child[Other(s)][n]]
          /\ \A x \in sub2[u.child[Other(s)][n]] : x # n /\ Side(x, n) = Other(s)
          /\ \A x \in sub2[u.child[s][n]] : x # n /\ Side(x, n) = s
      BY <1>1, <1>2, <2>2, <3>2, <3>3, <3>4 DEF s
    <3>q. QED
      BY <3>1, <3>5 DEF Divides, Sides, Other
  <2>3. CASE n # e /\ n # p
    <3>1. n \in E /\ \A k \in Sides : u.child[k][n] = t.child[k][n]
      BY <1>1, <2>3 DEF Attached
    <3>2. ASSUME NEW k \in Sides
          PROVE  sub2[t.child[k][n]] = IF p \in sub[t.child[k][n]]
                                       THEN sub[t.child[k][n]] \cup {e} ELSE sub[t.child[k][n]]
      BY <1>1, <1>2, <1>3, <3>1
    <3>3. ASSUME NEW k \in Sides, p \in sub[t.child[k][n]]
          PROVE  e # n /\ Side(e, n) = k
      BY <1>1, <3>1, <3>3 DEF OnTheWay
    <3>4. Divides(t, sub, n) /\ sub2[n] = IF p \in sub[n] THEN sub[n] \cup {e} ELSE sub[n]
      BY <1>2, <3>1 DEF Shape
    <3>q. QED
      BY <2>3, <3>1, <3>2, <3>3, <3>4 DEF Divides, Sides
  <2>q. QED
    BY <2>1, <2>2, <2>3
<1>8. ASSUME NEW n \in E2, NEW k \in Sides, u.child[k][n] # Nil
      PROVE  u.child[k][n] \in E2 /\ u.parent[u.child[k][n]] = n
  <2>1. CASE n = p /\ k = Side(e, p)
    BY <1>1, <2>1 DEF Attached
  <2>2. CASE ~(n = p /\ k = Side(e, p))
    <3>1. n \in E /\ u.child[k][n] = t.child[k][n]
      BY <1>1, <1>8, <2>2 DEF Attached
    <3>q. QED
      BY <1>1, <1>3, <1>8, <3>1 DEF Attached
  <2>q. QED
    BY <2>1, <2>2
<1>9. ASSUME NEW n \in E2, n # u.root
      PROVE  u.parent[n] \in E2 /\ \E k \in Sides : u.child[k][u.parent[n]] = n
  <2>1. CASE n = e
    <3>1. p \in E /\ u.parent[n] = p
      BY <1>1, <1>9, <2>1 DEF Attached
    <3>q. QED
      BY <1>1, <2>1, <3>1, SideFacts DEF Attached
  <2>2. CASE n # e
    <3>1. n \in E /\ n # t.root /\ u.parent[n] = t.parent[n]
      BY <1>1, <1>9, <2>2 DEF Attached
    <3>2. PICK k \in Sides : t.parent[n] \in E /\ t.child[k][t.parent[n]] = n
      BY <3>1 DEF Shape, Linked
    <3>3. u.child[k][t.parent[n]] = n
      BY <1>1, <3>1, <3>2 DEF Attached
    <3>q. QED
      BY <3>1, <3>2, <3>3
  <2>q. QED
    BY <2>1, <2>2
<1>q. QED
  BY <1>2, <1>5, <1>6, <1>7, <1>8, <1>9 DEF Shape, Linked


-----------------------------------------------------------------------------
(* Removing a node *)

Forgotten(t, e, u) ==
  /\ u \in Tree /\ u.root = t.root
  /\ \A n \in Keys : u.parent[n] = IF n = e THEN Nil ELSE t.parent[n]
  /\ \A n \in Keys : u.color[n] = IF n = e THEN "red" ELSE t.color[n]
  /\ \A k \in Sides, n \in Keys : u.child[k][n] = IF n = e THEN Nil ELSE t.child[k][n]

\* What Forget changes.
LEMMA ForgetIs ==
  ASSUME NEW t \in Tree, NEW e \in Keys
  PROVE  Forgotten(t, e, Forget(t, e))
  BY NilFacts DEF Forget, Tree, Sides, Forgotten

\* A node without a child on side d is taken out: its other child takes its place.
Detached(t, d, e, u) ==
  LET c == t.child[Other(d)][e]
      p == t.parent[e]
  IN /\ u \in Tree
     /\ u.root = IF p = Nil THEN c ELSE t.root
     /\ \A n \in Keys : u.parent[n] = IF n = e THEN Nil ELSE IF n = c THEN p ELSE t.parent[n]
     /\ \A n \in Keys : u.color[n] = IF n = e THEN "red" ELSE t.color[n]
     /\ \A k \in Sides, n \in Keys :
          u.child[k][n] = IF n = e THEN Nil
                          ELSE IF t.child[k][n] = e THEN c ELSE t.child[k][n]

\* The links to a node lead from its parent.
LEMMA LinksTo ==
  ASSUME NEW t, NEW E, NEW sub, Shape(t, E, sub), NEW e \in E
  PROVE  /\ \A k \in Sides, n \in Keys : t.child[k][n] = e => n = t.parent[e] /\ n \in E
         /\ t.parent[e] # Nil =>
              \A k \in Sides : t.child[k][t.parent[e]] = e <=>
                                 k = IF t.child["L"][t.parent[e]] = e THEN "L" ELSE "R"
<1>1. e \in Keys /\ e # Nil /\ E \subseteq Keys
  BY NilFacts DEF Shape, Bounds
<1>2. ASSUME NEW k \in Sides, NEW n \in Keys, t.child[k][n] = e
      PROVE  n = t.parent[e] /\ n \in E
  <2>1. n \in E
    BY <1>1, <1>2 DEF Shape, Bounds
  <2>q. QED
    BY <1>1, <1>2, <2>1 DEF Shape, Linked
<1>3. ASSUME t.parent[e] # Nil
      PROVE  \A k \in Sides : t.child[k][t.parent[e]] = e <=>
                                k = IF t.child["L"][t.parent[e]] = e THEN "L" ELSE "R"
  BY <1>3, Family DEF Sides, Other
<1>q. QED
  BY <1>2, <1>3

\* What RB_REMOVE changes for a node with at most one child.
LEMMA DetachIs ==
  ASSUME NEW t, NEW E, NEW sub, Shape(t, E, sub), NEW d \in Sides, NEW e \in E,
         t.child[d][e] = Nil, NEW c, c = t.child[Other(d)][e], NEW p, p = t.parent[e]
  PROVE  Detached(t, d, e, Forget(Bypass(t, e, c), e))
<1>1. /\ t \in Tree /\ E \subseteq Keys /\ e \in Keys /\ e # Nil /\ p \in Links /\ c \in Links
      /\ Other(d) \in Sides /\ d # Other(d) /\ p # e /\ c # e
      /\ (c # Nil => c # p) /\ Nil \notin Keys
  BY Family, SideFacts, NilFacts DEF Tree
<1> DEFINE t1 == SetParent(t, c, p)
           t2 == Relink(t1, p, e, c)
           t3 == Forget(t2, e)
<1>0. t3 = Forget(Bypass(t, e, c), e)
  BY DEF Bypass
<1>2. Adopted(t, c, p, t1)
  BY <1>1, SetParentIs
<1>3. t1 \in Tree
  BY <1>2 DEF Adopted
<1> HIDE DEF t1
<1>4. Relinked(t1, p, e, c, t2)
  BY <1>1, <1>3, RelinkIs
<1>5. t2 \in Tree
  BY <1>4 DEF Relinked
<1> HIDE DEF t2
<1>6. /\ t3 \in Tree /\ t3.root = t2.root
      /\ \A n \in Keys : t3.parent[n] = IF n = e THEN Nil ELSE t2.parent[n]
      /\ \A n \in Keys : t3.color[n] = IF n = e THEN "red" ELSE t2.color[n]
      /\ \A k \in Sides, n \in Keys : t3.child[k][n] = IF n = e THEN Nil ELSE t2.child[k][n]
  BY <1>1, <1>5, ForgetIs DEF Forgotten
<1> HIDE DEF t3
<1>7. ASSUME NEW k \in Sides, NEW n \in Keys
      PROVE  t3.child[k][n] = IF n = e THEN Nil
                              ELSE IF t.child[k][n] = e THEN c ELSE t.child[k][n]
  <2>1. t1.child = t.child
    BY <1>2 DEF Adopted
  <2>2. t2.child[k][n] = IF n = p /\ k = (IF t.child["L"][p] = e THEN "L" ELSE "R") THEN c
                         ELSE t.child[k][n]
    BY <1>4, <2>1 DEF Relinked
  <2>3. t.child[k][n] = e => n = p
    BY LinksTo
  <2>4. p # Nil => (t.child[k][p] = e <=> k = IF t.child["L"][p] = e THEN "L" ELSE "R")
    BY LinksTo
  <2>5. n # Nil
    BY <1>1
  <2>q. QED
    BY <1>6, <2>2, <2>3, <2>4, <2>5
<1>8. /\ t3.root = IF p = Nil THEN c ELSE t.root
      /\ \A n \in Keys : t3.parent[n] = IF n = e THEN Nil ELSE IF n = c THEN p ELSE t.parent[n]
      /\ \A n \in Keys : t3.color[n] = IF n = e THEN "red" ELSE t.color[n]
  BY <1>2, <1>4, <1>6 DEF Adopted, Relinked
<1>9. Detached(t, d, e, t3)
  BY <1>6, <1>7, <1>8 DEF Detached
<1>q. QED
  BY <1>0, <1>9

\* The parts below all nodes lose the node.
LEMMA DetachShape ==
  ASSUME NEW t, NEW E, NEW sub, Shape(t, E, sub), NEW d \in Sides, NEW e \in E,
         t.child[d][e] = Nil, NEW u, Detached(t, d, e, u)
  PROVE  Shape(u, E \ {e}, [n \in Links |-> sub[n] \ {e}])
<1> DEFINE o    == Other(d)
           c    == t.child[o][e]
           p    == t.parent[e]
           E2   == E \ {e}
           sub2 == [n \in Links |-> sub[n] \ {e}]
<1>1. /\ t \in Tree /\ E \subseteq Keys /\ e \in Keys /\ e # Nil /\ IsFiniteSet(E2)
      /\ o \in Sides /\ d # o /\ p # e /\ c # e /\ (c # Nil => c \in E /\ c # p /\ t.parent[c] = e)
      /\ c \in Links /\ (p = Nil <=> e = t.root) /\ (p # Nil => p \in E) /\ Nil \notin Keys
      /\ Nil \in Links /\ Keys \subseteq Links
  <2>0. /\ t \in Tree /\ E \subseteq Keys /\ e \in Keys
        /\ (p = Nil <=> e = t.root) /\ (p # Nil => p \in E /\ p # e)
    BY Family
  <2>5. c # Nil => c \in E /\ c # p /\ c # e /\ t.parent[c] = e
    BY Family, SideFacts
  <2>1. p # e /\ c # e
    BY <2>0, <2>5, NilFacts
  <2>2. IsFiniteSet(E2)
    BY FS_RemoveElement DEF Shape, Bounds
  <2>3. c \in Links
    BY <2>0, SideFacts DEF Tree
  <2>4. o \in Sides /\ d # o
    BY SideFacts
  <2>q. QED
    BY <2>0, <2>1, <2>2, <2>3, <2>4, <2>5, NilFacts
<1>2. /\ sub \in [Links -> SUBSET E] /\ sub[Nil] = {} /\ sub[t.root] = E
      /\ sub[e] = {e} \cup sub[c] /\ e \notin sub[c]
  <2>1. sub[e] = {e} \cup sub[t.child[d][e]] \cup sub[t.child[o][e]] /\ e \notin sub[t.child[o][e]]
    BY Divided
  <2>q. QED
    BY <2>1 DEF Shape
<1>3. /\ u \in Tree /\ u.root = IF p = Nil THEN c ELSE t.root
      /\ \A n \in Keys : u.parent[n] = IF n = e THEN Nil ELSE IF n = c THEN p ELSE t.parent[n]
      /\ \A k \in Sides, n \in Keys :
           u.child[k][n] = IF n = e THEN Nil
                           ELSE IF t.child[k][n] = e THEN c ELSE t.child[k][n]
  BY DEF Detached
<1>4. \A k \in Sides, n \in Keys : t.child[k][n] = e => n = p
  BY LinksTo
<1>5. \A k \in Sides, n \in Keys : t.child[k][n] = c /\ c # Nil => n = e
  BY <1>1, LinksTo
<1>6. /\ t.root \in E \cup {Nil} /\ (t.root # Nil => t.parent[t.root] = Nil)
      /\ \A n \in Keys \ E : t.parent[n] = Nil /\ \A k \in Sides : t.child[k][n] = Nil
  BY DEF Shape, Bounds
<1> HIDE DEF o, c, p
<1>7. Bounds(u, E2)
  <2>1. u.root \in E2 \cup {Nil} /\ (u.root # Nil => u.parent[u.root] = Nil)
    BY <1>1, <1>3, <1>6
  <2>2. ASSUME NEW n \in Keys \ E2
        PROVE  u.parent[n] = Nil /\ \A k \in Sides : u.child[k][n] = Nil
    BY <1>1, <1>3, <1>6
  <2>q. QED
    BY <1>1, <1>3, <2>1, <2>2 DEF Bounds
<1>8. sub2 \in [Links -> SUBSET E2] /\ sub2[Nil] = {} /\ sub2[u.root] = E2
  <2>1. sub2 \in [Links -> SUBSET E2] /\ sub2[Nil] = {}
    BY <1>1, <1>2
  <2>2. sub2[u.root] = E2
    BY <1>1, <1>2, <1>3, <1>6
  <2>q. QED
    BY <2>1, <2>2
<1>9. ASSUME NEW n \in E2
      PROVE  Divides(u, sub2, n)
  <2>1. ASSUME NEW k \in Sides
        PROVE  sub2[u.child[k][n]] = sub[t.child[k][n]] \ {e} /\ u.child[k][n] \in Links
    <3>1. n \in Keys /\ n # e /\ t.child[k][n] \in Links
      BY <1>1 DEF Tree
    <3>q. QED
      BY <1>1, <1>2, <1>3, <3>1
  <2>2. Divides(t, sub, n) /\ sub2[n] = sub[n] \ {e} /\ n # e
    BY <1>1 DEF Shape
  <2> HIDE DEF sub2
  <2>q. QED
    BY <2>1, <2>2 DEF Divides, Sides
<1>10. ASSUME NEW n \in E2, NEW k \in Sides, u.child[k][n] # Nil
       PROVE  u.child[k][n] \in E2 /\ u.parent[u.child[k][n]] = n
  <2>1. t.child[k][n] # Nil => t.child[k][n] \in E /\ t.parent[t.child[k][n]] = n
    BY Family
  <2>q. QED
    BY <1>1, <1>3, <1>4, <1>5, <1>10, <2>1
<1>11. ASSUME NEW n \in E2, n # u.root
       PROVE  u.parent[n] \in E2 /\ \E k \in Sides : u.child[k][u.parent[n]] = n
  <2>1. CASE n = c
    <3>1. p # Nil /\ p \in E2
      BY <1>1, <1>3, <1>11, <2>1
    <3>2. \E k \in Sides : t.child[k][p] = e
      BY <3>1, Family DEF p
    <3>q. QED
      BY <1>1, <1>3, <2>1, <3>1, <3>2
  <2>2. CASE n # c
    <3>1. n # t.root /\ u.parent[n] = t.parent[n]
      BY <1>1, <1>3, <1>11, <2>2
    <3>2. PICK k \in Sides : t.parent[n] \in E /\ t.child[k][t.parent[n]] = n
      BY <3>1 DEF Shape, Linked
    <3>3. t.parent[n] # e
      <4>1. CASE k = d
        BY <1>1, <3>2, <4>1
      <4>2. CASE k = o
        BY <2>2, <3>2, <4>2 DEF c
      <4>q. QED
        BY <4>1, <4>2, SideFacts DEF o
    <3>4. u.child[k][t.parent[n]] = n
      BY <1>1, <1>3, <3>2, <3>3
    <3>q. QED
      BY <3>1, <3>2, <3>3, <3>4
  <2>q. QED
    BY <2>1, <2>2
<1>q. QED
  BY <1>7, <1>8, <1>9, <1>10, <1>11 DEF Shape, Linked

\* A key s that is not in the tree takes the place of e.
Substituted(t, e, s, u) ==
  /\ u \in Tree
  /\ u.root = IF t.root = e THEN s ELSE t.root
  /\ \A n \in Keys :
       u.parent[n] = IF n = s THEN t.parent[e] ELSE IF n = e THEN Nil
                     ELSE IF t.parent[n] = e THEN s ELSE t.parent[n]
  /\ \A n \in Keys :
       u.color[n] = IF n = s THEN t.color[e] ELSE IF n = e THEN "red" ELSE t.color[n]
  /\ \A k \in Sides, n \in Keys :
       u.child[k][n] = IF n = s THEN t.child[k][e] ELSE IF n = e THEN Nil
                       ELSE IF t.child[k][n] = e THEN s ELSE t.child[k][n]

\* What RB_REMOVE does with the successor s of a node e with two children, after the link
\* to s is gone; the fields of s still have their values.
LEMMA SubstituteIs ==
  ASSUME NEW t, NEW E, NEW sub, Shape(t, E, sub), NEW e \in E, NEW s \in Keys \ E,
         NEW t1 \in Tree, Forget(t1, s) = t
  PROVE  Substituted(t, e, s, Forget(TakePlace(t1, e, s), e))
<1> DEFINE t2 == [t1 EXCEPT !.child["L"][s] = t1.child["L"][e],
                            !.child["R"][s] = t1.child["R"][e],
                            !.parent[s] = t1.parent[e], !.color[s] = t1.color[e]]
           q  == t2.parent[e]
           t3 == Relink(t2, q, e, s)
           l  == t3.child["L"][e]
           r  == t3.child["R"][e]
           t4 == SetParent(SetParent(t3, l, s), r, s)
           u  == Forget(t4, e)
<1>0. u = Forget(TakePlace(t1, e, s), e)
  BY DEF TakePlace
<1>1. /\ t \in Tree /\ E \subseteq Keys /\ e \in Keys /\ e # s /\ s \in Keys /\ s \in Links
      /\ Nil \notin Keys
      /\ t.parent[e] \in Links /\ (t.parent[e] = Nil <=> e = t.root)
      /\ t.parent[e] # s /\ t.parent[e] # e
      /\ \A k \in Sides : t.child[k][e] # s /\ t.child[k][e] \in Links /\ t.child[k][e] # e
  <2>1. /\ t \in Tree /\ E \subseteq Keys /\ e \in Keys /\ e # s /\ s \in Keys /\ s \in Links
        /\ Nil \notin Keys
    BY Family, NilFacts
  <2>2. /\ t.parent[e] \in Links /\ (t.parent[e] = Nil <=> e = t.root)
        /\ t.parent[e] # s /\ t.parent[e] # e
    BY <2>1, Family DEF Links
  <2>3. \A k \in Sides : t.child[k][e] # s /\ t.child[k][e] \in Links /\ t.child[k][e] # e
    BY <2>1, Family DEF Links
  <2>q. QED
    BY <2>1, <2>2, <2>3
<1>2. /\ t.root = t1.root
      /\ \A n \in Keys : n # s => t1.parent[n] = t.parent[n] /\ t1.color[n] = t.color[n]
      /\ \A k \in Sides, n \in Keys : n # s => t1.child[k][n] = t.child[k][n]
  <2>1. Forgotten(t1, s, t)
    BY <1>1, ForgetIs
  <2>q. QED
    BY <2>1 DEF Forgotten
<1>3. /\ t2 \in Tree /\ t2.root = t.root
      /\ \A n \in Keys : t2.parent[n] = IF n = s THEN t.parent[e] ELSE t.parent[n]
      /\ \A n \in Keys : t2.color[n] = IF n = s THEN t.color[e] ELSE t.color[n]
      /\ \A k \in Sides, n \in Keys :
           t2.child[k][n] = IF n = s THEN t.child[k][e] ELSE t.child[k][n]
  <2>1. /\ t2 \in Tree /\ t2.root = t1.root
        /\ \A n \in Keys : t2.parent[n] = IF n = s THEN t1.parent[e] ELSE t1.parent[n]
        /\ \A n \in Keys : t2.color[n] = IF n = s THEN t1.color[e] ELSE t1.color[n]
        /\ \A k \in Sides, n \in Keys :
             t2.child[k][n] = IF n = s THEN t1.child[k][e] ELSE t1.child[k][n]
    <3> DEFINE x == t1.child["L"][e]
               y == t1.child["R"][e]
               p == t1.parent[e]
               c == t1.color[e]
    <3>1. x \in Links /\ y \in Links /\ p \in Links /\ c \in {"red", "black"}
      BY <1>1, SideFacts DEF Tree
    <3>2. t2 = [t1 EXCEPT !.child["L"][s] = x, !.child["R"][s] = y, !.parent[s] = p, !.color[s] = c]
      OBVIOUS
    <3> HIDE DEF x, y, p, c, t2
    <3>3. /\ t2 \in Tree /\ t2.root = t1.root
          /\ \A n \in Keys : t2.parent[n] = IF n = s THEN p ELSE t1.parent[n]
          /\ \A n \in Keys : t2.color[n] = IF n = s THEN c ELSE t1.color[n]
          /\ \A k \in Sides, n \in Keys :
               t2.child[k][n] = IF n = s THEN (IF k = "L" THEN x ELSE y) ELSE t1.child[k][n]
      BY <1>1, <3>1, <3>2 DEF Tree, Sides
    <3>q. QED
      BY <3>3 DEF Sides, x, y, p, c
  <2> HIDE DEF t2
  <2>q. QED
    BY <1>1, <1>2, <2>1
<1> HIDE DEF t2
<1>4. q = t.parent[e]
  BY <1>1, <1>3
<1>5. /\ t3 \in Tree /\ t3.root = (IF q = Nil THEN s ELSE t.root)
      /\ t3.parent = t2.parent /\ t3.color = t2.color
      /\ \A k \in Sides, n \in Keys :
           t3.child[k][n] = IF n = q /\ k = (IF t.child["L"][q] = e THEN "L" ELSE "R") THEN s
                            ELSE IF n = s THEN t.child[k][e] ELSE t.child[k][n]
  <2>1. Relinked(t2, q, e, s, t3)
    BY <1>1, <1>3, <1>4, RelinkIs
  <2>2. q # Nil => t2.child["L"][q] = t.child["L"][q]
    BY <1>1, <1>3, <1>4, SideFacts DEF Links
  <2>q. QED
    BY <1>1, <1>3, <2>1, <2>2, NilFacts DEF Relinked
<1> HIDE DEF t3, q
<1>6. l = t.child["L"][e] /\ r = t.child["R"][e]
  BY <1>1, <1>4, <1>5, SideFacts
<1> HIDE DEF l, r
<1>7. /\ t4 \in Tree /\ t4.root = t3.root /\ t4.child = t3.child /\ t4.color = t3.color
      /\ \A n \in Keys : t4.parent[n] = IF n = l \/ n = r THEN s ELSE t3.parent[n]
  <2>1. l \in Links /\ r \in Links
    BY <1>1, <1>6, SideFacts
  <2>2. Adopted(t3, l, s, SetParent(t3, l, s))
    BY <1>1, <1>5, <2>1, SetParentIs
  <2>3. SetParent(t3, l, s) \in Tree
    BY <2>2 DEF Adopted
  <2>4. Adopted(SetParent(t3, l, s), r, s, t4)
    BY <1>1, <2>1, <2>3, SetParentIs
  <2>q. QED
    BY <2>2, <2>4 DEF Adopted
<1> HIDE DEF t4
<1>8. /\ u \in Tree /\ u.root = t4.root
      /\ \A n \in Keys : u.parent[n] = IF n = e THEN Nil ELSE t4.parent[n]
      /\ \A n \in Keys : u.color[n] = IF n = e THEN "red" ELSE t4.color[n]
      /\ \A k \in Sides, n \in Keys : u.child[k][n] = IF n = e THEN Nil ELSE t4.child[k][n]
  <2>1. Forgotten(t4, e, u)
    BY <1>1, <1>7, ForgetIs
  <2>q. QED
    BY <2>1 DEF Forgotten
<1> HIDE DEF u
<1>9. ASSUME NEW n \in Keys
      PROVE  u.parent[n] = IF n = s THEN t.parent[e] ELSE IF n = e THEN Nil
                           ELSE IF t.parent[n] = e THEN s ELSE t.parent[n]
  <2>1. n # e /\ n # s => (t.parent[n] = e <=> n = l \/ n = r)
    <3>1. ASSUME t.parent[n] = e
          PROVE  n = l \/ n = r
      <4>1. n \in E /\ n # t.root
        BY <1>1, <3>1 DEF Shape, Bounds
      <4>2. \E d \in Sides : t.child[d][e] = n
        BY <3>1, <4>1 DEF Shape, Linked
      <4>q. QED
        BY <1>6, <4>2 DEF Sides
    <3>2. ASSUME n = l \/ n = r
          PROVE  t.parent[n] = e
      BY <1>1, <1>6, <3>2, SideFacts, Family
    <3>q. QED
      BY <3>1, <3>2
  <2>2. l # s /\ r # s
    BY <1>1, <1>6, SideFacts
  <2>q. QED
    BY <1>1, <1>3, <1>5, <1>7, <1>8, <2>1, <2>2
<1>10. ASSUME NEW n \in Keys
       PROVE  u.color[n] = IF n = s THEN t.color[e] ELSE IF n = e THEN "red" ELSE t.color[n]
  BY <1>1, <1>3, <1>5, <1>7, <1>8
<1>11. ASSUME NEW k \in Sides, NEW n \in Keys
       PROVE  u.child[k][n] = IF n = s THEN t.child[k][e] ELSE IF n = e THEN Nil
                              ELSE IF t.child[k][n] = e THEN s ELSE t.child[k][n]
  <2>1. t.child[k][n] = e => n = q
    BY <1>4, LinksTo
  <2>2. n = q => (t.child[k][n] = e <=> k = IF t.child["L"][q] = e THEN "L" ELSE "R")
    BY <1>1, <1>4, LinksTo
  <2>q. QED
    BY <1>1, <1>4, <1>5, <1>7, <1>8, <2>1, <2>2
<1>12. u.root = IF t.root = e THEN s ELSE t.root
  BY <1>1, <1>4, <1>5, <1>7, <1>8
<1>q. QED
  BY <1>0, <1>8, <1>9, <1>10, <1>11, <1>12 DEF Substituted

\* The same parts, with s instead of e.
Instead(sub, e, s) ==
  [n \in Links |-> LET X == IF n = s THEN sub[e] ELSE sub[n]
                   IN IF e \in X THEN (X \ {e}) \cup {s} ELSE X]

\* A search tree stays one when s, in the order of the other keys where e was, takes its place.
LEMMA SubstituteShape ==
  ASSUME NEW t, NEW E, NEW sub, Shape(t, E, sub), NEW e \in E, NEW s \in Keys \ E,
         \A x \in E : x # e => Side(x, s) = Side(x, e) /\ Side(s, x) = Side(e, x),
         NEW u, Substituted(t, e, s, u)
  PROVE  Shape(u, (E \ {e}) \cup {s}, Instead(sub, e, s))
<1> DEFINE E2   == (E \ {e}) \cup {s}
           sub2 == Instead(sub, e, s)
           As(n) == IF n = e THEN s ELSE n
           Of(n) == IF n = s THEN e ELSE n
<1>1. /\ t \in Tree /\ E \subseteq Keys /\ e \in Keys /\ e # s /\ s \in Keys /\ s \in Links
      /\ Nil \notin Keys /\ IsFiniteSet(E2) /\ E2 \subseteq Keys /\ Nil \in Links /\ Keys \subseteq Links
  <2>1. IsFiniteSet(E \ {e})
    BY FS_RemoveElement DEF Shape, Bounds
  <2>2. IsFiniteSet(E2)
    BY <2>1, FS_AddElement
  <2>q. QED
    BY <2>2, Family, NilFacts
<1>2. /\ u \in Tree /\ u.root = As(t.root)
      /\ u.parent[e] = Nil /\ \A k \in Sides : u.child[k][e] = Nil
      /\ \A n \in Keys : n # e => u.parent[n] = As(t.parent[Of(n)])
      /\ \A k \in Sides, n \in Keys : n # e => u.child[k][n] = As(t.child[k][Of(n)])
  <2>1. t.parent[e] # e /\ \A k \in Sides : t.child[k][e] # e
    BY <1>1, Family
  <2>q. QED
    BY <1>1, <2>1 DEF Substituted
<1>3. /\ sub \in [Links -> SUBSET E] /\ sub[Nil] = {} /\ sub[t.root] = E
      /\ t.root \in E \cup {Nil} /\ (t.root # Nil => t.parent[t.root] = Nil)
      /\ \A n \in Keys \ E : t.parent[n] = Nil /\ \A k \in Sides : t.child[k][n] = Nil
  BY DEF Shape, Bounds
<1>4. \A n \in E : As(n) \in E2 /\ Of(As(n)) = n /\ As(n) # e /\ As(n) # Nil
  BY <1>1
<1>5. \A n \in E2 : Of(n) \in E /\ As(Of(n)) = n /\ n # e /\ n \in Keys
  BY <1>1
<1>6. As(Nil) = Nil
  BY <1>1
<1>7. /\ sub2 \in [Links -> SUBSET E2]
      /\ sub2[Nil] = {}
      /\ \A n \in E \cup {Nil} : sub2[As(n)] = {As(x) : x \in sub[n]}
  <2>1. \A X \in SUBSET E : {As(x) : x \in X} = IF e \in X THEN (X \ {e}) \cup {s} ELSE X
    BY <1>1
  <2>2. \A n \in Links : sub2[n] = {As(x) : x \in IF n = s THEN sub[e] ELSE sub[n]}
    BY <1>1, <1>3, <2>1 DEF Instead
  <2>3. sub2 \in [Links -> SUBSET E2]
    <3>1. \A n \in Links : sub2[n] \in SUBSET E2
      BY <1>1, <1>3, <1>4, <2>2
    <3>2. sub2 = [n \in Links |-> sub2[n]]
      BY DEF Instead
    <3> HIDE DEF sub2
    <3>q. QED
      BY <3>1, <3>2
  <2>4. sub2[Nil] = {}
    BY <1>1, <1>3, <2>2
  <2>5. \A n \in E \cup {Nil} : sub2[As(n)] = {As(x) : x \in sub[n]}
    BY <1>1, <2>2
  <2>q. QED
    BY <2>3, <2>4, <2>5
<1> HIDE DEF As, Of, sub2, E2
<1>8. Bounds(u, E2)
  <2>1. u.root \in E2 \cup {Nil}
    BY <1>2, <1>3, <1>4, <1>6
  <2>2. u.root # Nil => u.parent[u.root] = Nil
    <3>1. CASE t.root = Nil
      BY <1>2, <1>6, <3>1
    <3>2. CASE t.root # Nil
      <4>1. t.root \in E /\ As(t.root) \in E2 /\ As(t.root) # e /\ Of(As(t.root)) = t.root
        BY <1>3, <1>4, <3>2
      <4>2. As(t.root) \in Keys
        BY <1>5, <4>1
      <4>q. QED
        BY <1>2, <1>3, <1>6, <3>2, <4>1, <4>2
    <3>q. QED
      BY <3>1, <3>2
  <2>3. ASSUME NEW n \in Keys \ E2
        PROVE  u.parent[n] = Nil /\ \A k \in Sides : u.child[k][n] = Nil
    <3>1. n = e \/ (n # e /\ n # s /\ n \notin E)
      BY DEF E2
    <3>2. n # s => Of(n) = n
      BY DEF Of
    <3>q. QED
      BY <1>2, <1>3, <1>6, <3>1, <3>2
  <2>q. QED
    BY <1>1, <1>2, <2>1, <2>2, <2>3 DEF Bounds
<1>9. sub2[u.root] = E2
  <2>1. sub2[u.root] = {As(x) : x \in E}
    BY <1>2, <1>3, <1>7
  <2>2. {As(x) : x \in E} = E2
    BY <1>4, <1>5
  <2>q. QED
    BY <2>1, <2>2
<1>10. ASSUME NEW n \in E2
       PROVE  Divides(u, sub2, n)
  <2> DEFINE m == Of(n)
  <2>1. m \in E /\ As(m) = n /\ n # e /\ n \in Keys
    BY <1>5
  <2> HIDE DEF m
  <2>2. ASSUME NEW k \in Sides
        PROVE  sub2[u.child[k][n]] = {As(x) : x \in sub[t.child[k][m]]}
    <3>1. t.child[k][m] \in E \cup {Nil} /\ u.child[k][n] = As(t.child[k][m])
      BY <1>2, <2>1, Family DEF m
    <3>q. QED
      BY <1>7, <3>1
  <2>3. /\ sub[m] = {m} \cup sub[t.child["L"][m]] \cup sub[t.child["R"][m]]
        /\ \A k \in Sides : \A x \in sub[t.child[k][m]] : x # m /\ Side(x, m) = k
    BY <2>1 DEF Shape, Divides
  <2>4. sub2[n] = {As(x) : x \in sub[m]}
    BY <1>7, <2>1
  <2>5. sub2[n] = {n} \cup sub2[u.child["L"][n]] \cup sub2[u.child["R"][n]]
    BY <2>1, <2>2, <2>3, <2>4, SideFacts
  <2>6. ASSUME NEW k \in Sides, NEW y \in sub2[u.child[k][n]]
        PROVE  y # n /\ Side(y, n) = k
    <3>1. PICK x \in sub[t.child[k][m]] : y = As(x)
      BY <2>2
    <3>2. x # m /\ Side(x, m) = k /\ x \in E /\ m \in E
      <4>1. t.child[k][m] \in E \cup {Nil} /\ E \subseteq Links
        BY <1>1, <2>1, Family
      <4>q. QED
        BY <1>1, <1>3, <2>1, <2>3, <3>1, <4>1
    <3>3. y # n
      BY <1>4, <2>1, <3>1, <3>2
    <3>4. Side(As(x), As(m)) = Side(x, m)
      BY <3>2 DEF As
    <3>q. QED
      BY <2>1, <3>1, <3>2, <3>3, <3>4
  <2>q. QED
    BY <2>5, <2>6 DEF Divides
<1>11. ASSUME NEW n \in E2
       PROVE  Linked(u, E2, n)
  <2> DEFINE m == Of(n)
  <2>1. m \in E /\ As(m) = n /\ n # e /\ n \in Keys
    BY <1>5
  <2>2. \A k \in Sides : u.child[k][n] = As(t.child[k][m])
    BY <1>2, <2>1
  <2>3. u.parent[n] = As(t.parent[m])
    BY <1>2, <2>1
  <2> HIDE DEF m
  <2>4. Linked(t, E, m)
    BY <2>1 DEF Shape
  <2>5. ASSUME n # u.root
        PROVE  u.parent[n] \in E2 /\ \E k \in Sides : u.child[k][u.parent[n]] = n
    <3>1. m # t.root
      BY <1>2, <2>1, <2>5
    <3>2. PICK k \in Sides : t.parent[m] \in E /\ t.child[k][t.parent[m]] = m
      BY <2>4, <3>1 DEF Linked
    <3>3. As(t.parent[m]) \in E2 /\ Of(As(t.parent[m])) = t.parent[m] /\ As(t.parent[m]) # e
      BY <1>4, <3>2
    <3>4. u.child[k][As(t.parent[m])] = As(m)
      BY <1>2, <1>5, <3>2, <3>3
    <3>q. QED
      BY <2>1, <2>3, <3>3, <3>4
  <2>6. ASSUME NEW k \in Sides, u.child[k][n] # Nil
        PROVE  u.child[k][n] \in E2 /\ u.parent[u.child[k][n]] = n
    <3>1. t.child[k][m] # Nil
      BY <1>6, <2>2, <2>6
    <3>2. t.child[k][m] \in E /\ t.parent[t.child[k][m]] = m
      BY <2>4, <3>1 DEF Linked
    <3>3. /\ As(t.child[k][m]) \in E2 /\ As(t.child[k][m]) # e
          /\ Of(As(t.child[k][m])) = t.child[k][m]
      BY <1>4, <3>2
    <3>q. QED
      BY <1>2, <1>5, <2>1, <2>2, <3>2, <3>3
  <2>q. QED
    BY <2>5, <2>6 DEF Linked
<1>q. QED
  BY <1>7, <1>8, <1>9, <1>10, <1>11 DEF Shape, E2, sub2

-----------------------------------------------------------------------------
(* Colors and heights *)

\* The black nodes on a way down from a node are as many as its height says; the place to
\* side s of p is short of one.
Weight(t, n) == IF t.color[n] = "black" THEN 1 ELSE 0
Gap(n, d, p, s) == IF n = p /\ d = s THEN 1 ELSE 0

Heights(t, E, H, p, s) ==
  /\ H \in [Links -> Nat] /\ H[Nil] = 0
  /\ \A n \in E, d \in Sides : H[n] = H[t.child[d][n]] + Weight(t, n) + Gap(n, d, p, s)

\* Only nodes of X are red below a red one.
Reds(t, E, X) == \A n \in E : IsRed(t, n) /\ IsRed(t, t.parent[n]) => n \in X

\* A tree with the same links.
Recolored(t, u) == u \in Tree /\ u.root = t.root /\ u.child = t.child /\ u.parent = t.parent

\* Colors do not matter for the shape.
LEMMA RecolorShape ==
  ASSUME NEW t, NEW E, NEW sub, Shape(t, E, sub), NEW u, Recolored(t, u)
  PROVE  Shape(u, E, sub)
<1>1. Bounds(u, E)
  BY DEF Shape, Bounds, Recolored
<1>2. \A n \in E : Divides(u, sub, n) /\ Linked(u, E, n)
  BY DEF Shape, Divides, Linked, Recolored
<1>q. QED
  BY <1>1, <1>2 DEF Shape, Recolored

\* What RB_SET_BLACKRED changes.
LEMMA SetBlackRedIs ==
  ASSUME NEW t \in Tree, NEW b \in Links, NEW r \in Links, NEW u, u = SetBlackRed(t, b, r)
  PROVE  /\ Recolored(t, u)
         /\ \A n \in Keys : u.color[n] = IF n = r THEN "red" ELSE IF n = b THEN "black" ELSE t.color[n]
<1>1. Painted(t, b, "black", Paint(t, b, "black"))
  BY PaintIs
<1>2. Paint(t, b, "black") \in Tree
  BY <1>1 DEF Painted
<1>3. Painted(Paint(t, b, "black"), r, "red", u)
  BY <1>2, PaintIs DEF SetBlackRed
<1>q. QED
  BY <1>1, <1>3 DEF Painted, Recolored

\* A rotation about e and new colors.
TurnedOver(t, d, e, u) == \E v : Recolored(t, v) /\ Rotated(v, d, e, u)

\* The node that comes up, a red one, gets the color of e, and e is red.
TurnedRed(t, d, e, u) ==
  LET tmp == t.child[Other(d)][e]
  IN /\ TurnedOver(t, d, e, u)
     /\ \A n \in Keys :
          u.color[n] = IF n = tmp THEN t.color[e] ELSE IF n = e THEN "red" ELSE t.color[n]

\* The links around a rotation.
LEMMA TurnLinks ==
  ASSUME NEW t, NEW E, NEW sub, Shape(t, E, sub), NEW d \in Sides, NEW e \in E,
         NEW o, o = Other(d), NEW tmp, tmp = t.child[o][e], tmp # Nil, NEW inner, inner = t.child[d][tmp],
         NEW u, TurnedOver(t, d, e, u)
  PROVE  /\ u \in Tree /\ tmp \in E /\ e # tmp /\ inner # e /\ inner # tmp
         /\ u.child[o][e] = inner /\ u.child[d][e] = t.child[d][e]
         /\ u.child[d][tmp] = e /\ u.child[o][tmp] = t.child[o][tmp]
         /\ \A n \in E, k \in Sides : n # e /\ n # tmp =>
              /\ t.child[k][n] # tmp /\ t.child[k][n] # e => u.child[k][n] = t.child[k][n]
              /\ t.child[k][n] = e => u.child[k][n] = tmp
              /\ t.child[k][n] # tmp
         /\ \A n \in E : u.parent[n] = IF n = tmp THEN t.parent[e] ELSE IF n = e THEN tmp
                                       ELSE IF n = inner THEN e ELSE t.parent[n]
         /\ u.root = IF t.parent[e] = Nil THEN tmp ELSE t.root
<1>1. PICK v : Recolored(t, v) /\ Rotated(v, d, e, u)
  BY DEF TurnedOver
<1>2. /\ u \in Tree /\ u.root = IF t.parent[e] = Nil THEN tmp ELSE t.root
      /\ \A n \in Keys : u.parent[n] = IF n = tmp THEN t.parent[e] ELSE IF n = e THEN tmp
                                       ELSE IF n = inner THEN e ELSE t.parent[n]
      /\ \A k \in Sides, n \in Keys :
           u.child[k][n] = IF n = e /\ k = o THEN inner ELSE IF n = tmp /\ k = d THEN e
                           ELSE IF n = t.parent[e] /\ t.child[k][n] = e THEN tmp ELSE t.child[k][n]
  BY <1>1 DEF Rotated, Recolored
<1>3. /\ o \in Sides /\ o # d /\ E \subseteq Keys /\ tmp \in E /\ tmp # e /\ t.parent[tmp] = e
      /\ tmp # t.parent[e] /\ t.parent[e] # e
  BY Family, SideFacts, NilFacts
<1>4. inner # e /\ inner # tmp
  BY <1>3, Family, NilFacts
<1>5. \A n \in E, k \in Sides : t.child[k][n] = tmp => n = e
  BY <1>3, Family, NilFacts
<1>6. \A n \in E, k \in Sides : t.child[k][n] = e => n = t.parent[e]
  BY <1>3, Family, NilFacts
<1>7. t.child[d][e] # e /\ t.child[o][tmp] # e /\ t.child[o][tmp] # tmp
  BY <1>3, <1>6, Family, NilFacts
<1>q. QED
  BY <1>2, <1>3, <1>4, <1>5, <1>6, <1>7

\* A rotation about a node whose child that goes up is red keeps the heights, its colors exchanged.
LEMMA TurnHeights ==
  ASSUME NEW t, NEW E, NEW sub, Shape(t, E, sub), NEW d \in Sides, NEW e \in E,
         NEW tmp, tmp = t.child[Other(d)][e], tmp # Nil, t.color[tmp] = "red",
         NEW H, NEW p, NEW s, Heights(t, E, H, p, s), p # tmp, ~(p = e /\ s = Other(d)),
         NEW u, TurnedRed(t, d, e, u)
  PROVE  Heights(u, E, [H EXCEPT ![tmp] = H[e], ![e] = H[tmp]], p, s)
<1> DEFINE o == Other(d)
           H2 == [H EXCEPT ![tmp] = H[e], ![e] = H[tmp]]
           inner == t.child[d][tmp]
<1>1. /\ u \in Tree /\ tmp \in E /\ e # tmp /\ inner # e /\ inner # tmp
      /\ u.child[o][e] = inner /\ u.child[d][e] = t.child[d][e]
      /\ u.child[d][tmp] = e /\ u.child[o][tmp] = t.child[o][tmp]
      /\ \A n \in E, k \in Sides : n # e /\ n # tmp =>
           /\ t.child[k][n] # tmp /\ t.child[k][n] # e => u.child[k][n] = t.child[k][n]
           /\ t.child[k][n] = e => u.child[k][n] = tmp
           /\ t.child[k][n] # tmp
  <2>1. TurnedOver(t, d, e, u)
    BY DEF TurnedRed
  <2>q. QED
    BY <2>1, TurnLinks
<1>2. /\ E \subseteq Keys /\ E \subseteq Links /\ Nil \notin E /\ o \in Sides /\ o # d
      /\ \A k \in Sides : k = d \/ k = o
      /\ \A n \in E, k \in Sides : t.child[k][n] \in Links
  BY Family, SideFacts, NilFacts DEF Shape, Bounds, Tree
<1>3. /\ H \in [Links -> Nat] /\ H[Nil] = 0
      /\ \A n \in E, k \in Sides : H[n] = H[t.child[k][n]] + Weight(t, n) + Gap(n, k, p, s)
  BY DEF Heights
<1>4. /\ H2 \in [Links -> Nat] /\ H2[Nil] = 0 /\ H2[tmp] = H[e] /\ H2[e] = H[tmp]
      /\ \A n \in Links : n # tmp /\ n # e => H2[n] = H[n]
  <2>1. e \in Links /\ tmp \in Links /\ Nil # e /\ Nil # tmp /\ Nil \in Links
    BY <1>1, <1>2, NilFacts
  <2>2. H2 \in [Links -> Nat]
    BY <1>3, <2>1
  <2>q. QED
    BY <1>1, <1>3, <2>1, <2>2
<1>5. /\ Weight(u, tmp) = Weight(t, e) /\ Weight(u, e) = 0 /\ Weight(t, tmp) = 0
      /\ \A n \in E : n # tmp /\ n # e => Weight(u, n) = Weight(t, n)
      /\ \A n : Weight(t, n) \in {0, 1}
  BY <1>1, <1>2 DEF TurnedRed, Weight
<1>6. Gap(tmp, d, p, s) = 0 /\ Gap(tmp, o, p, s) = 0 /\ Gap(e, o, p, s) = 0
  BY DEF Gap
<1>7. /\ H[tmp] = H[t.child[d][e]] + 0 + Gap(e, d, p, s) /\ H[tmp] = H[inner] + 0 + 0
      /\ H[e] = H[tmp] + Weight(t, e) + 0 /\ H[e] = H[t.child[o][tmp]] + Weight(t, e) + 0
  <2>1. /\ H[e] = H[tmp] + Weight(t, e) + 0
        /\ H[tmp] = H[inner] + 0 + 0 /\ H[tmp] = H[t.child[o][tmp]] + 0 + 0
    BY <1>1, <1>2, <1>3, <1>5, <1>6
  <2>2. /\ H[e] \in Nat /\ H[tmp] \in Nat /\ H[inner] \in Nat /\ H[t.child[o][tmp]] \in Nat
        /\ H[t.child[d][e]] \in Nat
    BY <1>1, <1>2, <1>3
  <2>3. /\ H[e] = H[t.child[d][e]] + Weight(t, e) + Gap(e, d, p, s)
        /\ Gap(e, d, p, s) \in {0, 1} /\ Weight(t, e) \in {0, 1}
    BY <1>3, <1>5 DEF Gap
  <2> HIDE DEF o, inner
  <2>q. QED
    BY <2>1, <2>2, <2>3
<1> HIDE DEF o, H2, inner
<1>8. t.child[d][e] # tmp /\ t.child[d][e] # e /\ t.child[o][tmp] # e /\ t.child[o][tmp] # tmp
  BY <1>1, <1>2, Family DEF o
<1>9. ASSUME NEW n \in E, NEW k \in Sides
      PROVE  H2[n] = H2[u.child[k][n]] + Weight(u, n) + Gap(n, k, p, s)
  <2>1. CASE n = e
    <3>1. H2[t.child[d][e]] = H[t.child[d][e]] /\ H2[inner] = H[inner]
      BY <1>1, <1>2, <1>4, <1>8 DEF inner
    <3>2. CASE k = d
      BY <1>1, <1>4, <1>5, <1>7, <2>1, <3>1, <3>2
    <3>3. CASE k = o
      BY <1>1, <1>4, <1>5, <1>6, <1>7, <2>1, <3>1, <3>3
    <3>q. QED
      BY <1>2, <3>2, <3>3
  <2>2. CASE n = tmp
    <3>1. H2[t.child[o][tmp]] = H[t.child[o][tmp]]
      BY <1>1, <1>2, <1>4, <1>8
    <3>2. CASE k = d
      BY <1>1, <1>4, <1>5, <1>6, <1>7, <2>2, <3>2
    <3>3. CASE k = o
      BY <1>1, <1>4, <1>5, <1>6, <1>7, <2>2, <3>1, <3>3
    <3>q. QED
      BY <1>2, <3>2, <3>3
  <2>3. CASE n # e /\ n # tmp
    <3>1. H2[n] = H[n] /\ Weight(u, n) = Weight(t, n)
      BY <1>2, <1>4, <1>5, <2>3
    <3>2. H2[u.child[k][n]] = H[t.child[k][n]]
      BY <1>1, <1>2, <1>4, <2>3
    <3>q. QED
      BY <1>3, <3>1, <3>2
  <2>q. QED
    BY <2>1, <2>2, <2>3
<1>q. QED
  BY <1>4, <1>9 DEF Heights, H2

\* Red nodes below red ones after such a rotation.
RedsTurned(t, u, E, e, tmp, X) ==
  \A n \in E : IsRed(u, n) /\ IsRed(u, u.parent[n]) =>
    \/ n # e /\ n # tmp /\ n \in X
    \/ n = e /\ IsRed(t, e)
    \/ n = tmp /\ e \in X

\* Such a rotation brings no red node below a red one, but below the node it turned down.
LEMMA TurnReds ==
  ASSUME NEW t, NEW E, NEW sub, Shape(t, E, sub), NEW d \in Sides, NEW e \in E,
         NEW tmp, tmp = t.child[Other(d)][e], tmp # Nil, t.color[tmp] = "red",
         ~IsRed(t, t.child[d][e]), ~IsRed(t, t.child[d][tmp]),
         NEW X, Reds(t, E, X),
         NEW u, TurnedRed(t, d, e, u)
  PROVE  RedsTurned(t, u, E, e, tmp, X)
<1> DEFINE o == Other(d)
           inner == t.child[d][tmp]
<1>1. /\ u \in Tree /\ tmp \in E /\ e # tmp /\ inner # e /\ inner # tmp
      /\ \A n \in E : u.parent[n] = IF n = tmp THEN t.parent[e] ELSE IF n = e THEN tmp
                                    ELSE IF n = inner THEN e ELSE t.parent[n]
  <2>1. TurnedOver(t, d, e, u)
    BY DEF TurnedRed
  <2>q. QED
    BY <2>1, TurnLinks
<1>2. E \subseteq Keys /\ Nil \notin E /\ t.parent[e] # tmp /\ t.parent[e] # e
  BY <1>1, Family, SideFacts, NilFacts
<1>3. \A n \in Keys :
          u.color[n] = IF n = tmp THEN t.color[e] ELSE IF n = e THEN "red" ELSE t.color[n]
  BY DEF TurnedRed
<1>4. SUFFICES ASSUME NEW n \in E, IsRed(u, n), IsRed(u, u.parent[n])
               PROVE  \/ n # e /\ n # tmp /\ n \in X
                      \/ n = e /\ IsRed(t, e)
                      \/ n = tmp /\ e \in X
  BY DEF RedsTurned
<1>5. CASE n = e
  BY <1>1, <1>2, <1>3, <1>4, <1>5 DEF IsRed
<1>6. CASE n = tmp
  <2>1. IsRed(t, e)
    BY <1>2, <1>3, <1>4, <1>6 DEF IsRed
  <2>2. t.parent[e] # Nil => t.parent[e] \in Keys
    BY <1>2, Family
  <2>3. IsRed(t, t.parent[e])
    BY <1>1, <1>2, <1>3, <1>4, <1>6, <2>2 DEF IsRed
  <2>q. QED
    BY <1>6, <2>1, <2>3 DEF Reds
<1>7. CASE n # e /\ n # tmp
  <2>1. IsRed(t, n) /\ n # inner
    BY <1>2, <1>3, <1>4, <1>7 DEF IsRed
  <2>2. u.parent[n] = t.parent[n] /\ (t.parent[n] # Nil => t.parent[n] \in E)
    BY <1>1, <1>7, <2>1, Family
  <2>3. t.parent[n] = e => n = t.child[d][e] \/ n = tmp
    <3>1. t.parent[n] = e => \E k \in Sides : t.child[k][e] = n
      BY <1>2, Family
    <3>q. QED
      BY <3>1, SideFacts
  <2>4. t.parent[n] # e
    BY <1>7, <2>1, <2>3
  <2>5. IsRed(t, t.parent[n])
    BY <1>2, <1>3, <1>4, <2>2, <2>4 DEF IsRed
  <2>q. QED
    BY <1>7, <2>1, <2>5 DEF Reds
<1>q. QED
  BY <1>5, <1>6, <1>7

\* A new leaf is red.
LEMMA AttachColors ==
  ASSUME NEW t, NEW E, NEW sub, Shape(t, E, sub), NEW e \in Keys \ E, NEW p,
         \/ E = {} /\ p = Nil
         \/ p \in E /\ t.child[Side(e, p)][p] = Nil,
         NEW u, Attached(t, e, p, u),
         NEW H, Heights(t, E, H, Nil, "L"), Reds(t, E, {})
  PROVE  /\ Heights(u, E \cup {e}, [H EXCEPT ![e] = 0], Nil, "L")
         /\ Reds(u, E \cup {e}, {e})
<1> DEFINE H2 == [H EXCEPT ![e] = 0]
           E2 == E \cup {e}
<1>1. /\ E \subseteq Keys /\ e \in Keys /\ e # Nil /\ Nil \notin E2 /\ e \in Links /\ p # e
      /\ E2 \subseteq Keys /\ E2 \subseteq Links /\ Nil \in Links
      /\ \A n \in E, k \in Sides : t.child[k][n] # e /\ t.child[k][n] \in Links
      /\ \A n \in E : t.parent[n] # e
  BY NilFacts, Family DEF Shape, Bounds, Tree
<1>2. /\ H \in [Links -> Nat] /\ H[Nil] = 0
      /\ \A n \in E, k \in Sides : H[n] = H[t.child[k][n]] + Weight(t, n) + 0
  BY <1>1 DEF Heights, Gap
<1>3. /\ H2 \in [Links -> Nat] /\ H2[Nil] = 0 /\ H2[e] = 0
      /\ \A n \in Links : n # e => H2[n] = H[n]
  BY <1>1, <1>2
<1>4. /\ \A n \in Keys : u.parent[n] = IF n = e THEN p ELSE t.parent[n]
      /\ \A n \in Keys : u.color[n] = IF n = e THEN "red" ELSE t.color[n]
      /\ \A k \in Sides, n \in Keys :
           u.child[k][n] = IF n = e THEN Nil
                           ELSE IF n = p /\ k = Side(e, p) THEN e ELSE t.child[k][n]
  BY DEF Attached
<1>5. Weight(u, e) = 0 /\ \A n \in E : Weight(u, n) = Weight(t, n)
  BY <1>1, <1>4 DEF Weight
<1>6. ASSUME NEW n \in E2, NEW k \in Sides
      PROVE  H2[n] = H2[u.child[k][n]] + Weight(u, n) + Gap(n, k, Nil, "L")
  <2>0. Gap(n, k, Nil, "L") = 0
    BY <1>1 DEF Gap
  <2>1. CASE n = e
    BY <1>1, <1>3, <1>4, <1>5, <2>0, <2>1
  <2>2. CASE n # e /\ n = p /\ k = Side(e, p)
    <3>1. t.child[k][n] = Nil /\ u.child[k][n] = e /\ n \in E
      BY <1>1, <1>4, <2>2
    <3>q. QED
      BY <1>1, <1>2, <1>3, <1>5, <2>0, <2>2, <3>1
  <2>3. CASE n # e /\ ~(n = p /\ k = Side(e, p))
    <3>1. u.child[k][n] = t.child[k][n] /\ n \in E
      BY <1>1, <1>4, <2>3
    <3>2. H2[u.child[k][n]] = H[t.child[k][n]] /\ H2[n] = H[n]
      BY <1>1, <1>3, <2>3, <3>1
    <3>q. QED
      BY <1>2, <1>5, <2>0, <3>1, <3>2
  <2>q. QED
    BY <2>1, <2>2, <2>3
<1>7. Heights(u, E2, H2, Nil, "L")
  BY <1>3, <1>6 DEF Heights
<1>8. ASSUME NEW n \in E, IsRed(u, n), IsRed(u, u.parent[n])
      PROVE  FALSE
  <2>1. n # e /\ n \in Keys /\ u.parent[n] = t.parent[n] /\ t.parent[n] # e
    BY <1>1, <1>4
  <2>2. t.parent[n] # Nil => t.parent[n] \in Keys
    BY <1>1, Family
  <2>3. IsRed(t, n) /\ IsRed(t, t.parent[n])
    BY <1>4, <1>8, <2>1, <2>2 DEF IsRed
  <2>q. QED
    BY <2>3 DEF Reds
<1>q. QED
  BY <1>7, <1>8 DEF Reds

\* What is left of a tree when c took the place of a node of color k below p.
Shortened(u, F, H, k, c, p) ==
  /\ Reds(u, F, {c}) /\ (k = "red" => Reds(u, F, {}))
  /\ k = "red" \/ p = Nil => Heights(u, F, H, Nil, "L")
  /\ k = "black" /\ p # Nil => \E s \in Sides : u.child[s][p] = c /\ Heights(u, F, H, p, s)

\* Without a black node, the place of its child is short.
LEMMA DetachColors ==
  ASSUME NEW t, NEW E, NEW sub, Shape(t, E, sub), NEW d \in Sides, NEW e \in E,
         t.child[d][e] = Nil, NEW u, Detached(t, d, e, u),
         NEW H, Heights(t, E, H, Nil, "L"), Reds(t, E, {}),
         NEW c, c = t.child[Other(d)][e], NEW p, p = t.parent[e]
  PROVE  Shortened(u, E \ {e}, H, t.color[e], c, p)
<1> DEFINE E2 == E \ {e}
<1>1. /\ E \subseteq Keys /\ E \subseteq Links /\ Nil \notin E /\ p # e /\ c # e
      /\ (p # Nil => p \in E) /\ (c # Nil => c \in E /\ t.parent[c] = e) /\ Other(d) \in Sides
      /\ \A n \in E, k \in Sides : t.child[k][n] \in Links
      /\ t.color \in [Keys -> {"red", "black"}]
  <2>1. E \subseteq Keys /\ E \subseteq Links /\ Nil \notin E /\ Other(d) \in Sides
    BY Family, SideFacts, NilFacts
  <2>2. (p # Nil => p \in E) /\ p # e
    BY <2>1, Family
  <2>3. (c # Nil => c \in E /\ t.parent[c] = e) /\ c # e
    BY <2>1, Family
  <2>4. t \in Tree
    BY Family
  <2>5. t.color \in [Keys -> {"red", "black"}] /\ \A n \in E, k \in Sides : t.child[k][n] \in Links
    BY <2>1, <2>4 DEF Tree
  <2>q. QED
    BY <2>1, <2>2, <2>3, <2>5
<1>2. /\ H \in [Links -> Nat] /\ H[Nil] = 0
      /\ \A n \in E, k \in Sides : H[n] = H[t.child[k][n]] + Weight(t, n) + 0
  BY <1>1 DEF Heights, Gap
<1>3. /\ \A n \in Keys : u.parent[n] = IF n = e THEN Nil ELSE IF n = c THEN p ELSE t.parent[n]
      /\ \A n \in Keys : u.color[n] = IF n = e THEN "red" ELSE t.color[n]
      /\ \A k \in Sides, n \in Keys :
           u.child[k][n] = IF n = e THEN Nil
                           ELSE IF t.child[k][n] = e THEN c ELSE t.child[k][n]
  BY DEF Detached
<1>4. \A n \in E2 : Weight(u, n) = Weight(t, n)
  BY <1>1, <1>3 DEF Weight
<1>5. \A n \in E, k \in Sides : t.child[k][n] = e => n = p
  BY <1>1, LinksTo
<1>6. \A n \in E2, k \in Sides : t.child[k][n] # e => H[n] = H[u.child[k][n]] + Weight(u, n) + 0
  BY <1>1, <1>2, <1>3, <1>4
<1>7. \A n \in E2, k \in Sides :
        t.child[k][n] = e => H[n] = H[u.child[k][n]] + Weight(u, n) + Weight(t, e)
  <2>1. SUFFICES ASSUME NEW n \in E2, NEW k \in Sides, t.child[k][n] = e
                 PROVE  H[n] = H[u.child[k][n]] + Weight(u, n) + Weight(t, e)
    OBVIOUS
  <2>2. H[n] = H[e] + Weight(t, n) + 0 /\ H[e] = H[c] + Weight(t, e) + 0
    BY <1>1, <1>2, <2>1
  <2>3. u.child[k][n] = c /\ Weight(u, n) = Weight(t, n)
    BY <1>1, <1>3, <1>4, <2>1
  <2>4. c \in Links /\ H[c] \in Nat /\ Weight(t, n) \in Nat /\ Weight(t, e) \in Nat
    BY <1>1, <1>2, NilFacts DEF Weight
  <2>q. QED
    BY <2>2, <2>3, <2>4
<1>8. ASSUME t.color[e] = "red" \/ p = Nil
      PROVE  Heights(u, E2, H, Nil, "L")
  <2>1. ASSUME NEW n \in E2, NEW k \in Sides
        PROVE  H[n] = H[u.child[k][n]] + Weight(u, n) + Gap(n, k, Nil, "L")
    <3>1. Gap(n, k, Nil, "L") = 0
      BY <1>1 DEF Gap
    <3>2. t.child[k][n] = e => Weight(t, e) = 0
      BY <1>1, <1>5, <1>8 DEF Weight
    <3>q. QED
      BY <1>6, <1>7, <3>1, <3>2
  <2>q. QED
    BY <1>2, <2>1 DEF Heights
<1>9. ASSUME t.color[e] = "black", p # Nil
      PROVE  \E s \in Sides : u.child[s][p] = c /\ Heights(u, E2, H, p, s)
  <2>1. PICK s \in Sides : t.child[s][p] = e /\ t.child[Other(s)][p] # e
    BY <1>9, Family
  <2>2. u.child[s][p] = c
    BY <1>1, <1>3, <1>9, <2>1
  <2>3. ASSUME NEW n \in E2, NEW k \in Sides
        PROVE  H[n] = H[u.child[k][n]] + Weight(u, n) + Gap(n, k, p, s)
    <3>1. t.child[k][n] = e <=> n = p /\ k = s
      BY <1>5, <2>1, SideFacts
    <3>2. Weight(t, e) = 1
      BY <1>9 DEF Weight
    <3>q. QED
      BY <1>6, <1>7, <3>1, <3>2 DEF Gap
  <2>4. Heights(u, E2, H, p, s)
    BY <1>2, <2>3 DEF Heights
  <2>q. QED
    BY <2>2, <2>4
<1>10. ASSUME NEW n \in E2, IsRed(u, n), IsRed(u, u.parent[n])
       PROVE  n = c /\ t.color[e] # "red"
  <2>1. IsRed(t, n)
    BY <1>1, <1>3, <1>10 DEF IsRed
  <2>2. ASSUME n # c
        PROVE  FALSE
    <3>1. u.parent[n] = t.parent[n] /\ t.parent[n] # e
      <4>1. t.parent[n] = e => \E k \in Sides : t.child[k][e] = n
        BY <1>1, Family
      <4>q. QED
        BY <1>1, <1>3, <2>2, <4>1, SideFacts
    <3>2. IsRed(t, t.parent[n])
      <4>1. t.parent[n] # Nil => t.parent[n] \in Keys
        BY <1>1, Family
      <4>q. QED
        BY <1>3, <1>10, <3>1, <4>1 DEF IsRed
    <3>q. QED
      BY <2>1, <3>2 DEF Reds
  <2>3. ASSUME n = c, t.color[e] = "red"
        PROVE  FALSE
    BY <1>1, <2>1, <2>3 DEF Reds, IsRed
  <2>q. QED
    BY <2>2, <2>3
<1>q. QED
  BY <1>8, <1>9, <1>10 DEF Reds, Shortened

\* A node that takes the place and the color of another takes its height, too.
LEMMA SubstituteColors ==
  ASSUME NEW t, NEW E, NEW sub, Shape(t, E, sub), NEW e \in E, NEW s \in Keys \ E,
         NEW u, Substituted(t, e, s, u),
         NEW H, NEW p, NEW d, Heights(t, E, H, p, d), p # s,
         NEW X, Reds(t, E, X), e \notin X
  PROVE  /\ Heights(u, (E \ {e}) \cup {s}, [H EXCEPT ![s] = H[e]], IF p = e THEN s ELSE p, d)
         /\ Reds(u, (E \ {e}) \cup {s}, X)
<1> DEFINE E2 == (E \ {e}) \cup {s}
           Of(n) == IF n = s THEN e ELSE n
           p2 == IF p = e THEN s ELSE p
           H2 == [H EXCEPT ![s] = H[e]]
<1>1. /\ t \in Tree /\ E \subseteq Keys /\ e \in Keys /\ e # s /\ s \in Keys /\ s \in Links
      /\ e \in Links /\ Nil # s /\ Nil # e /\ Nil \in Links /\ Keys \subseteq Links
      /\ E2 \subseteq Keys /\ Nil \notin E2
  BY Family, NilFacts
<1>2. /\ H \in [Links -> Nat] /\ H[Nil] = 0
      /\ \A n \in E, k \in Sides : H[n] = H[t.child[k][n]] + Weight(t, n) + Gap(n, k, p, d)
  BY DEF Heights
<1>3. /\ H2 \in [Links -> Nat] /\ H2[Nil] = 0 /\ H2[s] = H[e]
      /\ \A n \in Links : n # s => H2[n] = H[n]
  BY <1>1, <1>2
<1>4. \A n \in E2 : Of(n) \in E /\ n \in Keys /\ n # e /\ n # Nil /\ H2[n] = H[Of(n)]
  BY <1>1, <1>3
<1>5. \A n \in E2 : Weight(u, n) = Weight(t, Of(n)) /\ u.color[n] = t.color[Of(n)]
  BY <1>1 DEF Substituted, Weight
<1>6. ASSUME NEW n \in E2, NEW k \in Sides
      PROVE  H2[n] = H2[u.child[k][n]] + Weight(u, n) + Gap(n, k, p2, d)
  <2> DEFINE c == t.child[k][Of(n)]
  <2>1. c \in E \cup {Nil} /\ c # s
    BY <1>1, <1>4, Family
  <2>2. u.child[k][n] = IF c = e THEN s ELSE c
    <3>1. t.child[k][e] # e
      BY <1>1, Family
    <3>q. QED
      BY <1>1, <1>4, <3>1 DEF Substituted
  <2>3. H2[u.child[k][n]] = H[c]
    BY <1>1, <1>3, <2>1, <2>2
  <2>4. Gap(n, k, p2, d) = Gap(Of(n), k, p, d)
    BY <1>1, <1>4 DEF Gap
  <2> HIDE DEF Of, p2, H2, E2
  <2>5. H[Of(n)] = H[c] + Weight(t, Of(n)) + Gap(Of(n), k, p, d)
    BY <1>2, <1>4
  <2>q. QED
    BY <1>4, <1>5, <2>3, <2>4, <2>5
<1>7. ASSUME NEW n \in E2, IsRed(u, n), IsRed(u, u.parent[n])
      PROVE  n \in X
  <2> DEFINE q == t.parent[Of(n)]
  <2>1. q \in E \cup {Nil} /\ q # s /\ q # Of(n)
    BY <1>1, <1>4, Family
  <2>2. u.parent[n] = IF q = e THEN s ELSE q
    BY <1>1, <1>4, <2>1 DEF Substituted
  <2>3. IsRed(t, Of(n))
    BY <1>1, <1>4, <1>5, <1>7 DEF IsRed
  <2>4. IsRed(t, q)
    BY <1>1, <1>7, <2>1, <2>2 DEF IsRed, Substituted
  <2>5. Of(n) \in X
    BY <1>4, <2>3, <2>4 DEF Reds
  <2>q. QED
    BY <2>5
<1>q. QED
  BY <1>3, <1>6, <1>7 DEF Heights, Reds

\* The root, or a red node at a place that is short, turns black.
LEMMA BlackenColors ==
  ASSUME NEW t, NEW E, NEW sub, Shape(t, E, sub), NEW e \in E, t.color[e] = "red",
         NEW p, NEW s, \/ p = Nil /\ e = t.root
                       \/ p \in E /\ s \in Sides /\ t.child[s][p] = e,
         NEW H, Heights(t, E, H, p, s),
         NEW u, Painted(t, e, "black", u)
  PROVE  Heights(u, E, [H EXCEPT ![e] = H[e] + 1], Nil, "L")
<1> DEFINE H2 == [H EXCEPT ![e] = H[e] + 1]
<1>1. /\ E \subseteq Keys /\ E \subseteq Links /\ Nil \notin E /\ e \in Links /\ Nil \in Links
      /\ \A n \in E, k \in Sides : t.child[k][n] \in E \cup {Nil} /\ t.child[k][n] # n
      /\ \A n \in E, k \in Sides : t.child[k][n] = e => n = t.parent[e]
      /\ p # Nil => p = t.parent[e] /\ p # e
      /\ p = Nil => t.parent[e] = Nil
  <2>1. E \subseteq Keys /\ E \subseteq Links /\ Nil \notin E /\ e \in Links /\ Nil \in Links
    BY Family, NilFacts
  <2>2. \A n \in E, k \in Sides : t.child[k][n] \in E \cup {Nil} /\ t.child[k][n] # n
    BY <2>1, Family
  <2>3. \A n \in E, k \in Sides : t.child[k][n] = e => n = t.parent[e]
    BY <2>1, Family
  <2>4. p # Nil => p = t.parent[e] /\ p # e
    BY <2>1, <2>3, Family
  <2>5. p = Nil => t.parent[e] = Nil
    BY <2>1, Family
  <2>q. QED
    BY <2>1, <2>2, <2>3, <2>4, <2>5
<1>2. /\ H \in [Links -> Nat] /\ H[Nil] = 0
      /\ \A n \in E, k \in Sides : H[n] = H[t.child[k][n]] + Weight(t, n) + Gap(n, k, p, s)
  BY DEF Heights
<1>3. /\ H2 \in [Links -> Nat] /\ H2[Nil] = 0 /\ H2[e] = H[e] + 1
      /\ \A n \in Links : n # e => H2[n] = H[n]
  BY <1>1, <1>2
<1>4. u.child = t.child /\ Weight(u, e) = 1 /\ Weight(t, e) = 0
      /\ \A n \in E : n # e => Weight(u, n) = Weight(t, n)
  BY <1>1 DEF Painted, Weight
<1> HIDE DEF H2
<1>5. ASSUME NEW n \in E, NEW k \in Sides
      PROVE  H2[n] = H2[u.child[k][n]] + Weight(u, n) + Gap(n, k, Nil, "L")
  <2> DEFINE c == t.child[k][n]
  <2>0. c \in Links /\ c # n /\ Gap(n, k, Nil, "L") = 0 /\ H[c] \in Nat /\ Weight(t, n) \in Nat
    BY <1>1, <1>2 DEF Gap, Weight
  <2>1. H[n] = H[c] + Weight(t, n) + Gap(n, k, p, s)
    BY <1>2
  <2>2. CASE n = e
    <3>1. Gap(n, k, p, s) = 0
      BY <1>1, <2>2 DEF Gap
    <3>2. H2[c] = H[c]
      BY <1>3, <2>0, <2>2
    <3> HIDE DEF c
    <3>q. QED
      BY <1>3, <1>4, <2>0, <2>1, <2>2, <3>1, <3>2 DEF c
  <2>3. CASE n # e /\ c = e
    <3>1. Gap(n, k, p, s) = 1
      <4>1. n = p /\ p # Nil
        BY <1>1, <2>3
      <4>2. k = s
        BY <1>1, <2>3, <4>1, Family, SideFacts
      <4>q. QED
        BY <4>1, <4>2 DEF Gap
    <3>2. H2[c] = H[c] + 1 /\ H2[n] = H[n]
      BY <1>1, <1>3, <2>3
    <3> HIDE DEF c
    <3>q. QED
      BY <1>4, <2>0, <2>1, <2>3, <3>1, <3>2 DEF c
  <2>4. CASE n # e /\ c # e
    <3>1. Gap(n, k, p, s) = 0
      <4>1. ~(n = p /\ k = s)
        BY <1>1, <2>4
      <4>q. QED
        BY <4>1 DEF Gap
    <3>2. H2[c] = H[c] /\ H2[n] = H[n]
      BY <1>1, <1>3, <2>0, <2>4
    <3>q. QED
      BY <1>4, <2>0, <2>1, <2>4, <3>1, <3>2
  <2>q. QED
    BY <2>2, <2>3, <2>4
<1>q. QED
  BY <1>3, <1>5 DEF Heights, H2

\* A node g turns red, and its children a and b turn black.
Flipped(t, g, a, b, u) ==
  /\ Recolored(t, u)
  /\ \A n \in Keys : u.color[n] = IF n = g THEN "red" ELSE IF n = a \/ n = b THEN "black"
                                  ELSE t.color[n]

\* Both children of a black node turn from red to black, and it turns red.
LEMMA RecolorColors ==
  ASSUME NEW t, NEW E, NEW sub, Shape(t, E, sub), NEW g \in E, t.color[g] = "black",
         NEW a, a = t.child["L"][g], NEW b, b = t.child["R"][g], IsRed(t, a), IsRed(t, b),
         NEW u, Flipped(t, g, a, b, u),
         NEW H, Heights(t, E, H, Nil, "L"),
         NEW e, Reds(t, E, {e}), t.parent[e] \in {a, b}
  PROVE  \E G : Heights(u, E, G, Nil, "L") /\ Reds(u, E, {g})
<1>0. /\ Recolored(t, u)
      /\ \A n \in Keys : u.color[n] = IF n = g THEN "red" ELSE IF n = a \/ n = b THEN "black"
                                      ELSE t.color[n]
  BY DEF Flipped
<1> DEFINE H2 == [H EXCEPT ![a] = H[a] + 1, ![b] = H[b] + 1]
<1>1. /\ E \subseteq Keys /\ E \subseteq Links /\ Nil \notin E /\ Nil \in Links
      /\ a \in E /\ b \in E /\ a # b /\ a # g /\ b # g /\ t.parent[a] = g /\ t.parent[b] = g
  <2>1. E \subseteq Keys /\ E \subseteq Links /\ Nil \notin E /\ Nil \in Links
    BY Family, NilFacts
  <2>2. Other("L") = "R" /\ "L" \in Sides /\ "R" \in Sides
    BY DEF Other, Sides
  <2>3. a \in E /\ a # b /\ a # g /\ t.parent[a] = g
    BY <2>2, Family DEF IsRed
  <2>4. b \in E /\ b # g /\ t.parent[b] = g
    BY <2>2, Family DEF IsRed
  <2>q. QED
    BY <2>1, <2>3, <2>4
<1>2. /\ \A n \in E, k \in Sides : t.child[k][n] \in E \cup {Nil}
      /\ \A n \in E, k \in Sides : t.child[k][n] # Nil => t.parent[t.child[k][n]] = n
      /\ \A n \in E : t.parent[n] # Nil => t.parent[n] \in E
  BY <1>1, Family
<1>3. /\ H \in [Links -> Nat] /\ H[Nil] = 0
      /\ \A n \in E, k \in Sides : H[n] = H[t.child[k][n]] + Weight(t, n) + 0
  BY <1>1 DEF Heights, Gap
<1>4. /\ H2 \in [Links -> Nat] /\ H2[Nil] = 0 /\ H2[a] = H[a] + 1 /\ H2[b] = H[b] + 1
      /\ \A n \in Links : n # a /\ n # b => H2[n] = H[n]
  <2>1. H2 \in [Links -> Nat]
    BY <1>1, <1>3
  <2>q. QED
    BY <1>1, <1>3, <2>1
<1>5. /\ Weight(t, g) = 1 /\ Weight(u, g) = 0 /\ Weight(t, a) = 0 /\ Weight(t, b) = 0
      /\ Weight(u, a) = 1 /\ Weight(u, b) = 1
      /\ \A n \in E : n # a /\ n # b /\ n # g => Weight(u, n) = Weight(t, n)
  BY <1>0, <1>1 DEF IsRed, Weight
<1>6. u.child = t.child /\ u.parent = t.parent
  BY <1>0 DEF Recolored
<1> HIDE DEF H2
<1>7. ASSUME NEW n \in E, NEW k \in Sides
      PROVE  H2[n] = H2[u.child[k][n]] + Weight(u, n) + Gap(n, k, Nil, "L")
  <2> DEFINE c == t.child[k][n]
  <2>0. c \in Links /\ c # n /\ Gap(n, k, Nil, "L") = 0 /\ H[c] \in Nat /\ Weight(t, n) \in Nat
    <3>1. c \in Links /\ c # n
      BY <1>1, Family DEF Links
    <3>q. QED
      BY <1>1, <1>3, <3>1 DEF Gap, Weight
  <2>1. H[n] = H[c] + Weight(t, n) + 0
    BY <1>3
  <2>2. CASE n = g
    <3>1. c = a \/ c = b
      BY <2>2 DEF Sides
    <3>2. H2[c] = H[c] + 1 /\ H2[n] = H[n]
      BY <1>1, <1>4, <2>2, <3>1
    <3> HIDE DEF c
    <3>q. QED
      BY <1>5, <1>6, <2>0, <2>1, <2>2, <3>2 DEF c
  <2>3. CASE n = a \/ n = b
    <3>1. c # a /\ c # b
      BY <1>1, <1>2, <2>3
    <3>2. H2[c] = H[c] /\ H2[n] = H[n] + 1
      BY <1>4, <2>0, <2>3, <3>1
    <3>3. Weight(u, n) = 1 /\ Weight(t, n) = 0
      BY <1>5, <2>3
    <3> HIDE DEF c
    <3>q. QED
      BY <1>6, <2>0, <2>1, <3>2, <3>3 DEF c
  <2>4. CASE n # g /\ n # a /\ n # b
    <3>1. c # a /\ c # b
      BY <1>1, <1>2, <2>4
    <3>2. H2[c] = H[c] /\ H2[n] = H[n]
      BY <1>1, <1>4, <2>0, <2>4, <3>1
    <3>q. QED
      BY <1>5, <1>6, <2>0, <2>1, <2>4, <3>2
  <2>q. QED
    BY <2>2, <2>3, <2>4
<1>8. ASSUME NEW n \in E, IsRed(u, n), IsRed(u, u.parent[n])
      PROVE  n = g
  <2>1. SUFFICES ASSUME n # g
                 PROVE  FALSE
    OBVIOUS
  <2>2. IsRed(t, n) /\ n # a /\ n # b
    BY <1>0, <1>1, <1>8, <2>1 DEF IsRed
  <2>3. t.parent[n] # g
    <3>1. t.parent[n] = g => \E k \in Sides : t.child[k][g] = n
      BY <1>1, Family
    <3>q. QED
      BY <2>2, <3>1 DEF Sides
  <2>4. IsRed(t, t.parent[n]) /\ t.parent[n] # a /\ t.parent[n] # b
    BY <1>0, <1>1, <1>2, <1>6, <1>8, <2>3 DEF IsRed
  <2>5. n = e
    BY <2>2, <2>4 DEF Reds
  <2>q. QED
    BY <2>4, <2>5
<1>q. QED
  BY <1>4, <1>7, <1>8 DEF Heights, Reds, H2

\* Above p there is a place that is short, or p is the root.
ShortAbove(t, u, E, p, w) ==
  /\ Reds(u, E, {w})
  /\ \E G :
       /\ t.parent[p] = Nil => Heights(u, E, G, Nil, "L")
       /\ t.parent[p] # Nil =>
            \E d \in Sides : t.child[d][t.parent[p]] = p /\ Heights(u, E, G, t.parent[p], d)

\* A black sibling w without red children turns red: now the place of p is short.
LEMMA UpColors ==
  ASSUME NEW t, NEW E, NEW sub, Shape(t, E, sub), NEW p \in E, NEW s \in Sides,
         NEW H, Heights(t, E, H, p, s), Reds(t, E, {}),
         NEW o, o = Other(s), NEW w, w = t.child[o][p], w # Nil, t.color[w] = "black",
         \A k \in Sides : ~IsRed(t, t.child[k][w]),
         NEW u, Painted(t, w, "red", u)
  PROVE  ShortAbove(t, u, E, p, w)
<1> DEFINE q == t.parent[p]
           G == [H EXCEPT ![w] = H[w] - 1, ![p] = H[p] - 1]
<1>1. /\ E \subseteq Keys /\ E \subseteq Links /\ Nil \notin E /\ Nil \in Links
      /\ w \in E /\ w # p /\ t.parent[w] = p /\ o \in Sides /\ s # o /\ (q # Nil => q \in E)
      /\ q # p /\ \A k \in Sides : (k = s \/ k = o) /\ t.child[k][w] # p
  <2>1. E \subseteq Keys /\ E \subseteq Links /\ Nil \notin E /\ Nil \in Links
    BY Family, NilFacts
  <2>2. o \in Sides /\ s # o /\ \A k \in Sides : k = s \/ k = o
    BY SideFacts
  <2>3. w \in E /\ w # p /\ t.parent[w] = p
    BY <2>2, Family
  <2>4. q # p /\ (q # Nil => q \in E)
    BY <2>1, Family
  <2>5. \A k \in Sides : t.child[k][w] # p
    BY <2>1, <2>3, Family
  <2>q. QED
    BY <2>1, <2>2, <2>3, <2>4, <2>5
<1>2. \A n \in E, k \in Sides : /\ t.child[k][n] \in E \cup {Nil} /\ t.child[k][n] # n
                                /\ t.child[k][n] = w => n = p /\ k = o
                                /\ t.child[k][n] = p => n = q
  <2>1. SUFFICES ASSUME NEW n \in E, NEW k \in Sides
                 PROVE  /\ t.child[k][n] \in E \cup {Nil} /\ t.child[k][n] # n
                        /\ t.child[k][n] = w => n = p /\ k = o
                        /\ t.child[k][n] = p => n = q
    OBVIOUS
  <2>2. t.child[k][n] \in E \cup {Nil} /\ t.child[k][n] # n
    BY <1>1, Family
  <2>3. t.child[k][n] = p => n = q
    BY <1>1, Family
  <2>4. t.child[k][n] = w => n = p
    BY <1>1, Family
  <2>5. t.child[s][p] # w
    BY <1>1, Family
  <2>q. QED
    BY <1>1, <2>2, <2>3, <2>4, <2>5
<1>3. /\ H \in [Links -> Nat] /\ H[Nil] = 0
      /\ \A n \in E, k \in Sides : H[n] = H[t.child[k][n]] + Weight(t, n) + Gap(n, k, p, s)
      /\ \A n : Weight(t, n) \in {0, 1}
  BY DEF Heights, Weight
<1>4. /\ Weight(t, w) = 1 /\ Weight(u, w) = 0 /\ u.child = t.child /\ u.parent = t.parent
      /\ \A n \in E : n # w => Weight(u, n) = Weight(t, n)
  BY <1>1 DEF Painted, Weight
<1>5. /\ Gap(p, s, p, s) = 1 /\ Gap(p, o, p, s) = 0
      /\ \A n \in E, k \in Sides : n # p => Gap(n, k, p, s) = 0
  BY <1>1 DEF Gap
<1>6. /\ \A k \in Sides : H[w] = H[t.child[k][w]] + 1 + 0
      /\ H[p] = H[t.child[s][p]] + Weight(t, p) + 1
      /\ H[p] = H[w] + Weight(t, p) + 0
  BY <1>1, <1>3, <1>4, <1>5
<1>7. H[w] \in Nat \ {0} /\ H[p] \in Nat \ {0}
  <2>1. H[w] \in Nat /\ H[t.child[s][w]] \in Nat /\ H[p] \in Nat /\ H[w] = H[t.child[s][w]] + 1 + 0
    BY <1>1, <1>2, <1>3, <1>6
  <2>2. H[w] # 0
    BY <2>1
  <2>3. H[p] # 0
    <3>1. H[p] = H[w] + Weight(t, p) + 0 /\ Weight(t, p) \in {0, 1}
      BY <1>3, <1>6
    <3>q. QED
      BY <2>1, <2>2, <3>1
  <2>q. QED
    BY <2>1, <2>2, <2>3
<1>8. /\ G \in [Links -> Nat] /\ G[Nil] = 0 /\ G[w] = H[w] - 1 /\ G[p] = H[p] - 1
      /\ \A n \in Links : n # w /\ n # p => G[n] = H[n]
  <2>1. G \in [Links -> Nat]
    BY <1>1, <1>3, <1>7
  <2>q. QED
    BY <1>1, <1>3, <2>1
<1> HIDE DEF G
<1>9. ASSUME NEW d, q # Nil => d \in Sides /\ t.child[d][q] = p,
             NEW n \in E, NEW k \in Sides
      PROVE  G[n] = G[u.child[k][n]] + Weight(u, n) + Gap(n, k, q, d)
  <2> DEFINE c == t.child[k][n]
  <2>1. c \in Links /\ c # n /\ H[c] \in Nat /\ H[n] \in Nat
    BY <1>1, <1>2, <1>3
  <2>2. CASE n = w
    <3>1. Gap(n, k, q, d) = 0
      <4>1. n # q
        BY <1>1, <1>2, <1>9, <2>2
      <4>q. QED
        BY <4>1 DEF Gap
    <3>2. G[c] = H[c]
      BY <1>1, <1>2, <1>8, <2>1, <2>2
    <3>3. H[n] = H[c] + 1 + 0
      BY <1>6, <2>2
    <3>4. Weight(u, n) = 0
      BY <1>4, <2>2
    <3>5. G[n] = H[n] - 1
      BY <1>8, <2>2
    <3> HIDE DEF c
    <3>6. G[n] = G[c] + 0 + 0
      BY <2>1, <3>2, <3>3, <3>5
    <3>7. u.child[k][n] = c
      BY <1>4 DEF c
    <3>q. QED
      BY <3>1, <3>4, <3>6, <3>7
  <2>3. CASE n = p
    <3>1. Gap(n, k, q, d) = 0
      BY <1>1, <2>3 DEF Gap
    <3>2. Weight(u, n) = Weight(t, p) /\ Weight(t, p) \in {0, 1}
      BY <1>1, <1>3, <1>4, <2>3
    <3>3. CASE k = s
      <4>1. G[c] = H[c]
        BY <1>1, <1>2, <1>8, <2>1, <2>3, <3>3
      <4>2. H[n] = H[c] + Weight(t, p) + 1
        BY <1>6, <2>3, <3>3
      <4> HIDE DEF c
      <4>q. QED
        BY <1>4, <1>8, <2>1, <2>3, <3>1, <3>2, <4>1, <4>2 DEF c
    <3>4. CASE k = o
      <4>1. c = w
        BY <2>3, <3>4
      <4>2. H[n] = H[w] + Weight(t, p) + 0
        BY <1>6, <2>3
      <4> HIDE DEF c
      <4>q. QED
        BY <1>4, <1>7, <1>8, <2>1, <2>3, <3>1, <3>2, <4>1, <4>2 DEF c
    <3>q. QED
      BY <1>1, <3>3, <3>4
  <2>4. CASE n # w /\ n # p
    <3>1. H[n] = H[c] + Weight(t, n) + 0 /\ G[n] = H[n] /\ Weight(t, n) \in {0, 1} /\ c # w
      BY <1>1, <1>2, <1>3, <1>5, <1>8, <2>4
    <3>2. CASE c = p
      <4>1. Gap(n, k, q, d) = 1
        <5>1. n = q /\ q # Nil
          BY <1>1, <1>2, <3>2
        <5>2. k = d
          BY <1>1, <1>9, <3>2, <5>1, Family, SideFacts
        <5>q. QED
          BY <5>1, <5>2 DEF Gap
      <4> HIDE DEF c
      <4>q. QED
        BY <1>4, <1>7, <1>8, <2>1, <2>4, <3>1, <3>2, <4>1 DEF c
    <3>3. CASE c # p
      <4>1. Gap(n, k, q, d) = 0
        <5>1. ~(n = q /\ k = d)
          BY <1>1, <1>9, <3>3
        <5>q. QED
          BY <5>1 DEF Gap
      <4>2. G[c] = H[c]
        BY <1>8, <2>1, <3>1, <3>3
      <4>q. QED
        BY <1>4, <2>4, <3>1, <4>1, <4>2
    <3>q. QED
      BY <3>2, <3>3
  <2>q. QED
    BY <2>2, <2>3, <2>4
<1>10. q = Nil => Heights(u, E, G, Nil, "L")
  BY <1>8, <1>9 DEF Heights
<1>11. ASSUME q # Nil
       PROVE  \E d \in Sides : t.child[d][q] = p /\ Heights(u, E, G, q, d)
  <2>1. PICK d \in Sides : t.child[d][q] = p
    BY <1>11, Family
  <2>2. Heights(u, E, G, q, d)
    BY <1>8, <1>9, <2>1 DEF Heights
  <2>q. QED
    BY <2>1, <2>2
<1>12. ASSUME NEW n \in E, IsRed(u, n), IsRed(u, u.parent[n])
       PROVE  n = w
  <2>1. SUFFICES ASSUME n # w
                 PROVE  FALSE
    OBVIOUS
  <2>2. IsRed(t, n)
    BY <1>1, <1>12, <2>1 DEF Painted, IsRed
  <2>3. t.parent[n] # w
    <3>1. t.parent[n] = w => \E k \in Sides : t.child[k][w] = n
      BY <1>1, Family
    <3>q. QED
      BY <2>2, <3>1
  <2>4. IsRed(t, t.parent[n])
    <3>1. t.parent[n] # Nil => t.parent[n] \in Keys
      BY <1>1, Family
    <3>q. QED
      BY <1>1, <1>4, <1>12, <2>3, <3>1 DEF Painted, IsRed
  <2>q. QED
    BY <2>2, <2>4 DEF Reds
<1>13. Reds(u, E, {w})
  BY <1>12 DEF Reds
<1>q. QED
  BY <1>10, <1>11, <1>13 DEF ShortAbove

\* The nodes around one whose sibling has a child on the other side.
LEMMA FillLinks ==
  ASSUME NEW t, NEW E, NEW sub, Shape(t, E, sub), NEW p \in E, NEW s \in Sides,
         NEW near, near = t.child[s][p],
         NEW o, o = Other(s), NEW w, w = t.child[o][p], w # Nil,
         NEW x, x = t.child[o][w], x # Nil, NEW inner, inner = t.child[s][w]
  PROVE  /\ E \subseteq Keys /\ E \subseteq Links /\ Nil \notin E /\ Nil \in Links
         /\ o \in Sides /\ o # s /\ \A k \in Sides : k = s \/ k = o
         /\ \A n \in E, k \in Sides : t.child[k][n] \in E \cup {Nil} /\ t.child[k][n] # n
         /\ w \in E /\ p # w /\ inner # p /\ inner # w /\ near # p
         /\ x \in E /\ x # w /\ x # p /\ t.parent[x] = w /\ t.parent[w] = p /\ t.parent[p] # x
         /\ inner # x /\ near # x /\ near # w /\ t.parent[p] # w
         /\ \A n \in E, k \in Sides : t.child[k][n] = x => n = w
         /\ \A k \in Sides : t.child[k][x] # p /\ t.child[k][x] # w
<1>1. w \in E /\ p # w /\ t.parent[w] = p /\ t.parent[p] # w
  <2>1. o \in Sides
    BY SideFacts
  <2>q. QED
    BY <2>1, Family
<1>2. /\ E \subseteq Keys /\ E \subseteq Links /\ Nil \notin E /\ Nil \in Links
      /\ o \in Sides /\ o # s
  BY Family, NilFacts, SideFacts
<1>s. \A k \in Sides : k = s \/ k = o
  BY SideFacts
<1>c. \A n \in E, k \in Sides : t.child[k][n] \in E \cup {Nil} /\ t.child[k][n] # n
  BY <1>2, Family
<1>p. \A n \in E, k \in Sides : t.child[k][n] # Nil => t.parent[t.child[k][n]] = n
  BY Family
<1>3. /\ x \in E /\ x # w /\ x # p /\ t.parent[x] = w /\ t.parent[w] = p /\ t.parent[p] # x
      /\ inner # x /\ near # x /\ near # w /\ x # Nil
  <2>1. x \in E /\ x # w /\ x # Nil /\ t.parent[x] = w /\ t.parent[w] = p
    BY <1>1, <1>2, <1>c, <1>p
  <2>2. x # p
    <3>1. t.child[o][w] # t.parent[w]
      BY <1>1, <1>2, <2>1, Family
    <3>q. QED
      BY <2>1, <3>1
  <2>4. inner # x
    <3>1. t.child[o][w] # t.child[Other(o)][w] /\ Other(o) = s
      BY <1>1, <1>2, <2>1, Family, SideFacts
    <3>q. QED
      BY <3>1
  <2>5. near # w
    <3>1. t.child[o][p] # t.child[Other(o)][p] /\ Other(o) = s
      BY <1>2, Family, SideFacts
    <3>q. QED
      BY <3>1
  <2>6. near # x
    BY <1>1, <1>2, <1>p, <2>1
  <2>8. \A k \in Sides : t.child[k][x] # p
    <3>1. p \notin sub[w]
      BY <1>2, Divided
    <3>2. sub[x] \subseteq sub[w] /\ \A k \in Sides : sub[t.child[k][x]] \subseteq sub[x]
      <4>1. \A k \in Sides : sub[t.child[k][w]] \subseteq sub[w]
        BY <1>1, InItself
      <4>2. \A k \in Sides : sub[t.child[k][x]] \subseteq sub[x]
        BY <2>1, InItself
      <4>q. QED
        BY <1>2, <4>1, <4>2
    <3>3. p \in sub[p]
      BY InItself
    <3>q. QED
      BY <3>1, <3>2, <3>3
  <2>9. t.parent[p] # x
    <3>1. t.parent[p] # Nil => \E k \in Sides : t.child[k][t.parent[p]] = p
      BY Family
    <3>q. QED
      BY <2>1, <2>8, <3>1
  <2>q. QED
    BY <2>1, <2>2, <2>4, <2>5, <2>6, <2>9
<1>x. /\ \A n \in E, k \in Sides : t.child[k][n] = x => n = w
      /\ \A k \in Sides : t.child[k][x] # p /\ t.child[k][x] # w
  <2>1. ASSUME NEW n \in E, NEW k \in Sides, t.child[k][n] = x
        PROVE  n = w
    BY <1>3, <1>p, <2>1
  <2>2. ASSUME NEW k \in Sides, t.child[k][x] = p
        PROVE  FALSE
    <3>1. p # Nil
      BY <1>2
    <3>q. QED
      BY <1>3, <1>p, <2>2, <3>1
  <2>3. ASSUME NEW k \in Sides, t.child[k][x] = w
        PROVE  FALSE
    BY <1>3, <1>p, <2>3
  <2>q. QED
    BY <2>1, <2>2, <2>3
<1>4. inner # p /\ inner # w /\ near # p
  <2>1. t.child[s][w] # Nil => t.child[s][w] # t.parent[w]
    BY <1>1, Family
  <2>q. QED
    BY <1>1, <1>2, <1>c, <2>1
<1>q. QED
  BY <1>1, <1>2, <1>s, <1>c, <1>3, <1>x, <1>4

\* The rotation that closes the gap: the sibling w has the color of p and two black children.
LEMMA FillHeights ==
  ASSUME NEW t, NEW E, NEW sub, Shape(t, E, sub), NEW p \in E, NEW s \in Sides,
         NEW near, near = t.child[s][p],
         NEW o, o = Other(s), NEW w, w = t.child[o][p], w # Nil, t.color[w] = "black",
         NEW x, x = t.child[o][w], IsRed(t, x), NEW inner, inner = t.child[s][w],
         NEW u, TurnedOver(t, s, p, u),
         \A n \in Keys : u.color[n] = IF n = x \/ n = p THEN "black"
                                      ELSE IF n = w THEN t.color[p] ELSE t.color[n],
         NEW H, Heights(t, E, H, p, s)
  PROVE  Heights(u, E, [H EXCEPT ![w] = H[p], ![p] = H[w], ![x] = H[w]], Nil, "L")
<1> DEFINE G == [H EXCEPT ![w] = H[p], ![p] = H[w], ![x] = H[w]]
<1>2. /\ E \subseteq Keys /\ E \subseteq Links /\ Nil \notin E /\ Nil \in Links
      /\ o \in Sides /\ o # s
      /\ w \in E /\ p # w /\ inner # p /\ inner # w /\ near # p
      /\ x \in E /\ x # w /\ x # p /\ t.parent[x] = w /\ t.parent[w] = p /\ t.parent[p] # x
      /\ inner # x /\ near # x /\ near # w /\ t.parent[p] # w
  BY FillLinks DEF IsRed
<1>s. \A k \in Sides : k = s \/ k = o
  BY FillLinks DEF IsRed
<1>c. \A n \in E, k \in Sides : t.child[k][n] \in E \cup {Nil} /\ t.child[k][n] # n
  BY FillLinks DEF IsRed
<1>x. /\ \A n \in E, k \in Sides : t.child[k][n] = x => n = w
      /\ \A k \in Sides : t.child[k][x] # p /\ t.child[k][x] # w
  BY FillLinks DEF IsRed
<1>1. /\ u.child[o][p] = inner /\ u.child[s][p] = near
      /\ u.child[s][w] = p /\ u.child[o][w] = x
  BY TurnLinks
<1>l. \A n \in E, k \in Sides : n # p /\ n # w =>
        /\ t.child[k][n] # w /\ t.child[k][n] # p => u.child[k][n] = t.child[k][n]
        /\ t.child[k][n] = p => u.child[k][n] = w
        /\ t.child[k][n] # w
  BY TurnLinks
<1>4. /\ H \in [Links -> Nat] /\ H[Nil] = 0
      /\ \A n \in E, k \in Sides : H[n] = H[t.child[k][n]] + Weight(t, n) + Gap(n, k, p, s)
      /\ \A n : Weight(t, n) \in {0, 1}
  BY DEF Heights, Weight
<1>5. /\ Gap(p, s, p, s) = 1 /\ Gap(p, o, p, s) = 0
      /\ \A n \in E, k \in Sides : n # p => Gap(n, k, p, s) = 0
      /\ \A n \in E, k \in Sides : Gap(n, k, Nil, "L") = 0
  BY <1>2 DEF Gap
<1>6. /\ Weight(t, w) = 1 /\ Weight(t, x) = 0 /\ Weight(u, x) = 1 /\ Weight(u, p) = 1
      /\ Weight(u, w) = Weight(t, p)
      /\ \A n \in E : n # w /\ n # p /\ n # x => Weight(u, n) = Weight(t, n)
  BY <1>2 DEF Weight, IsRed
<1>7. /\ H[p] = H[w] + Weight(t, p) + 0 /\ H[w] = H[near] + 1 + 0 /\ H[w] = H[inner] + 1 + 0
      /\ \A k \in Sides : H[w] = H[t.child[k][x]] + 1 + 0
  <2>1. H[p] = H[w] + Weight(t, p) + 0 /\ H[p] = H[near] + Weight(t, p) + 1
    BY <1>2, <1>4, <1>5
  <2>2. H[w] = H[inner] + 1 + 0 /\ H[w] = H[x] + 1 + 0
    <3>1. /\ H[w] = H[t.child[s][w]] + Weight(t, w) + Gap(w, s, p, s)
          /\ H[w] = H[t.child[o][w]] + Weight(t, w) + Gap(w, o, p, s)
      BY <1>2, <1>4
    <3>2. Gap(w, s, p, s) = 0 /\ Gap(w, o, p, s) = 0
      BY <1>2, <1>5
    <3>q. QED
      BY <1>6, <3>1, <3>2
  <2>3. ASSUME NEW k \in Sides
        PROVE  H[w] = H[t.child[k][x]] + 1 + 0
    <3>1. H[x] = H[t.child[k][x]] + Weight(t, x) + Gap(x, k, p, s)
      BY <1>2, <1>4
    <3>2. Gap(x, k, p, s) = 0
      BY <1>2, <1>5
    <3>3. t.child[k][x] \in Links
      BY <1>2, <1>c
    <3>4. Weight(t, x) = 0 /\ H[t.child[k][x]] \in Nat
      BY <1>4, <1>6, <3>3
    <3>5. H[x] = H[t.child[k][x]]
      <4> DEFINE h == H[t.child[k][x]]
      <4>1. h \in Nat /\ H[x] = h + 0 + 0
        BY <3>1, <3>2, <3>4
      <4> HIDE DEF h
      <4>2. H[x] = h
        BY <4>1
      <4>q. QED
        BY <4>2 DEF h
    <3>q. QED
      BY <2>2, <3>5
  <2>4. /\ H[p] \in Nat /\ H[w] \in Nat /\ H[near] \in Nat /\ H[inner] \in Nat /\ H[x] \in Nat
        /\ Weight(t, p) \in {0, 1}
    <3>1. p \in Links /\ w \in Links /\ x \in Links
      BY <1>2
    <3>2. near \in Links /\ inner \in Links
      BY <1>2, <1>c
    <3>q. QED
      BY <1>4, <3>1, <3>2
  <2>6. H[w] = H[near] + 1 + 0
    BY <2>1, <2>4
  <2>q. QED
    BY <2>1, <2>2, <2>3, <2>6
<1>8. /\ G \in [Links -> Nat] /\ G[Nil] = 0 /\ G[w] = H[p] /\ G[p] = H[w] /\ G[x] = H[w]
      /\ \A n \in Links : n # w /\ n # p /\ n # x => G[n] = H[n]
  <2>1. G \in [Links -> Nat]
    BY <1>1, <1>2, <1>4
  <2>q. QED
    BY <1>1, <1>2, <1>4, <2>1
<1> HIDE DEF G
<1>n. near \in Links /\ inner \in Links /\ G[near] = H[near] /\ G[inner] = H[inner]
  <2>1. near \in E \cup {Nil} /\ near # p /\ inner \in E \cup {Nil} /\ inner # w
    BY <1>1, <1>2, <1>c
  <2>q. QED
    BY <1>1, <1>2, <1>8, <2>1
<1>9. ASSUME NEW n \in E, NEW k \in Sides
      PROVE  G[n] = G[u.child[k][n]] + Weight(u, n) + Gap(n, k, Nil, "L")
  <2>0. Gap(n, k, Nil, "L") = 0
    BY <1>5
  <2>1. CASE n = p
    <3>1. u.child[k][n] = near \/ u.child[k][n] = inner
      BY <1>1, <1>s, <2>1
    <3>q. QED
      BY <1>6, <1>7, <1>8, <1>n, <2>0, <2>1, <3>1
  <2>2. CASE n = w
    <3>1. u.child[k][n] = p \/ u.child[k][n] = x
      BY <1>1, <1>s, <2>2
    <3>q. QED
      BY <1>6, <1>7, <1>8, <2>0, <2>2, <3>1
  <2>3. CASE n = x
    <3>1. t.child[k][x] \in Links /\ t.child[k][x] # p /\ t.child[k][x] # w /\ t.child[k][x] # x
      BY <1>2, <1>c, <1>x
    <3>2. u.child[k][n] = t.child[k][n] /\ t.child[k][n] # x
      <4>1. x # p /\ x # w /\ x \in E
        BY <1>2
      <4>2. (t.child[k][x] # w /\ t.child[k][x] # p) => u.child[k][x] = t.child[k][x]
        BY <1>l, <4>1
      <4>3. u.child[k][x] = t.child[k][x]
        BY <3>1, <4>2
      <4>q. QED
        BY <2>3, <3>1, <4>3
    <3>3. G[u.child[k][n]] = H[t.child[k][x]]
      BY <1>8, <2>3, <3>1, <3>2
    <3>4. G[n] = H[w] /\ Weight(u, n) = 1 /\ H[w] = H[t.child[k][x]] + 1 + 0
      BY <1>6, <1>7, <1>8, <2>3
    <3>q. QED
      BY <2>0, <3>3, <3>4
  <2>4. CASE n # p /\ n # w /\ n # x
    <3>1. G[n] = H[n] /\ Weight(u, n) = Weight(t, n) /\ Gap(n, k, p, s) = 0
      BY <1>2, <1>5, <1>6, <1>8, <2>4
    <3>2. G[u.child[k][n]] = H[t.child[k][n]]
      <4>1. CASE t.child[k][n] = p
        BY <1>l, <1>8, <2>4, <4>1
      <4>2. CASE t.child[k][n] # p
        <5>1. u.child[k][n] = t.child[k][n] /\ t.child[k][n] # w /\ t.child[k][n] # x
          BY <1>l, <1>x, <2>4, <4>2
        <5>2. t.child[k][n] \in Links
          BY <1>2, <1>c
        <5>q. QED
          BY <1>8, <4>2, <5>1, <5>2
      <4>q. QED
        BY <4>1, <4>2
    <3>q. QED
      BY <1>4, <2>0, <3>1, <3>2
  <2>q. QED
    BY <2>1, <2>2, <2>3, <2>4
<1>q. QED
  BY <1>8, <1>9 DEF Heights, G

\* The rotation that closes the gap leaves no red node below a red one.
LEMMA FillReds ==
  ASSUME NEW t, NEW E, NEW sub, Shape(t, E, sub), NEW p \in E, NEW s \in Sides,
         NEW near, near = t.child[s][p],
         NEW o, o = Other(s), NEW w, w = t.child[o][p], w # Nil, t.color[w] = "black",
         NEW x, x = t.child[o][w], IsRed(t, x), NEW inner, inner = t.child[s][w],
         NEW u, TurnedOver(t, s, p, u),
         \A n \in Keys : u.color[n] = IF n = x \/ n = p THEN "black"
                                      ELSE IF n = w THEN t.color[p] ELSE t.color[n],
         Reds(t, E, {}), ~IsRed(t, near)
  PROVE  Reds(u, E, {})
<1>2. /\ E \subseteq Keys /\ E \subseteq Links /\ Nil \notin E /\ Nil \in Links
      /\ o \in Sides /\ o # s
      /\ w \in E /\ p # w /\ inner # p /\ inner # w /\ near # p
      /\ x \in E /\ x # w /\ x # p /\ t.parent[x] = w /\ t.parent[w] = p /\ t.parent[p] # x
      /\ inner # x /\ near # x /\ near # w /\ t.parent[p] # w
  BY FillLinks DEF IsRed
<1>s. \A k \in Sides : k = s \/ k = o
  BY FillLinks DEF IsRed
<1>c. \A n \in E, k \in Sides : t.child[k][n] \in E \cup {Nil} /\ t.child[k][n] # n
  BY FillLinks DEF IsRed
<1>1. \A n \in E : u.parent[n] = IF n = w THEN t.parent[p] ELSE IF n = p THEN w
                                 ELSE IF n = inner THEN p ELSE t.parent[n]
  BY TurnLinks
<1>10. ASSUME NEW n \in E, IsRed(u, n), IsRed(u, u.parent[n])
       PROVE  FALSE
  <2>1. n # p /\ n # x /\ u.parent[n] # p /\ u.parent[n] # x
    BY <1>2, <1>10 DEF IsRed
  <2>2. CASE n = w
    <3>1. IsRed(t, p) /\ u.parent[n] = t.parent[p]
      BY <1>1, <1>2, <1>10, <2>2 DEF IsRed
    <3>2. t.parent[p] # Nil => t.parent[p] \in E /\ t.parent[p] # w
      <4>1. t.child[o][p] # t.parent[p]
        BY <1>2, Family
      <4>q. QED
        BY <4>1, Family
    <3>3. IsRed(t, t.parent[p])
      BY <1>2, <1>10, <2>1, <3>1, <3>2 DEF IsRed
    <3>q. QED
      BY <3>1, <3>3 DEF Reds
  <2>3. CASE n # w
    <3>1. IsRed(t, n) /\ n # inner /\ u.parent[n] = t.parent[n]
      BY <1>1, <1>2, <1>10, <2>1, <2>3 DEF IsRed
    <3>2. t.parent[n] # w
      <4>1. t.parent[n] # Nil => \E k \in Sides : t.child[k][t.parent[n]] = n
        BY Family
      <4>2. t.child[s][w] # n /\ t.child[o][w] # n
        BY <2>1, <3>1
      <4>q. QED
        BY <1>s, <4>1, <4>2
    <3>3. t.parent[n] # Nil => t.parent[n] \in E
      BY Family
    <3>4. IsRed(t, t.parent[n])
      BY <1>2, <1>10, <2>1, <3>1, <3>2, <3>3 DEF IsRed
    <3>q. QED
      BY <3>1, <3>4 DEF Reds
  <2>q. QED
    BY <2>2, <2>3
<1>q. QED
  BY <1>10 DEF Reds
=============================================================================
