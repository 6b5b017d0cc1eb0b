-------------------------- MODULE RedBlackTreeProofs --------------------------
(***************************************************************************)
(* Theorems about RedBlackTree, for any set of keys: the tree is a search  *)
(* tree that keeps the rules of red-black trees, no null pointer is        *)
(* followed, and every call gives the answer of OrderedSet: the            *)
(* rebalancing changes nothing that a caller can see.                      *)
(***************************************************************************)
EXTENDS RedBlackTreeLemmas


-----------------------------------------------------------------------------
(* The invariant *)

\* Between the calls: no red root, no two reds, the same height everywhere.
Resting(t, j, E, H) ==
  /\ j = Idle
  /\ Heights(t, E, H, Nil, "L") /\ Reds(t, E, {}) /\ ~IsRed(t, t.root)

\* RB_INSERT_COLOR is at a red node, which may have a red parent.
Inserting(t, j, E, H) ==
  /\ j.at = "insert" /\ j.elm \in E /\ IsRed(t, j.elm)
  /\ Heights(t, E, H, Nil, "L") /\ Reds(t, E, {j.elm})
  /\ IsRed(t, t.root) => j.elm = t.root

\* RB_REMOVE_COLOR is at a place that is short of one black node, or at the root; it may be
\* red, with a red parent or red children.
Removing(t, j, E, H) ==
  /\ j.at = "remove"
  /\ \/ j.parent = Nil /\ j.elm = t.root /\ Heights(t, E, H, Nil, "L")
     \/ /\ j.parent \in E
        /\ \E s \in Sides : t.child[s][j.parent] = j.elm /\ Heights(t, E, H, j.parent, s)
  /\ Reds(t, E, {n \in E : n = j.elm \/ t.parent[n] = j.elm})
  /\ IsRed(t, t.root) => j.elm = t.root

Jobs == [at : {"idle", "insert", "remove"}, elm : Links, parent : Links]

Balanced(t, j, E) ==
  /\ j \in Jobs
  /\ \E sub : Shape(t, E, sub)
  /\ \E H : Resting(t, j, E, H) \/ Inserting(t, j, E, H) \/ Removing(t, j, E, H)

IInv == Balanced(tree, job, Elements)

\* The keys of a tree are those with a parent, and the root.
LEMMA ElementsAre ==
  ASSUME NEW E, NEW sub, Shape(tree, E, sub)
  PROVE  Elements = E
<1>1. E \subseteq Keys /\ Nil \notin E /\ tree.root \in E \cup {Nil} /\ Nil \notin Keys
  BY NilFacts DEF Shape, Bounds
<1>2. \A n \in Keys \ E : tree.parent[n] = Nil
  BY DEF Shape, Bounds
<1>3. \A n \in E : n # tree.root => tree.parent[n] # Nil
  BY <1>1 DEF Shape, Linked
<1>q. QED
  BY <1>1, <1>2, <1>3 DEF Elements

\* So a step is shown to keep the invariant with the keys it leaves in the tree.
LEMMA BalancedNext ==
  ASSUME NEW E, Balanced(tree', job', E)
  PROVE  IInv' /\ Elements' = E
<1>1. PICK sub : Shape(tree', E, sub)
  BY DEF Balanced
<1>2. E \subseteq Keys /\ Nil \notin E /\ tree'.root \in E \cup {Nil} /\ Nil \notin Keys
  BY <1>1, NilFacts DEF Shape, Bounds
<1>3. \A n \in Keys \ E : tree'.parent[n] = Nil
  BY <1>1 DEF Shape, Bounds
<1>4. \A n \in E : n # tree'.root => tree'.parent[n] # Nil
  BY <1>1, <1>2 DEF Shape, Linked
<1>5. Elements' = E
  BY <1>2, <1>3, <1>4 DEF Elements
<1>q. QED
  BY <1>5 DEF IInv

\* The invariant holds initially.
LEMMA InvInit == Init => IInv
<1> SUFFICES ASSUME Init
             PROVE  IInv
  OBVIOUS
<1> DEFINE sub == [n \in Links |-> {}]
           H == [n \in Links |-> 0]
<1>1. /\ tree.root = Nil /\ tree.child = [d \in Sides |-> [n \in Keys |-> Nil]]
      /\ tree.parent = [n \in Keys |-> Nil] /\ tree.color = [n \in Keys |-> "red"]
      /\ tree \in Tree /\ job = Idle
  BY NilFacts DEF Init, Tree
<1>2. Elements = {}
  BY <1>1, NilFacts DEF Elements
<1>3. Bounds(tree, {})
  BY <1>1, NilFacts, FS_EmptySet DEF Bounds
<1>4. Shape(tree, {}, sub)
  BY <1>1, <1>3, NilFacts DEF Shape
<1>5. Heights(tree, {}, H, Nil, "L")
  BY NilFacts DEF Heights
<1>6. Resting(tree, job, {}, H)
  BY <1>1, <1>5 DEF Resting, Reds, IsRed
<1>7. job \in Jobs
  BY <1>1, NilFacts DEF Jobs, Idle
<1>q. QED
  BY <1>2, <1>4, <1>6, <1>7 DEF IInv, Balanced

\* RB_INSERT keeps the invariant: a new leaf is red.
LEMMA StepInsert ==
  ASSUME IInv, NEW e \in Keys, Insert(e)
  PROVE  Balanced(tree', job', Elements \cup {e})
<1>1. PICK sub, H : /\ Shape(tree, Elements, sub)
                    /\ \/ Resting(tree, job, Elements, H) \/ Inserting(tree, job, Elements, H)
                       \/ Removing(tree, job, Elements, H)
  BY DEF IInv, Balanced
<1> DEFINE p == Place(tree, e)
           E == Elements
           E2 == E \cup {e}
<1>2. /\ e \in E => p = e
      /\ E = {} => p = Nil
      /\ E # {} /\ e \notin E =>
           p \in E /\ tree.child[Side(e, p)][p] = Nil /\ OnTheWay(tree, E, sub, e, p)
  BY <1>1, PlaceOf
<1> HIDE DEF p
<1>3. CASE p = e
  <2>1. UNCHANGED <<tree, job>>
    BY <1>3 DEF Insert, p
  <2>2. E2 = E
    BY <1>2, <1>3, NilFacts
  <2>q. QED
    BY <2>1, <2>2 DEF IInv
<1>4. CASE p # e
  <2>1. /\ tree' = Attach(tree, e, p)
        /\ job' = [at |-> "insert", elm |-> e, parent |-> Nil] /\ job = Idle
    BY <1>4 DEF Insert, p
  <2>2. Resting(tree, job, E, H)
    BY <1>1, <2>1 DEF Inserting, Removing, Idle
  <2>3. /\ e \notin E /\ tree \in Tree /\ E \subseteq Keys /\ p \in Links
        /\ \/ E = {} /\ p = Nil
           \/ p \in E /\ tree.child[Side(e, p)][p] = Nil /\ OnTheWay(tree, E, sub, e, p)
    BY <1>1, <1>2, <1>4, NilFacts DEF Shape, Bounds
  <2>4. Attached(tree, e, p, tree')
    BY <1>4, <2>1, <2>3, AttachIs
  <2>5. \E sub2 : Shape(tree', E2, sub2)
    BY <1>1, <2>3, <2>4, AttachShape
  <2>6. Heights(tree', E2, [H EXCEPT ![e] = 0], Nil, "L") /\ Reds(tree', E2, {e})
    BY <1>1, <2>2, <2>3, <2>4, AttachColors DEF Resting
  <2>7. IsRed(tree', e) /\ (IsRed(tree', tree'.root) => e = tree'.root)
    <3>1. e # Nil /\ (p = Nil => tree'.root = e) /\ (p # Nil => tree'.root = tree.root)
      BY <2>4, NilFacts DEF Attached
    <3>2. p # Nil => tree.root \in Keys
      BY <1>1, <2>3 DEF Shape, Bounds
    <3>q. QED
      BY <2>2, <2>4, <3>1, <3>2 DEF Attached, IsRed, Resting
  <2>8. Inserting(tree', job', E2, [H EXCEPT ![e] = 0])
    BY <2>1, <2>6, <2>7 DEF Inserting
  <2>9. job' \in Jobs
    BY <2>1, NilFacts DEF Jobs
  <2>10. Balanced(tree', job', E2)
    BY <2>5, <2>8, <2>9 DEF Balanced
  <2>q. QED
    BY <2>10 DEF E
<1>q. QED
  BY <1>3, <1>4

\* Above e is a red p, and above it g, with p to side s.
RedAbove(t, e, p, g, s) ==
  /\ p = t.parent[e] /\ IsRed(t, p) /\ g = t.parent[p]
  /\ s = IF p = t.child["L"][g] THEN "L" ELSE "R"

BlackAboveRed(t, E, e, p, g, s) ==
  /\ e \in E /\ p \in E /\ g \in E /\ p # e /\ g # p /\ g # e
  /\ t.color[g] = "black" /\ t.color[p] = "red" /\ t.color[e] = "red"
  /\ s \in Sides /\ t.child[s][g] = p /\ t.child[Other(s)][g] # p
  /\ \E k \in Sides : t.child[k][p] = e
  /\ ~IsRed(t, t.root)

\* Above a red node with a red parent there is a black grandparent.
LEMMA TwoRedsLinks ==
  ASSUME NEW t, NEW E, NEW sub, Shape(t, E, sub), NEW j, NEW H, Inserting(t, j, E, H),
         NEW p, NEW g, NEW s, RedAbove(t, j.elm, p, g, s)
  PROVE  BlackAboveRed(t, E, j.elm, p, g, s)
<1> DEFINE e == j.elm
<1>1. e \in E /\ IsRed(t, e) /\ Reds(t, E, {e}) /\ (IsRed(t, t.root) => e = t.root) /\ p # Nil
  BY DEF Inserting, IsRed, RedAbove
<1>2. /\ p = t.parent[e] /\ IsRed(t, p) /\ g = t.parent[p]
      /\ s = IF p = t.child["L"][g] THEN "L" ELSE "R"
  BY DEF RedAbove
<1> HIDE DEF e
<1>3. p \in E /\ p # e /\ e # t.root /\ E \subseteq Keys /\ Nil \notin E
  BY <1>1, <1>2, Family, NilFacts
<1>4. ~IsRed(t, t.root) /\ p # t.root
  BY <1>1, <1>2, <1>3
<1>5. g \in E /\ g # p
  BY <1>2, <1>3, <1>4, Family
<1>6. ~IsRed(t, g)
  BY <1>1, <1>2, <1>3 DEF Reds
<1>7. t.color[g] = "black" /\ t.color[p] = "red" /\ t.color[e] = "red" /\ g # e
  <2>1. t.color[g] \in {"red", "black"}
    BY <1>3, <1>5, Family DEF Tree
  <2>q. QED
    BY <1>1, <1>2, <1>3, <1>5, <1>6, <2>1 DEF IsRed
<1>8. \E k \in Sides : t.child[k][p] = e
  BY <1>1, <1>2, <1>3, Family
<1>9. s \in Sides /\ t.child[s][g] = p /\ t.child[Other(s)][g] # p
  <2>1. \E k \in Sides : t.child[k][g] = p /\ t.child[Other(k)][g] # p
    BY <1>2, <1>3, <1>5, Family
  <2>q. QED
    BY <1>2, <2>1 DEF Sides, Other
<1>q. QED
  BY <1>1, <1>3, <1>4, <1>5, <1>7, <1>8, <1>9 DEF e, BlackAboveRed

\* An iteration of RB_INSERT_COLOR with a red uncle keeps the invariant.
LEMMA StepInsertRecolor ==
  ASSUME IInv, InsertRecolor
  PROVE  Balanced(tree', job', Elements)
<1> DEFINE E == Elements
           e == job.elm
           p == Parent
           g == Grandparent
           s == ParentSide
           x == Uncle
<1>1. PICK sub, H : /\ Shape(tree, Elements, sub)
                    /\ \/ Resting(tree, job, Elements, H) \/ Inserting(tree, job, Elements, H)
                       \/ Removing(tree, job, Elements, H)
  BY DEF IInv, Balanced
<1>2. Inserting(tree, job, E, H) /\ IsRed(tree, p) /\ IsRed(tree, x)
  BY <1>1 DEF InsertRecolor, TwoReds, Resting, Removing, Idle, Parent
<1>4. /\ x = tree.child[Other(s)][g] /\ p = tree.parent[e] /\ g = tree.parent[p]
      /\ s = IF p = tree.child["L"][g] THEN "L" ELSE "R"
  BY DEF Uncle, Parent, Grandparent, ParentSide
<1>3. /\ e \in E /\ p \in E /\ g \in E /\ p # e /\ g # p /\ g # e
      /\ tree.color[g] = "black" /\ tree.color[p] = "red" /\ tree.color[e] = "red"
      /\ s \in Sides /\ tree.child[s][g] = p /\ tree.child[Other(s)][g] # p
      /\ ~IsRed(tree, tree.root)
  <2>1. RedAbove(tree, job.elm, p, g, s)
    BY <1>2, <1>4 DEF RedAbove
  <2>2. Shape(tree, E, sub)
    BY <1>1
  <2> HIDE DEF E, p, g, s, x
  <2>3. BlackAboveRed(tree, E, job.elm, p, g, s)
    BY <1>2, <2>1, <2>2, TwoRedsLinks
  <2>q. QED
    BY <2>3 DEF BlackAboveRed
<1>5. /\ tree' = SetBlackRed(Paint(tree, x, "black"), p, g)
      /\ job' = [job EXCEPT !.elm = g]
  BY DEF InsertRecolor
<1> HIDE DEF E, e, p, g, s, x
<1>6. tree \in Tree /\ E \subseteq Links /\ E \subseteq Keys /\ Other(s) \in Sides /\ x \in E /\ x # p
  <2>1. tree \in Tree /\ E \subseteq Keys /\ E \subseteq Links
    BY <1>1, NilFacts DEF Shape, Bounds, E
  <2>2. Other(s) \in Sides
    BY <1>3, SideFacts
  <2>3. x \in E
    BY <1>1, <1>2, <1>3, <1>4, <2>2, Family DEF IsRed, E
  <2>q. QED
    BY <1>3, <1>4, <2>1, <2>2, <2>3
<1>7. Painted(tree, x, "black", Paint(tree, x, "black"))
  BY <1>6, PaintIs
<1>8. Paint(tree, x, "black") \in Tree /\ p \in Links /\ g \in Links
  BY <1>3, <1>6, <1>7 DEF Painted
<1>9. /\ Recolored(Paint(tree, x, "black"), tree')
      /\ \A n \in Keys : tree'.color[n] = IF n = g THEN "red" ELSE IF n = p THEN "black"
                                          ELSE Paint(tree, x, "black").color[n]
  BY <1>5, <1>8, SetBlackRedIs
<1>10. /\ Recolored(tree, tree')
       /\ \A n \in Keys : tree'.color[n] = IF n = g THEN "red" ELSE IF n = p \/ n = x THEN "black"
                                           ELSE tree.color[n]
  BY <1>7, <1>9 DEF Painted, Recolored
<1>11. Shape(tree', E, sub)
  BY <1>1, <1>10, RecolorShape DEF E
<1> DEFINE a == tree.child["L"][g]
           b == tree.child["R"][g]
<1>12. (a = p /\ b = x) \/ (a = x /\ b = p)
  BY <1>3, <1>4 DEF Sides, Other
<1>13. Heights(tree, E, H, Nil, "L") /\ Reds(tree, E, {e}) /\ IsRed(tree, p)
  BY <1>2 DEF Inserting, e
<1>14. \E G : Heights(tree', E, G, Nil, "L") /\ Reds(tree', E, {g})
  <2>1. IsRed(tree, a) /\ IsRed(tree, b) /\ tree.parent[e] \in {a, b}
    BY <1>2, <1>4, <1>12, <1>13
  <2>2. \A n \in Keys : tree'.color[n] = IF n = g THEN "red" ELSE IF n = a \/ n = b THEN "black"
                                         ELSE tree.color[n]
    BY <1>10, <1>12
  <2>3. Shape(tree, E, sub)
    BY <1>1 DEF E
  <2> HIDE DEF a, b
  <2>4. a = tree.child["L"][g] /\ b = tree.child["R"][g]
    BY DEF a, b
  <2>6. Flipped(tree, g, a, b, tree')
    BY <1>10, <2>2 DEF Flipped
  <2>q. QED
    BY <1>3, <1>13, <2>1, <2>6, <2>3, <2>4, RecolorColors
<1>15. IsRed(tree', g) /\ ~(IsRed(tree', tree'.root) /\ g # tree'.root)
  <2>1. g # Nil /\ tree'.root = tree.root /\ (tree.root # Nil => tree.root \in Keys)
    BY <1>1, <1>3, <1>6, <1>10, NilFacts DEF Recolored, Shape, Bounds, E
  <2>q. QED
    BY <1>3, <1>6, <1>10, <2>1 DEF IsRed
<1>16. job' \in Jobs /\ job'.at = "insert" /\ job'.elm = g
  <2>1. job \in Jobs /\ job.at = "insert"
    BY DEF IInv, Balanced, InsertRecolor
  <2>q. QED
    BY <1>5, <1>8, <2>1 DEF Jobs
<1>17. \E G : Inserting(tree', job', E, G)
  BY <1>3, <1>14, <1>15, <1>16 DEF Inserting
<1>18. Balanced(tree', job', E)
  BY <1>11, <1>16, <1>17 DEF Balanced
<1>q. QED
  BY <1>18 DEF E

\* Two red nodes in line below a black one, which has no red child on the other side.
InLine(t, E, low, top, g, s) ==
  /\ low \in E /\ top \in E /\ g \in E /\ s \in Sides
  /\ t.child[s][g] = top /\ t.child[s][top] = low
  /\ t.color[g] = "black" /\ t.color[top] = "red" /\ t.color[low] = "red"
  /\ ~IsRed(t, t.child[Other(s)][g]) /\ ~IsRed(t, t.root)
  /\ Reds(t, E, {low})

\* What the rotation about g leaves.
LinedUp(t, E, low, H) ==
  /\ t \in Tree /\ IsRed(t, low) /\ ~IsRed(t, t.root)
  /\ Heights(t, E, H, Nil, "L") /\ Reds(t, E, {low})

\* A rotation and the colors it exchanges.
TurnedBlack(t, d, g, top, u) ==
  /\ TurnedOver(t, d, g, u)
  /\ \A n \in Keys :
       u.color[n] = IF n = top THEN "black" ELSE IF n = g THEN "red" ELSE t.color[n]

\* What a rotation of RB_INSERT_COLOR changes, with the colors set before it.
LEMMA TurnedIs ==
  ASSUME NEW t, NEW E, NEW sub, Shape(t, E, sub), NEW d \in Sides, NEW g \in E,
         NEW top, top = t.child[Other(d)][g], top \in E, t.color[g] = "black",
         NEW u, u = Rotate(SetBlackRed(t, top, g), d, g)
  PROVE  TurnedBlack(t, d, g, top, u)
<1> DEFINE v == SetBlackRed(t, top, g)
<1>1. t \in Tree /\ top \in Links /\ g \in Links /\ top # g /\ top # Nil
  BY Family, NilFacts, SideFacts
<1>2. v = SetBlackRed(t, top, g) /\ u = Rotate(v, d, g)
  OBVIOUS
<1> HIDE DEF v
<1>3. Recolored(t, v) /\ \A n \in Keys : v.color[n] = IF n = g THEN "red" ELSE IF n = top THEN "black"
                                                      ELSE t.color[n]
  BY <1>1, <1>2, SetBlackRedIs
<1>4. Shape(v, E, sub)
  BY <1>3, RecolorShape
<1>5. v.child[Other(d)][g] # Nil
  BY <1>1, <1>3 DEF Recolored
<1>6. Rotated(v, d, g, u)
  BY <1>2, <1>4, <1>5, RotateIs
<1>7. u.color = v.color
  BY <1>6 DEF Rotated
<1>8. TurnedOver(t, d, g, u)
  BY <1>3, <1>6 DEF TurnedOver
<1>q. QED
  BY <1>1, <1>3, <1>7, <1>8 DEF TurnedBlack

\* The rotation about the grandparent leaves two red children below a black node.
LEMMA LineUp ==
  ASSUME NEW t, NEW E, NEW sub, Shape(t, E, sub), NEW low, NEW top, NEW g, NEW s,
         InLine(t, E, low, top, g, s),
         NEW H, Heights(t, E, H, Nil, "L"),
         NEW u, u = Rotate(SetBlackRed(t, top, g), Other(s), g)
  PROVE  (\E G : LinedUp(u, E, low, G)) /\ (\E sub2 : Shape(u, E, sub2))
<1> DEFINE d == Other(s)
<1>1. /\ low \in E /\ top \in E /\ g \in E /\ s \in Sides
      /\ t.child[s][g] = top /\ t.child[s][top] = low
      /\ t.color[g] = "black" /\ t.color[top] = "red" /\ t.color[low] = "red"
      /\ ~IsRed(t, t.child[Other(s)][g]) /\ ~IsRed(t, t.root)
      /\ Reds(t, E, {low})
  BY DEF InLine
<1>2. d \in Sides /\ Other(d) = s /\ s # d /\ d = Other(s)
  BY <1>1, SideFacts
<1> HIDE DEF d
<1>3. top = t.child[Other(d)][g] /\ u = Rotate(SetBlackRed(t, top, g), d, g)
  BY <1>1, <1>2
<1>4. /\ TurnedOver(t, d, g, u)
      /\ \A n \in Keys :
           u.color[n] = IF n = top THEN "black" ELSE IF n = g THEN "red" ELSE t.color[n]
  <2>1. TurnedBlack(t, d, g, top, u)
    BY <1>1, <1>2, <1>3, TurnedIs
  <2>q. QED
    BY <2>1 DEF TurnedBlack
<1>5. TurnedRed(t, d, g, u)
  BY <1>1, <1>2, <1>4 DEF TurnedRed
<1>6. /\ E \subseteq Keys /\ Nil \notin E /\ top # g /\ low # top /\ low # g
      /\ t.parent[top] = g /\ t.parent[low] = top
      /\ \A n \in E : t.parent[n] = Nil => n = t.root
  BY <1>1, NilFacts, Family
<1>7. /\ u \in Tree
      /\ u.root = IF t.parent[g] = Nil THEN top ELSE t.root
  <2>1. top # Nil /\ s = Other(d) /\ top = t.child[s][g]
    BY <1>1, <1>2, <1>6
  <2>q. QED
    BY <1>1, <1>2, <1>4, <2>1, TurnLinks
<1>8. ~IsRed(t, t.child[d][top])
  <2>1. t.child[d][top] # Nil =>
          t.child[d][top] \in E /\ t.parent[t.child[d][top]] = top /\ t.child[d][top] # low
    BY <1>1, <1>2, Family
  <2>2. IsRed(t, top)
    BY <1>1, <1>6 DEF IsRed
  <2>q. QED
    BY <1>1, <2>1, <2>2 DEF Reds, IsRed
<1>9. Reds(u, E, {low})
  <2>1. ~IsRed(t, g) /\ ~IsRed(t, t.child[d][g]) /\ top # Nil /\ g \notin {low}
    BY <1>1, <1>2, <1>6 DEF IsRed
  <2>2. RedsTurned(t, u, E, g, top, {low})
    BY <1>1, <1>2, <1>3, <1>5, <1>8, <2>1, TurnReds
  <2>q. QED
    BY <2>1, <2>2 DEF Reds, RedsTurned
<1>10. \E G : Heights(u, E, G, Nil, "L")
  <2>1. top # Nil /\ Nil # top /\ Nil # g
    BY <1>1, <1>6
  <2>2. Heights(u, E, [H EXCEPT ![top] = H[g], ![g] = H[top]], Nil, "L")
    BY <1>1, <1>2, <1>3, <1>5, <2>1, TurnHeights
  <2>q. QED
    BY <2>2
<1>11. IsRed(u, low) /\ ~IsRed(u, u.root)
  <2>1. IsRed(u, low)
    BY <1>1, <1>4, <1>6 DEF IsRed
  <2>2. CASE t.parent[g] = Nil
    BY <1>1, <1>4, <1>6, <1>7, <2>2 DEF IsRed
  <2>3. CASE t.parent[g] # Nil
    <3>1. t.root # g /\ t.root # Nil /\ t.root \in E
      BY <1>1, <2>3, Family DEF Shape, Bounds
    <3>q. QED
      BY <1>1, <1>4, <1>6, <1>7, <2>1, <2>3, <3>1 DEF IsRed
  <2>q. QED
    BY <2>1, <2>2, <2>3
<1>12. \E sub2 : Shape(u, E, sub2)
  <2>1. PICK v : Recolored(t, v) /\ Rotated(v, d, g, u)
    BY <1>4 DEF TurnedOver
  <2>2. Shape(v, E, sub) /\ v.child[Other(d)][g] # Nil
    BY <1>1, <1>2, <1>6, <2>1, RecolorShape DEF Recolored
  <2>q. QED
    BY <1>1, <1>2, <2>1, <2>2, RotateShape
<1>q. QED
  BY <1>7, <1>9, <1>10, <1>11, <1>12 DEF LinedUp

\* An inner grandchild is first turned to the outside.
LEMMA InnerTurn ==
  ASSUME NEW t, NEW E, NEW sub, Shape(t, E, sub), NEW e, NEW p, NEW g, NEW s,
         BlackAboveRed(t, E, e, p, g, s), Reds(t, E, {e}), ~IsRed(t, t.child[Other(s)][g]),
         t.child[Other(s)][p] = e,
         NEW H, Heights(t, E, H, Nil, "L"),
         NEW u, u = Rotate(t, s, p)
  PROVE  /\ InLine(u, E, p, e, g, s)
         /\ \E G : Heights(u, E, G, Nil, "L")
         /\ \E sub2 : Shape(u, E, sub2)
<1>1. /\ e \in E /\ p \in E /\ g \in E /\ p # e /\ g # p /\ g # e
      /\ t.color[g] = "black" /\ t.color[p] = "red" /\ t.color[e] = "red"
      /\ s \in Sides /\ t.child[s][g] = p /\ t.child[Other(s)][g] # p
      /\ ~IsRed(t, t.root)
  BY DEF BlackAboveRed
<1>2. /\ E \subseteq Keys /\ Nil \notin E /\ e # Nil /\ t.parent[p] = g /\ t \in Tree
      /\ Other(s) \in Sides /\ Other(s) # s
  BY <1>1, NilFacts, SideFacts, Family
<1>3. Rotated(t, s, p, u)
  BY <1>1, <1>2, RotateIs
<1>4. u.color = t.color
  BY <1>3 DEF Rotated
<1>5. TurnedOver(t, s, p, u)
  <2>1. Recolored(t, t)
    BY <1>2 DEF Recolored
  <2>q. QED
    BY <1>3, <2>1 DEF TurnedOver
<1>6. TurnedRed(t, s, p, u)
  BY <1>1, <1>4, <1>5 DEF TurnedRed
<1>7. t.child[s][p] # e /\ t.child[s][p] # Nil => t.child[s][p] \in E /\ t.parent[t.child[s][p]] = p
  BY <1>1, Family
<1>8. ~IsRed(t, t.child[s][p]) /\ ~IsRed(t, t.child[s][e])
  <2>1. IsRed(t, p) /\ IsRed(t, e)
    BY <1>1, <1>2 DEF IsRed
  <2>2. t.child[s][p] # e
    BY <1>1, <1>2, Family
  <2>3. t.child[s][e] # Nil => t.child[s][e] \in E /\ t.parent[t.child[s][e]] = e /\ t.child[s][e] # e
    BY <1>1, Family
  <2>q. QED
    BY <1>7, <2>1, <2>2, <2>3 DEF Reds, IsRed
<1>9. Reds(u, E, {p})
  <2>1. RedsTurned(t, u, E, p, e, {e})
    BY <1>1, <1>2, <1>6, <1>8, TurnReds
  <2>q. QED
    BY <1>1, <2>1 DEF Reds, RedsTurned
<1>10. \E G : Heights(u, E, G, Nil, "L")
  <2>1. Nil # e /\ Nil # p
    BY <1>1, <1>2
  <2>2. Heights(u, E, [H EXCEPT ![e] = H[p], ![p] = H[e]], Nil, "L")
    BY <1>1, <1>2, <1>6, <2>1, TurnHeights
  <2>q. QED
    BY <2>2
<1>11. \E sub2 : Shape(u, E, sub2)
  BY <1>1, <1>2, <1>3, RotateShape
<1>12. /\ u.child[s][e] = p /\ u.child[s][g] = e
       /\ u.child[Other(s)][g] = t.child[Other(s)][g] /\ u.root = t.root
  <2>1. e = t.child[Other(s)][p] /\ t.child[Other(s)][g] # e
    BY <1>1, <1>2, Family
  <2>2. /\ u.child[s][e] = p
        /\ \A n \in E, k \in Sides : n # p /\ n # e =>
              /\ t.child[k][n] # e /\ t.child[k][n] # p => u.child[k][n] = t.child[k][n]
              /\ t.child[k][n] = p => u.child[k][n] = e
        /\ u.root = IF t.parent[p] = Nil THEN e ELSE t.root
    BY <1>1, <1>2, <1>5, <2>1, TurnLinks
  <2>q. QED
    BY <1>1, <1>2, <2>1, <2>2
<1>13. InLine(u, E, p, e, g, s)
  BY <1>1, <1>4, <1>9, <1>12 DEF InLine, IsRed
<1>q. QED
  BY <1>10, <1>11, <1>13

\* An iteration of RB_INSERT_COLOR with a black uncle keeps the invariant.
LEMMA StepInsertRotate ==
  ASSUME IInv, InsertRotate
  PROVE  Balanced(tree', job', Elements)
<1> DEFINE E == Elements
           e == job.elm
           p == Parent
           g == Grandparent
           s == ParentSide
           inner == tree.child[Other(s)][p] = e
           t1 == IF inner THEN Rotate(tree, s, p) ELSE tree
           top == IF inner THEN e ELSE p
           low == IF inner THEN p ELSE e
<1>1. PICK sub, H : /\ Shape(tree, Elements, sub)
                    /\ \/ Resting(tree, job, Elements, H) \/ Inserting(tree, job, Elements, H)
                       \/ Removing(tree, job, Elements, H)
  BY DEF IInv, Balanced
<1>2. Inserting(tree, job, E, H) /\ IsRed(tree, p) /\ ~IsRed(tree, tree.child[Other(s)][g])
  BY <1>1 DEF InsertRotate, TwoReds, Resting, Removing, Idle, Parent, Uncle
<1>3. RedAbove(tree, e, p, g, s)
  BY <1>2 DEF RedAbove, Parent, Grandparent, ParentSide
<1>4. /\ tree' = Rotate(SetBlackRed(t1, top, g), Other(s), g)
      /\ job' = [job EXCEPT !.elm = low]
  BY DEF InsertRotate
<1>5. Shape(tree, E, sub) /\ e = job.elm
  BY <1>1
<1> HIDE DEF E, p, g, s, t1
<1>6. BlackAboveRed(tree, E, e, p, g, s)
  BY <1>2, <1>3, <1>5, TwoRedsLinks
<1> HIDE DEF e
<1>7. Reds(tree, E, {e}) /\ Heights(tree, E, H, Nil, "L")
  BY <1>2, <1>5 DEF Inserting
<1>8. /\ InLine(t1, E, low, top, g, s)
      /\ \E G : Heights(t1, E, G, Nil, "L")
      /\ \E sub2 : Shape(t1, E, sub2)
  <2>1. CASE inner
    <3>1. t1 = Rotate(tree, s, p) /\ tree.child[Other(s)][p] = e
      BY <2>1 DEF t1
    <3>2. /\ InLine(t1, E, p, e, g, s)
          /\ \E G : Heights(t1, E, G, Nil, "L")
          /\ \E sub2 : Shape(t1, E, sub2)
      BY <1>2, <1>5, <1>6, <1>7, <3>1, InnerTurn
    <3>q. QED
      BY <2>1, <3>2
  <2>2. CASE ~inner
    <3>1. t1 = tree
      BY <2>2 DEF t1
    <3>2. tree.child[s][p] = e
      BY <1>6, <2>2, SideFacts DEF BlackAboveRed
    <3>3. InLine(tree, E, e, p, g, s)
      BY <1>2, <1>6, <1>7, <3>2 DEF InLine, BlackAboveRed
    <3>q. QED
      BY <1>5, <1>7, <2>2, <3>1, <3>3
  <2>q. QED
    BY <2>1, <2>2
<1>9. low \in E /\ E \subseteq Keys
  BY <1>5, <1>6 DEF BlackAboveRed, Shape, Bounds
<1> HIDE DEF inner, top, low
<1>10. PICK G, sub2 : Heights(t1, E, G, Nil, "L") /\ Shape(t1, E, sub2)
  BY <1>8
<1>11. (\E H2 : LinedUp(tree', E, low, H2)) /\ (\E sub3 : Shape(tree', E, sub3))
  BY <1>4, <1>8, <1>10, LineUp
<1>12. job' \in Jobs /\ job'.at = "insert" /\ job'.elm = low
  <2>1. job \in Jobs /\ job.at = "insert" /\ low \in Links
    BY <1>9, NilFacts DEF IInv, Balanced, InsertRotate
  <2>q. QED
    BY <1>4, <2>1 DEF Jobs
<1>13. \E H2 : Inserting(tree', job', E, H2)
  BY <1>9, <1>11, <1>12 DEF Inserting, LinedUp
<1>14. Balanced(tree', job', E)
  BY <1>11, <1>12, <1>13 DEF Balanced
<1>q. QED
  BY <1>14 DEF E

\* In the end the root, or the red node at a place that is short, is black.
AtRest(t, E, H) ==
  Heights(t, E, H, Nil, "L") /\ Reds(t, E, {}) /\ ~IsRed(t, t.root)

\* Painting the root, or the red node at the place that is short, ends a rebalancing.
LEMMA Rests ==
  ASSUME NEW t, NEW E, NEW sub, Shape(t, E, sub), NEW e \in E,
         NEW p, NEW s, \/ p = Nil /\ e = t.root
                       \/ p \in E /\ s \in Sides /\ t.child[s][p] = e /\ t.color[e] = "red",
         NEW H, Heights(t, E, H, p, s),
         Reds(t, E, {n \in E : n = e \/ t.parent[n] = e}),
         IsRed(t, t.root) => e = t.root,
         NEW u, Painted(t, e, "black", u)
  PROVE  Shape(u, E, sub) /\ \E G : AtRest(u, E, G)
<1>1. E \subseteq Keys /\ Nil \notin E /\ Nil \notin Keys /\ e # Nil
  BY NilFacts, Family
<1>2. Recolored(t, u)
  BY DEF Painted, Recolored
<1>3. Shape(u, E, sub)
  BY <1>2, RecolorShape
<1>4. Reds(u, E, {})
  <2>1. \A n \in Keys : IsRed(u, n) => IsRed(t, n) /\ n # e
    BY DEF Painted, IsRed
  <2>2. \A n \in E : u.parent[n] = t.parent[n] /\ (t.parent[n] = Nil \/ t.parent[n] \in Keys)
    BY <1>2, Family DEF Recolored
  <2>q. QED
    BY <1>1, <2>1, <2>2 DEF Reds, IsRed
<1>5. \E G : Heights(u, E, G, Nil, "L")
  <2>1. CASE t.color[e] = "red"
    <3>1. Heights(u, E, [H EXCEPT ![e] = H[e] + 1], Nil, "L")
      BY <2>1, BlackenColors
    <3>q. QED
      BY <3>1
  <2>2. CASE t.color[e] # "red"
    <3>1. t.color[e] = "black" /\ p = Nil
      BY <2>2, Family DEF Tree
    <3>2. \A n \in E : u.color[n] = t.color[n]
      BY <1>1, <3>1 DEF Painted
    <3>3. u.child = t.child
      BY <1>2 DEF Recolored
    <3>4. \A n \in E : Weight(u, n) = Weight(t, n)
      BY <3>2 DEF Weight
    <3>5. Heights(u, E, H, Nil, "L")
      BY <1>1, <3>1, <3>3, <3>4 DEF Heights, Gap
    <3>q. QED
      BY <3>5
  <2>q. QED
    BY <2>1, <2>2
<1>6. ~IsRed(u, u.root)
  <2>1. t.root \in E
    BY <1>1 DEF Shape, Bounds
  <2>q. QED
    BY <1>1, <2>1 DEF Painted, IsRed
<1>q. QED
  BY <1>3, <1>4, <1>5, <1>6 DEF AtRest

\* The end of RB_INSERT_COLOR keeps the invariant.
LEMMA StepInsertEnd ==
  ASSUME IInv, InsertEnd
  PROVE  Balanced(tree', job', Elements)
<1> DEFINE E == Elements
           e == job.elm
           r == tree.root
<1>1. PICK sub, H : /\ Shape(tree, Elements, sub)
                    /\ \/ Resting(tree, job, Elements, H) \/ Inserting(tree, job, Elements, H)
                       \/ Removing(tree, job, Elements, H)
  BY DEF IInv, Balanced
<1>2. Inserting(tree, job, E, H) /\ ~IsRed(tree, tree.parent[e])
  BY <1>1 DEF InsertEnd, TwoReds, Resting, Removing, Idle
<1>3. tree' = Paint(tree, r, "black") /\ job' = Idle
  BY DEF InsertEnd
<1>4. Shape(tree, E, sub) /\ e \in E /\ r \in E /\ r \in Keys /\ r # Nil
  BY <1>1, <1>2, NilFacts DEF Inserting, Shape, Bounds
<1> HIDE DEF E, r
<1>5. Painted(tree, r, "black", tree')
  BY <1>1, <1>3, <1>4, PaintIs, NilFacts DEF Shape, Bounds
<1>6. Reds(tree, E, {n \in E : n = r \/ tree.parent[n] = r})
  BY <1>2 DEF Inserting, Reds
<1>7. Heights(tree, E, H, Nil, "L") /\ r = tree.root
  BY <1>2 DEF Inserting, r
<1>8. Shape(tree', E, sub) /\ \E G : AtRest(tree', E, G)
  BY <1>4, <1>5, <1>6, <1>7, Rests
<1>9. Balanced(tree', job', E)
  <2>1. \E G : Resting(tree', job', E, G)
    BY <1>3, <1>8 DEF Resting, AtRest
  <2>2. job' \in Jobs
    BY <1>3, NilFacts DEF Jobs, Idle
  <2>q. QED
    BY <1>8, <2>1, <2>2 DEF Balanced
<1>q. QED
  BY <1>9 DEF E

\* The end of RB_REMOVE_COLOR keeps the invariant.
LEMMA StepRemoveEnd ==
  ASSUME IInv, RemoveEnd
  PROVE  Balanced(tree', job', Elements)
<1> DEFINE E == Elements
           e == job.elm
           p == job.parent
<1>1. PICK sub, H : /\ Shape(tree, Elements, sub)
                    /\ \/ Resting(tree, job, Elements, H) \/ Inserting(tree, job, Elements, H)
                       \/ Removing(tree, job, Elements, H)
  BY DEF IInv, Balanced
<1>2. Removing(tree, job, E, H) /\ (IsRed(tree, e) \/ e = tree.root)
  BY <1>1 DEF RemoveEnd, Short, Resting, Inserting, Idle
<1>3. tree' = Paint(tree, e, "black") /\ job' = Idle
  BY DEF RemoveEnd
<1>4. Shape(tree, E, sub) /\ tree \in Tree
  BY <1>1 DEF Shape, Bounds
<1>5. /\ \/ p = Nil /\ e = tree.root /\ Heights(tree, E, H, Nil, "L")
         \/ p \in E /\ \E s \in Sides : tree.child[s][p] = e /\ Heights(tree, E, H, p, s)
      /\ Reds(tree, E, {n \in E : n = e \/ tree.parent[n] = e})
      /\ IsRed(tree, tree.root) => e = tree.root
  BY <1>2 DEF Removing
<1> HIDE DEF E, e, p
<1>6. job' \in Jobs
  BY <1>3, NilFacts DEF Jobs, Idle
<1>7. CASE e = Nil
  <2>1. tree' = tree /\ tree.root = Nil
    BY <1>2, <1>3, <1>7 DEF Paint, IsRed
  <2>2. E = {}
    BY <1>4, <2>1 DEF Shape
  <2>3. Heights(tree, E, H, Nil, "L")
    BY <1>5, <2>2
  <2>4. Resting(tree', job', E, H)
    BY <1>3, <2>1, <2>2, <2>3 DEF Resting, Reds, IsRed
  <2>5. Balanced(tree', job', E)
    BY <1>4, <1>6, <2>1, <2>4 DEF Balanced
  <2>q. QED
    BY <2>5 DEF E
<1>8. CASE e # Nil
  <2>1. e \in E /\ e \in Keys
    BY <1>4, <1>5, <1>8, Family DEF Shape, Bounds
  <2>2. Painted(tree, e, "black", tree')
    BY <1>3, <1>4, <2>1, PaintIs, NilFacts
  <2>3. p \in E => e # tree.root
    BY <1>4, <1>5, <1>8, <2>1, Family, NilFacts
  <2>4. \E s : /\ \/ p = Nil /\ e = tree.root
                  \/ p \in E /\ s \in Sides /\ tree.child[s][p] = e /\ tree.color[e] = "red"
               /\ Heights(tree, E, H, p, s)
    BY <1>2, <1>5, <2>3 DEF IsRed
  <2>5. Shape(tree', E, sub) /\ \E G : AtRest(tree', E, G)
    BY <1>4, <1>5, <2>1, <2>2, <2>4, Rests
  <2>6. \E G : Resting(tree', job', E, G)
    BY <1>3, <2>5 DEF Resting, AtRest
  <2>7. Balanced(tree', job', E)
    BY <1>6, <2>5, <2>6 DEF Balanced
  <2>q. QED
    BY <2>7 DEF E
<1>q. QED
  BY <1>7, <1>8

\* The part below a node that is below another belongs to the part below that one.
LEMMA Nested ==
  ASSUME NEW t, NEW E, NEW sub, Shape(t, E, sub), NEW e \in E
  PROVE  \A m \in E : e \in sub[m] => sub[e] \subseteq sub[m]
<1> DEFINE B == {m \in E : e \in sub[m] /\ ~(sub[e] \subseteq sub[m])}
<1>1. SUFFICES ASSUME B # {}
               PROVE  FALSE
  OBVIOUS
<1>2. PICK m \in B : \A d \in Sides : t.child[d][m] \notin B
  BY <1>1, LowestNode
<1>3. m \in E /\ e \in sub[m] /\ ~(sub[e] \subseteq sub[m]) /\ e # m
  BY <1>2
<1>4. PICK d \in Sides : e \in sub[t.child[d][m]]
  BY <1>3, SideFacts DEF Shape, Divides
<1>5. t.child[d][m] # Nil
  BY <1>4 DEF Shape
<1>6. t.child[d][m] \in E /\ sub[t.child[d][m]] \subseteq sub[m]
  BY <1>3, <1>5, Family, InItself
<1>q. QED
  BY <1>2, <1>3, <1>4, <1>6

\* What is not below e is on the same side of all that is below e.
LEMMA Outside ==
  ASSUME NEW t, NEW E, NEW sub, Shape(t, E, sub), NEW e \in E, NEW x \in E, x \notin sub[e],
         NEW y \in sub[e]
  PROVE  Side(x, y) = Side(x, e) /\ Side(y, x) = Side(e, x)
<1> DEFINE B == {m \in E : e \in sub[m] /\ x \in sub[m]}
<1>1. t.root \in B
  BY NilFacts DEF Shape, Bounds
<1>2. PICK m \in B : \A d \in Sides : t.child[d][m] \notin B
  BY <1>1, LowestNode
<1>3. m \in E /\ e \in sub[m] /\ x \in sub[m] /\ e # m
  BY <1>2
<1>4. PICK d \in Sides : e \in sub[t.child[d][m]]
  BY <1>3, SideFacts DEF Shape, Divides
<1>5. t.child[d][m] # Nil
  BY <1>4 DEF Shape
<1>6. t.child[d][m] \in E /\ x \notin sub[t.child[d][m]]
  BY <1>2, <1>3, <1>4, <1>5, Family
<1>7. sub[e] \subseteq sub[t.child[d][m]]
  BY <1>4, <1>6, Nested
<1>8. e \in sub[e] /\ E \subseteq Keys /\ sub[e] \subseteq Keys
  <2>1. e \in sub[e] /\ E \subseteq Keys /\ e \in Links
    BY InItself, Family, NilFacts
  <2>2. sub[e] \subseteq E
    BY <2>1 DEF Shape
  <2>q. QED
    BY <2>1, <2>2
<1>9. Side(y, m) = d /\ Side(e, m) = d /\ y # m /\ e # m
  BY <1>3, <1>4, <1>7, <1>8, Divided
<1>10. x = m \/ (x # m /\ Side(x, m) = Other(d))
  BY <1>3, <1>6, Divided
<1>11. x \in Int /\ y \in Int /\ e \in Int /\ m \in Int
  BY <1>3, <1>8, KeysAssumption
<1>q. QED
  BY <1>9, <1>10, <1>11, SideFacts DEF Side, Other

Follows(t, E, e, s) ==
  /\ s \in E /\ s # e /\ t.child["L"][s] = Nil /\ t.parent[s] # Nil /\ t.child["R"][s] # e
  /\ \A x \in E : x # e /\ x # s => Side(x, s) = Side(x, e) /\ Side(s, x) = Side(e, x)

\* The successor of a node with a right child, seen from any other node, is where the node is.
LEMMA Successor ==
  ASSUME NEW t, NEW E, NEW sub, Shape(t, E, sub), NEW e \in E, t.child["R"][e] # Nil,
         NEW s, s = Outermost(t, t.child["R"][e], "L")
  PROVE  Follows(t, E, e, s)
<1> DEFINE n == t.child["R"][e]
<1>1. n \in E /\ t.parent[n] = e /\ "R" \in Sides /\ "L" \in Sides /\ E \subseteq Keys /\ Nil \notin E
      /\ Other("L") = "R" /\ Other("R") = "L"
  BY Family, SideFacts, NilFacts DEF Other
<1>2. s = Outermost(t, n, "L")
  OBVIOUS
<1> HIDE DEF n
<1>3. /\ s \in sub[n] /\ t.child["L"][s] = Nil
      /\ \A y \in sub[n] : y = s \/ Side(y, s) = "R"
  BY <1>1, <1>2, OutermostOf
<1>4. /\ sub[e] = {e} \cup sub[n] \cup sub[t.child["L"][e]]
      /\ \A x \in sub[n] : x # e /\ Side(x, e) = "R"
      /\ \A x \in sub[t.child["L"][e]] : x # e /\ Side(x, e) = "L"
  BY <1>1, Divided DEF n
<1>5. s \in E /\ s # e /\ s \in sub[e] /\ Side(s, e) = "R" /\ sub[n] \subseteq E
  <2>1. n \in Links
    BY <1>1, NilFacts
  <2>2. sub[n] \subseteq E
    BY <2>1 DEF Shape
  <2>q. QED
    BY <1>3, <1>4, <2>2
<1>6. t.parent[s] # Nil
  <2>1. s = n \/ t.parent[s] \in sub[n]
    BY <1>1, <1>3, ParentInside
  <2>q. QED
    BY <1>1, <1>5, <2>1
<1>7. e \in Int /\ s \in Int /\ \A x \in E : x \in Int
  BY <1>1, <1>5, KeysAssumption
<1>8. t.child["R"][s] # e
  <2>1. SUFFICES ASSUME t.child["R"][s] = e
                 PROVE  FALSE
    OBVIOUS
  <2>2. e \in sub[t.child["R"][s]]
    BY <2>1, InItself
  <2>3. Side(e, s) = "R"
    BY <1>1, <1>5, <2>2, Divided
  <2>q. QED
    BY <1>5, <1>7, <2>3 DEF Side
<1>9. ASSUME NEW x \in E, x # e, x # s
      PROVE  Side(x, s) = Side(x, e) /\ Side(s, x) = Side(e, x)
  <2>1. CASE x \notin sub[e]
    BY <1>5, <2>1, Outside
  <2>2. CASE x \in sub[e]
    <3>1. \/ Side(x, e) = "R" /\ Side(x, s) = "R"
          \/ Side(x, e) = "L"
      BY <1>3, <1>4, <1>9, <2>2
    <3>q. QED
      BY <1>5, <1>7, <1>9, <3>1 DEF Side
  <2>q. QED
    BY <2>1, <2>2
<1>q. QED
  BY <1>3, <1>5, <1>6, <1>8, <1>9 DEF Follows

\* A node is found only if it is in the tree.
LEMMA FoundIn ==
  ASSUME NEW t, NEW E, NEW sub, Shape(t, E, sub), NEW e \in Keys, Find(t, e) = e
  PROVE  e \in E
<1>1. Place(t, e) = e
  BY NilFacts DEF Find
<1>2. e # Nil
  BY NilFacts
<1>q. QED
  BY <1>1, <1>2, PlaceOf

\* A job of RB_REMOVE_COLOR, or none, from the tree and the color of what was unlinked.
Handed(j, c, child, p) ==
  j = IF c = "black" THEN [at |-> "remove", elm |-> child, parent |-> p] ELSE Idle

\* Without a node that has at most one child the tree is balanced but for the place of that child.
LEMMA RemoveOuter ==
  ASSUME NEW t, NEW E, NEW sub, Shape(t, E, sub), NEW e \in E,
         NEW H, AtRest(t, E, H),
         NEW d \in Sides, t.child[d][e] = Nil,
         NEW c, c = t.child[Other(d)][e], NEW p, p = t.parent[e],
         NEW u, u = Forget(Bypass(t, e, c), e),
         NEW j, Handed(j, t.color[e], c, p)
  PROVE  Balanced(u, j, E \ {e})
<1>1. Detached(t, d, e, u)
  BY DetachIs
<1>2. Shape(u, E \ {e}, [n \in Links |-> sub[n] \ {e}])
  BY <1>1, DetachShape
<1>3. Heights(t, E, H, Nil, "L") /\ Reds(t, E, {}) /\ ~IsRed(t, t.root)
  BY DEF AtRest
<1>4. /\ Reds(u, E \ {e}, {c}) /\ (t.color[e] = "red" => Reds(u, E \ {e}, {}))
      /\ t.color[e] = "red" \/ p = Nil => Heights(u, E \ {e}, H, Nil, "L")
      /\ t.color[e] = "black" /\ p # Nil =>
           \E s \in Sides : u.child[s][p] = c /\ Heights(u, E \ {e}, H, p, s)
  <2>1. Shortened(u, E \ {e}, H, t.color[e], c, p)
    BY <1>1, <1>3, DetachColors
  <2>q. QED
    BY <2>1 DEF Shortened
<1>5. /\ p # Nil => p \in E \ {e}
      /\ c # Nil => c \in E
      /\ p = Nil <=> e = t.root
      /\ e # Nil /\ e \in Keys /\ E \subseteq Links /\ Nil \in Links
      /\ t.color[e] \in {"red", "black"}
      /\ t.root \in Keys
  <2>1. Other(d) \in Sides /\ e # Nil /\ E \subseteq Links /\ Nil \in Links /\ Nil \notin E
    BY SideFacts, Family, NilFacts
  <2>2. t.root \in Keys
    BY NilFacts DEF Shape, Bounds
  <2>q. QED
    BY <2>1, <2>2, Family DEF Tree
<1>6. /\ u.root = IF p = Nil THEN c ELSE t.root
      /\ \A n \in Keys : u.color[n] = IF n = e THEN "red" ELSE t.color[n]
  BY <1>1 DEF Detached
<1>7. IsRed(u, u.root) => p = Nil /\ u.root = c
  BY <1>3, <1>5, <1>6 DEF IsRed
<1>8. CASE t.color[e] = "red"
  <2>1. j = Idle /\ p # Nil
    BY <1>3, <1>5, <1>8 DEF Handed, IsRed
  <2>2. Resting(u, j, E \ {e}, H)
    BY <1>4, <1>7, <1>8, <2>1 DEF Resting
  <2>3. j \in Jobs
    BY <2>1, NilFacts DEF Idle, Jobs
  <2>q. QED
    BY <1>2, <2>2, <2>3 DEF Balanced
<1>9. CASE t.color[e] = "black"
  <2>1. j = [at |-> "remove", elm |-> c, parent |-> p]
    BY <1>9 DEF Handed
  <2>2. j.at = "remove" /\ j.elm = c /\ j.parent = p
    BY <2>1
  <2>3. c \in Links /\ p \in Links
    BY <1>5
  <2>4. j \in Jobs
    BY <2>1, <2>3 DEF Jobs
  <2>5. Reds(u, E \ {e}, {n \in E \ {e} : n = c \/ u.parent[n] = c})
    BY <1>4 DEF Reds
  <2>6. Removing(u, j, E \ {e}, H)
    BY <1>4, <1>5, <1>6, <1>7, <1>9, <2>2, <2>5 DEF Removing
  <2>q. QED
    BY <1>2, <2>4, <2>6 DEF Balanced
<1>q. QED
  BY <1>5, <1>8, <1>9

\* The links and the colors of the successor s go, then s takes the place of e.
LEMMA RemoveInner ==
  ASSUME NEW t, NEW E, NEW sub, Shape(t, E, sub), NEW e \in E,
         NEW H, AtRest(t, E, H),
         NEW s, Follows(t, E, e, s), NEW d \in Sides, t.child[d][s] = Nil,
         NEW c, c = t.child[Other(d)][s], c # e, NEW p, p = t.parent[s],
         NEW v, Detached(t, d, s, v), NEW u, Substituted(v, e, s, u),
         NEW j, Handed(j, t.color[s], c, IF p = e THEN s ELSE p)
  PROVE  Balanced(u, j, E \ {e})
<1> DEFINE F == E \ {s}
           p2 == IF p = e THEN s ELSE p
<1>1. s \in E /\ s # e /\ p # Nil
  BY DEF Follows
<1>7. PICK subv : Shape(v, F, subv)
  BY <1>1, DetachShape
<1>8. Heights(t, E, H, Nil, "L") /\ Reds(t, E, {}) /\ ~IsRed(t, t.root)
  BY DEF AtRest
<1>9. /\ Reds(v, F, {c}) /\ (t.color[s] = "red" => Reds(v, F, {}))
      /\ t.color[s] = "red" => Heights(v, F, H, Nil, "L")
      /\ t.color[s] = "black" => \E k \in Sides : v.child[k][p] = c /\ Heights(v, F, H, p, k)
  <2>1. Shortened(v, F, H, t.color[s], c, p)
    BY <1>1, <1>8, DetachColors
  <2>q. QED
    BY <1>1, <2>1 DEF Shortened
<1>10. /\ E \subseteq Keys /\ E \subseteq Links /\ Nil \notin Keys /\ p \in E /\ p # s
       /\ c \in Links /\ t.color[s] \in {"red", "black"} /\ t.root \in E /\ t.root # s
       /\ e \in F /\ s \in Keys \ F
  <2>3. t.root \in E /\ Other(d) \in Sides
    BY NilFacts, SideFacts DEF Shape, Bounds
  <2>1. E \subseteq Keys /\ E \subseteq Links /\ Nil \notin Keys /\ p \in E /\ p # s /\ t.root # s
    BY <1>1, Family, NilFacts
  <2>2. c \in Links /\ t.color[s] \in {"red", "black"}
    BY <1>1, <2>1, <2>3, Family DEF Tree
  <2>q. QED
    BY <1>1, <2>1, <2>2, <2>3
<1>11. (F \ {e}) \cup {s} = E \ {e}
  BY <1>1
<1> DEFINE G == [H EXCEPT ![s] = H[e]]
           sub2 == Instead(subv, e, s)
<1>12. Shape(u, E \ {e}, sub2)
  <2>1. \A x \in F : x # e => Side(x, s) = Side(x, e) /\ Side(s, x) = Side(e, x)
    BY DEF Follows
  <2> HIDE DEF F
  <2>2. Shape(u, (F \ {e}) \cup {s}, Instead(subv, e, s))
    BY <1>7, <1>10, <2>1, SubstituteShape
  <2>q. QED
    BY <1>11, <2>2
<1>13. /\ u.root = IF t.root = e THEN s ELSE t.root
       /\ ~IsRed(u, u.root)
  <2>1. /\ v.root = t.root
        /\ \A n \in Keys : v.color[n] = IF n = s THEN "red" ELSE t.color[n]
    BY <1>1 DEF Detached
  <2>2. /\ u.root = IF v.root = e THEN s ELSE v.root
        /\ \A n \in Keys : u.color[n] = IF n = s THEN v.color[e] ELSE IF n = e THEN "red" ELSE v.color[n]
    BY DEF Substituted
  <2>q. QED
    BY <1>1, <1>8, <1>10, <2>1, <2>2 DEF IsRed
<1> HIDE DEF F
<1>14. CASE t.color[s] = "red"
  <2>1. j = Idle
    BY <1>14 DEF Handed
  <2>2. Nil # s /\ Nil # e /\ e \notin {}
    BY <1>10
  <2>3. Heights(u, (F \ {e}) \cup {s}, G, IF Nil = e THEN s ELSE Nil, "L") /\ Reds(u, (F \ {e}) \cup {s}, {})
    BY <1>7, <1>9, <1>10, <1>14, <2>2, SubstituteColors
  <2>4. Heights(u, E \ {e}, G, Nil, "L") /\ Reds(u, E \ {e}, {})
    BY <1>11, <2>2, <2>3
  <2>5. Resting(u, j, E \ {e}, G)
    BY <1>13, <2>1, <2>4 DEF Resting
  <2>6. j \in Jobs
    BY <2>1, NilFacts DEF Idle, Jobs
  <2>q. QED
    BY <1>12, <2>5, <2>6 DEF Balanced
<1>15. CASE t.color[s] = "black"
  <2>1. j = [at |-> "remove", elm |-> c, parent |-> p2]
    BY <1>15 DEF Handed
  <2>2. j.at = "remove" /\ j.elm = c /\ j.parent = p2 /\ p2 \in Links /\ p2 \in E \ {e}
    BY <1>1, <1>10, <2>1
  <2>3. j \in Jobs
    BY <1>10, <2>1, <2>2 DEF Jobs
  <2>4. PICK k \in Sides : v.child[k][p] = c /\ Heights(v, F, H, p, k)
    BY <1>9, <1>15
  <2>5. e \notin {c}
    BY <1>1
  <2>6. Heights(u, (F \ {e}) \cup {s}, G, p2, k) /\ Reds(u, (F \ {e}) \cup {s}, {c})
    BY <1>7, <1>9, <1>10, <2>4, <2>5, SubstituteColors
  <2>7. Heights(u, E \ {e}, G, p2, k) /\ Reds(u, E \ {e}, {c})
    BY <1>11, <2>6
  <2>8. u.child[k][p2] = c
    BY <1>1, <1>10, <2>4 DEF Substituted
  <2>9. Reds(u, E \ {e}, {n \in E \ {e} : n = c \/ u.parent[n] = c})
    BY <2>7 DEF Reds
  <2> HIDE DEF p2, G
  <2>10. Removing(u, j, E \ {e}, G)
    BY <1>13, <2>2, <2>7, <2>8, <2>9 DEF Removing
  <2>q. QED
    BY <1>12, <2>3, <2>10 DEF Balanced
<1>q. QED
  BY <1>10, <1>14, <1>15

\* Bypass keeps the types of the fields.
LEMMA BypassIn ==
  ASSUME NEW t \in Tree, NEW e \in Keys, NEW c \in Links
  PROVE  Bypass(t, e, c) \in Tree
<1> DEFINE p == t.parent[e]
           v == SetParent(t, c, p)
<1>1. p \in Links
  BY DEF Tree
<1>2. Bypass(t, e, c) = Relink(v, p, e, c)
  BY DEF Bypass
<1>3. Adopted(t, c, p, v)
  BY <1>1, SetParentIs
<1>4. v \in Tree
  BY <1>3 DEF Adopted
<1> HIDE DEF v, p
<1>5. Relinked(v, p, e, c, Relink(v, p, e, c))
  BY <1>1, <1>4, RelinkIs
<1>q. QED
  BY <1>2, <1>5 DEF Relinked

\* RB_REMOVE keeps the invariant.
LEMMA StepRemove ==
  ASSUME IInv, NEW e \in Keys, Remove(e)
  PROVE  Balanced(tree', job', Elements \ {e})
<1> DEFINE E == Elements
           u == Unlink(tree, e)
<1>1. PICK sub, H : /\ Shape(tree, Elements, sub)
                    /\ \/ Resting(tree, job, Elements, H) \/ Inserting(tree, job, Elements, H)
                       \/ Removing(tree, job, Elements, H)
  BY DEF IInv, Balanced
<1>2. AtRest(tree, E, H)
  BY <1>1 DEF Remove, Resting, Inserting, Removing, Idle, AtRest
<1>3. Find(tree, e) = e /\ tree' = Forget(u.tree, e) /\ job' = u.job
  BY DEF Remove
<1>4. Shape(tree, E, sub)
  BY <1>1
<1> HIDE DEF E, u
<1>5. e \in E
  BY <1>3, <1>4, FoundIn
<1>6. /\ tree \in Tree /\ E \subseteq Keys /\ "L" \in Sides /\ "R" \in Sides
      /\ Other("L") = "R" /\ Other("R") = "L"
  BY <1>4, <1>5, Family, SideFacts DEF Other
<1>7. CASE tree.child["L"][e] = Nil \/ tree.child["R"][e] = Nil
  <2> DEFINE d == IF tree.child["L"][e] = Nil THEN "L" ELSE "R"
             c == tree.child[Other(d)][e]
             p == tree.parent[e]
  <2>1. d \in Sides /\ tree.child[d][e] = Nil
    BY <1>6, <1>7
  <2>2. c = IF tree.child["L"][e] = Nil THEN tree.child["R"][e] ELSE tree.child["L"][e]
    BY <1>6
  <2>3. u = Unlinked(Bypass(tree, e, c), tree.color[e], c, p)
    BY <1>7, <2>2 DEF u, Unlink, UnlinkOuter
  <2>4. u.tree = Bypass(tree, e, c) /\ Handed(u.job, tree.color[e], c, p)
    BY <2>3 DEF Unlinked, Handed
  <2> HIDE DEF d
  <2>5. c = tree.child[Other(d)][e] /\ p = tree.parent[e]
    OBVIOUS
  <2> HIDE DEF c, p
  <2>6. tree' = Forget(Bypass(tree, e, c), e) /\ Handed(job', tree.color[e], c, p)
    BY <1>3, <2>4
  <2>7. Balanced(tree', job', E \ {e})
    BY <1>2, <1>4, <1>5, <2>1, <2>5, <2>6, RemoveOuter
  <2>q. QED
    BY <2>7 DEF E
<1>8. CASE tree.child["L"][e] # Nil /\ tree.child["R"][e] # Nil
  <2> DEFINE s == Outermost(tree, tree.child["R"][e], "L")
             c == tree.child["R"][s]
             p == tree.parent[s]
             t1 == Bypass(tree, s, c)
             v == Forget(t1, s)
  <2>1. u = Unlinked(TakePlace(t1, e, s), tree.color[s], c, IF p = e THEN s ELSE p)
    BY <1>8 DEF u, Unlink, UnlinkInner
  <2>2. u.tree = TakePlace(t1, e, s) /\ Handed(u.job, tree.color[s], c, IF p = e THEN s ELSE p)
    BY <2>1 DEF Unlinked, Handed
  <2>3. Follows(tree, E, e, s)
    BY <1>4, <1>5, <1>8, Successor
  <2> HIDE DEF s
  <2>4. /\ s \in E /\ s # e /\ tree.child["L"][s] = Nil /\ c # e
        /\ c = tree.child[Other("L")][s] /\ p = tree.parent[s]
    BY <1>6, <2>3 DEF Follows
  <2> HIDE DEF c, p
  <2>5. c \in Links
    BY <1>6, <2>4 DEF Tree
  <2>6. t1 \in Tree
    BY <1>6, <2>4, <2>5, BypassIn
  <2>7. Detached(tree, "L", s, v)
    BY <1>4, <1>6, <2>4, DetachIs
  <2> HIDE DEF t1
  <2>8. v = Forget(t1, s)
    OBVIOUS
  <2> HIDE DEF v
  <2>9. \E sub2 : Shape(v, E \ {s}, sub2)
    BY <1>4, <1>6, <2>4, <2>7, DetachShape
  <2>10. s \in Keys \ (E \ {s}) /\ e \in E \ {s}
    BY <1>5, <1>6, <2>4
  <2>11. Substituted(v, e, s, Forget(TakePlace(t1, e, s), e))
    BY <2>6, <2>8, <2>9, <2>10, SubstituteIs
  <2>12. Substituted(v, e, s, tree') /\ Handed(job', tree.color[s], c, IF p = e THEN s ELSE p)
    BY <1>3, <2>2, <2>11
  <2>13. Balanced(tree', job', E \ {e})
    BY <1>2, <1>4, <1>5, <1>6, <2>3, <2>4, <2>7, <2>12, RemoveInner
  <2>q. QED
    BY <2>13 DEF E
<1>q. QED
  BY <1>7, <1>8

-----------------------------------------------------------------------------
(* RB_REMOVE_COLOR *)

\* The place to side s of p, with the black node near or no node, is short.
Deficit(t, E, H, p, s, near) ==
  /\ p \in E /\ s \in Sides /\ near = t.child[s][p] /\ ~IsRed(t, near)
  /\ Heights(t, E, H, p, s) /\ Reds(t, E, {}) /\ ~IsRed(t, t.root)

\* There is a sibling.
LEMMA SiblingThere ==
  ASSUME NEW t, NEW E, NEW sub, Shape(t, E, sub), NEW H, NEW p, NEW s, NEW near,
         Deficit(t, E, H, p, s, near)
  PROVE  t.child[Other(s)][p] # Nil /\ t.child[Other(s)][p] # near
<1> DEFINE w == t.child[Other(s)][p]
<1>1. /\ p \in E /\ s \in Sides /\ near = t.child[s][p]
      /\ Heights(t, E, H, p, s)
  BY DEF Deficit
<1>2. Other(s) \in Sides /\ Other(s) # s /\ Other(Other(s)) = s
  BY <1>1, SideFacts
<1>3. E \subseteq Links /\ Nil \in Links /\ near \in Links /\ w \in Links
  BY <1>1, <1>2, Family, NilFacts DEF Links
<1>4. H[p] = H[near] + Weight(t, p) + 1
  BY <1>1 DEF Heights, Gap
<1>5. H[p] = H[w] + Weight(t, p) + 0
  BY <1>1, <1>2 DEF Heights, Gap
<1>6. H[w] \in Nat /\ H[near] \in Nat /\ Weight(t, p) \in Nat /\ H[Nil] = 0
  BY <1>1, <1>3 DEF Heights, Weight
<1> HIDE DEF w
<1>7. H[w] # H[near] /\ H[w] # 0
  BY <1>4, <1>5, <1>6
<1>q. QED
  BY <1>6, <1>7 DEF w

\* Where RB_REMOVE_COLOR goes on.
LEMMA ShortAt ==
  ASSUME NEW t, NEW E, NEW sub, Shape(t, E, sub), NEW j, NEW H, Removing(t, j, E, H),
         ~IsRed(t, j.elm), j.elm # t.root
  PROVE  Deficit(t, E, H, j.parent, IF t.child["L"][j.parent] = j.elm THEN "L" ELSE "R", j.elm)
<1> DEFINE e == j.elm
           p == j.parent
<1>1. /\ p \in E /\ \E s \in Sides : t.child[s][p] = e /\ Heights(t, E, H, p, s)
      /\ Reds(t, E, {n \in E : n = e \/ t.parent[n] = e})
      /\ ~IsRed(t, t.root) /\ ~IsRed(t, e)
  BY DEF Removing
<1> HIDE DEF e, p
<1>2. PICK s \in Sides : t.child[s][p] = e /\ Heights(t, E, H, p, s)
  BY <1>1
<1>3. Reds(t, E, {})
  BY <1>1 DEF Reds
<1>4. Deficit(t, E, H, p, s, e)
  BY <1>1, <1>2, <1>3 DEF Deficit
<1>5. t.child[Other(s)][p] # e
  BY <1>4, SiblingThere
<1>6. s = IF t.child["L"][p] = e THEN "L" ELSE "R"
  BY <1>2, <1>5 DEF Sides, Other
<1>q. QED
  BY <1>4, <1>6 DEF e, p

\* A red sibling is turned up first, then there is a black one.
LEMMA SiblingBlack ==
  ASSUME NEW t, NEW E, NEW sub, Shape(t, E, sub), NEW H, NEW p, NEW s, NEW near,
         Deficit(t, E, H, p, s, near),
         NEW w, w = t.child[Other(s)][p],
         NEW u, u = IF IsRed(t, w) THEN Rotate(SetBlackRed(t, w, p), s, p) ELSE t
  PROVE  /\ \E sub2 : Shape(u, E, sub2)
         /\ \E G : Deficit(u, E, G, p, s, near)
         /\ u.child[Other(s)][p] # Nil /\ u.color[u.child[Other(s)][p]] = "black"
<1> DEFINE o == Other(s)
<1>1. /\ p \in E /\ s \in Sides /\ near = t.child[s][p] /\ ~IsRed(t, near)
      /\ Heights(t, E, H, p, s) /\ Reds(t, E, {}) /\ ~IsRed(t, t.root)
  BY DEF Deficit
<1>2. o \in Sides /\ o # s /\ Other(o) = s /\ o = Other(s)
  BY <1>1, SideFacts
<1>3. w # Nil /\ w # near
  BY SiblingThere
<1> HIDE DEF o
<1>4. w = t.child[o][p]
  BY <1>2
<1>5. /\ E \subseteq Keys /\ Nil \notin E /\ w \in E /\ w # p /\ t.parent[w] = p
      /\ t.color[w] \in {"red", "black"} /\ t.color[p] \in {"red", "black"}
      /\ (near # Nil => near \in E /\ near # p)
  <2>1. E \subseteq Keys /\ Nil \notin E /\ w \in E /\ w # p /\ t.parent[w] = p /\ t \in Tree
    BY <1>1, <1>2, <1>3, <1>4, Family, NilFacts
  <2>2. near # Nil => near \in E /\ near # p
    BY <1>1, Family
  <2>q. QED
    BY <1>1, <2>1, <2>2 DEF Tree
<1>6. CASE ~IsRed(t, w)
  <2>1. u = t /\ t.color[w] = "black"
    BY <1>3, <1>5, <1>6 DEF IsRed
  <2>q. QED
    BY <1>2, <1>3, <1>4, <2>1
<1>7. CASE IsRed(t, w)
  <2>1. ~IsRed(t, p) /\ t.color[p] = "black" /\ t.color[w] = "red"
    BY <1>1, <1>5, <1>7 DEF Reds, IsRed
  <2>2. u = Rotate(SetBlackRed(t, w, p), s, p)
    BY <1>7
  <2>3. /\ TurnedOver(t, s, p, u)
        /\ \A n \in Keys :
             u.color[n] = IF n = w THEN "black" ELSE IF n = p THEN "red" ELSE t.color[n]
    <3>1. TurnedBlack(t, s, p, w, u)
      BY <1>1, <1>5, <2>1, <2>2, TurnedIs
    <3>q. QED
      BY <3>1 DEF TurnedBlack
  <2>4. TurnedRed(t, s, p, u)
    BY <1>1, <2>1, <2>3 DEF TurnedRed
  <2>5. /\ u \in Tree
        /\ u.child[o][p] = t.child[s][w] /\ u.child[s][p] = near
        /\ u.root = IF t.parent[p] = Nil THEN w ELSE t.root
    BY <1>1, <1>2, <1>3, <1>4, <2>3, TurnLinks
  <2>6. ~IsRed(t, t.child[s][w]) /\ t.child[s][w] # w /\ t.child[s][w] # p
    <3>1. t.child[s][w] # Nil =>
            t.child[s][w] \in E /\ t.parent[t.child[s][w]] = w /\ t.child[s][w] # w
            /\ t.child[s][w] # t.parent[w]
      BY <1>1, <1>5, Family
    <3>q. QED
      BY <1>1, <1>5, <1>7, <3>1 DEF Reds, IsRed
  <2>7. Reds(u, E, {})
    <3>1. RedsTurned(t, u, E, p, w, {})
      BY <1>1, <1>3, <2>1, <2>4, <2>6, TurnReds
    <3>q. QED
      BY <2>1, <3>1 DEF Reds, RedsTurned
  <2>8. \E G : Heights(u, E, G, p, s)
    <3>1. p # w /\ ~(p = p /\ s = Other(s))
      BY <1>2, <1>5
    <3>2. Heights(u, E, [H EXCEPT ![w] = H[p], ![p] = H[w]], p, s)
      BY <1>1, <1>3, <2>1, <2>4, <3>1, TurnHeights
    <3>q. QED
      BY <3>2
  <2>9. ~IsRed(u, near)
    BY <1>1, <1>3, <1>5, <2>3 DEF IsRed
  <2>10. ~IsRed(u, u.root)
    <3>1. CASE t.parent[p] = Nil
      BY <1>5, <2>3, <2>5, <3>1 DEF IsRed
    <3>2. CASE t.parent[p] # Nil
      <4>1. t.root # Nil => t.root \in E /\ t.root # p /\ t.root # w
        BY <1>1, <1>3, <1>5, <3>2, Family DEF Shape, Bounds
      <4>q. QED
        BY <1>1, <1>5, <2>3, <2>5, <3>2, <4>1 DEF IsRed
    <3>q. QED
      BY <3>1, <3>2
  <2>11. PICK G : Deficit(u, E, G, p, s, near)
    BY <1>1, <2>5, <2>7, <2>8, <2>9, <2>10 DEF Deficit
  <2>12. PICK sub2 : Shape(u, E, sub2)
    <3>1. PICK v : Recolored(t, v) /\ Rotated(v, s, p, u)
      BY <2>3 DEF TurnedOver
    <3>2. Shape(v, E, sub) /\ v.child[Other(s)][p] # Nil
      BY <1>3, <3>1, RecolorShape DEF Recolored
    <3>q. QED
      BY <1>1, <3>1, <3>2, RotateShape
  <2>13. u.child[Other(s)][p] # Nil
    BY <2>11, <2>12, SiblingThere
  <2>14. u.color[u.child[Other(s)][p]] = "black"
    <3>1. t.child[s][w] \in Keys /\ t.color[t.child[s][w]] = "black"
      <4>1. t.child[s][w] \in Keys /\ t \in Tree
        <5>1. w \in E /\ s \in Sides /\ t.child[s][w] # Nil
          BY <1>1, <1>2, <1>5, <2>5, <2>13
        <5>2. t \in Tree /\ E \subseteq Keys /\ t.child[s][w] \in E
          BY <1>1, <5>1, Family
        <5>q. QED
          BY <5>2
      <4>q. QED
        BY <2>6, <4>1, NilFacts DEF Tree, IsRed
    <3>q. QED
      BY <1>2, <2>3, <2>5, <2>6, <3>1
  <2>q. QED
    BY <2>11, <2>12, <2>13, <2>14
<1>q. QED
  BY <1>6, <1>7

\* What an iteration begins with.
AtSibling(t, E, H, p, s, near, w) ==
  /\ (\E sub : Shape(t, E, sub)) /\ Deficit(t, E, H, p, s, near)
  /\ w = t.child[Other(s)][p] /\ w # Nil /\ t.color[w] = "black"

\* Once a red sibling is turned up there is a black one, and the same place is short.
LEMMA Iteration ==
  ASSUME IInv, job.at = "remove", Short
  PROVE  \E H : AtSibling(BlackSibling, Elements, H, job.parent, ShortSide, job.elm, Sibling)
<1> DEFINE E == Elements
           p == job.parent
           s == ShortSide
           w == tree.child[Other(s)][p]
           u == BlackSibling
<1>1. PICK sub, H : /\ Shape(tree, Elements, sub)
                    /\ \/ Resting(tree, job, Elements, H) \/ Inserting(tree, job, Elements, H)
                       \/ Removing(tree, job, Elements, H)
  BY DEF IInv, Balanced
<1>2. Removing(tree, job, E, H)
  BY <1>1 DEF Resting, Inserting, Idle
<1>3. Shape(tree, E, sub)
  BY <1>1
<1>4. Deficit(tree, E, H, p, IF tree.child["L"][job.parent] = job.elm THEN "L" ELSE "R", job.elm)
  BY <1>2, <1>3, ShortAt DEF Short
<1>5. Deficit(tree, E, H, p, s, job.elm)
  BY <1>4 DEF ShortSide
<1>6. u = IF IsRed(tree, w) THEN Rotate(SetBlackRed(tree, w, p), s, p) ELSE tree
  BY DEF BlackSibling
<1>7. Sibling = u.child[Other(s)][p]
  BY DEF Sibling
<1> HIDE DEF E, p, s, u
<1>8. w = tree.child[Other(s)][p]
  OBVIOUS
<1> HIDE DEF w
<1>9. /\ \E sub2 : Shape(u, E, sub2)
      /\ \E G : Deficit(u, E, G, p, s, job.elm)
      /\ u.child[Other(s)][p] # Nil /\ u.color[u.child[Other(s)][p]] = "black"
  BY <1>3, <1>5, <1>6, <1>8, SiblingBlack
<1>10. \E G : AtSibling(u, E, G, p, s, job.elm, Sibling)
  BY <1>7, <1>9 DEF AtSibling
<1>q. QED
  BY <1>10 DEF E, p, s, u

\* A sibling without red children turns red, and the place of its parent is short.
LEMMA SiblingUp ==
  ASSUME NEW t, NEW E, NEW H, NEW p, NEW s, NEW near, NEW w, AtSibling(t, E, H, p, s, near, w),
         \A k \in Sides : ~IsRed(t, t.child[k][w]),
         NEW u, u = Paint(t, w, "red"),
         NEW j, j.at = "remove", j.elm = p, j.parent = t.parent[p], j \in Jobs
  PROVE  Balanced(u, j, E)
<1>1. PICK sub : Shape(t, E, sub)
  BY DEF AtSibling
<1>2. /\ p \in E /\ s \in Sides /\ Heights(t, E, H, p, s) /\ Reds(t, E, {}) /\ ~IsRed(t, t.root)
      /\ w = t.child[Other(s)][p] /\ w # Nil /\ t.color[w] = "black"
  BY DEF AtSibling, Deficit
<1>3. t \in Tree /\ E \subseteq Keys /\ w \in E /\ t.parent[w] = p /\ p # Nil /\ w \in Links /\ w # p
  BY <1>1, <1>2, SideFacts, Family, NilFacts
<1>4. Painted(t, w, "red", u)
  BY <1>3, PaintIs
<1>5. Recolored(t, u)
  BY <1>4 DEF Painted, Recolored
<1>6. Shape(u, E, sub)
  BY <1>1, <1>5, RecolorShape
<1>7. /\ Reds(u, E, {w})
      /\ \E G :
           /\ t.parent[p] = Nil => Heights(u, E, G, Nil, "L")
           /\ t.parent[p] # Nil =>
                \E d \in Sides : t.child[d][t.parent[p]] = p /\ Heights(u, E, G, t.parent[p], d)
  <2>1. ShortAbove(t, u, E, p, w)
    BY <1>1, <1>2, <1>4, UpColors
  <2>q. QED
    BY <2>1 DEF ShortAbove
<1>8. u.root = t.root /\ u.child = t.child /\ u.parent = t.parent
  BY <1>5 DEF Recolored
<1>9. Reds(u, E, {n \in E : n = p \/ u.parent[n] = p})
  BY <1>3, <1>7, <1>8 DEF Reds
<1>10. ~IsRed(u, u.root)
  <2>1. t.root # w /\ (t.root # Nil => t.root \in Keys)
    BY <1>1, <1>3, Family DEF Shape, Bounds
  <2>q. QED
    BY <1>2, <1>4, <1>8, <2>1 DEF Painted, IsRed
<1>11. t.parent[p] = Nil => p = t.root
  BY <1>1, <1>2, Family
<1>12. t.parent[p] # Nil => t.parent[p] \in E
  BY <1>1, <1>2, Family
<1>13. \E G : Removing(u, j, E, G)
  <2>1. PICK G : /\ t.parent[p] = Nil => Heights(u, E, G, Nil, "L")
                 /\ t.parent[p] # Nil =>
                      \E d \in Sides : t.child[d][t.parent[p]] = p /\ Heights(u, E, G, t.parent[p], d)
    BY <1>7
  <2>2. Removing(u, j, E, G)
    BY <1>8, <1>9, <1>10, <1>11, <1>12, <2>1 DEF Removing
  <2>q. QED
    BY <2>2
<1>q. QED
  BY <1>6, <1>13 DEF Balanced

\* An iteration of RB_REMOVE_COLOR that goes up keeps the invariant.
LEMMA StepRemoveUp ==
  ASSUME IInv, RemoveUp
  PROVE  Balanced(tree', job', Elements)
<1> DEFINE E == Elements
           p == job.parent
           t == BlackSibling
           w == Sibling
<1>1. /\ job.at = "remove" /\ Short /\ BlackNephews
      /\ tree' = Paint(t, w, "red")
      /\ job' = [job EXCEPT !.elm = p, !.parent = t.parent[p]]
  BY DEF RemoveUp
<1>2. PICK H : AtSibling(t, E, H, p, ShortSide, job.elm, w)
  BY <1>1, Iteration
<1>3. \A k \in Sides : ~IsRed(t, t.child[k][w])
  BY <1>1 DEF BlackNephews, Nephew
<1> HIDE DEF E, p, t, w
<1>4. p \in Links /\ t.parent[p] \in Links
  <2>1. PICK sub : Shape(t, E, sub)
    BY <1>2 DEF AtSibling
  <2>2. p \in E
    BY <1>2 DEF AtSibling, Deficit
  <2>q. QED
    BY <2>1, <2>2, Family, NilFacts
<1>5. job'.at = "remove" /\ job'.elm = p /\ job'.parent = t.parent[p] /\ job' \in Jobs
  <2>1. job \in Jobs
    BY DEF IInv, Balanced
  <2>q. QED
    BY <1>1, <1>4, <2>1 DEF Jobs
<1>6. Balanced(tree', job', E)
  BY <1>1, <1>2, <1>3, <1>5, SiblingUp
<1>q. QED
  BY <1>6 DEF E

\* The sibling w has the red node x on the other side.
Ready(t, E, H, p, s, near, w, x) ==
  AtSibling(t, E, H, p, s, near, w) /\ x = t.child[Other(s)][w] /\ IsRed(t, x)

\* A red node x on the inner side of w comes up between p and w.
LEMMA InnerNephew ==
  ASSUME NEW t, NEW E, NEW H, NEW p, NEW s, NEW near, NEW w, AtSibling(t, E, H, p, s, near, w),
         ~IsRed(t, t.child[Other(s)][w]),
         NEW x, x = t.child[s][w], IsRed(t, x),
         NEW u, u = Rotate(SetBlackRed(t, x, w), Other(s), w)
  PROVE  \E G : Ready(u, E, G, p, s, near, x, w)
<1> DEFINE o == Other(s)
<1>1. PICK sub : Shape(t, E, sub)
  BY DEF AtSibling
<1>2. /\ p \in E /\ s \in Sides /\ near = t.child[s][p] /\ ~IsRed(t, near)
      /\ Heights(t, E, H, p, s) /\ Reds(t, E, {}) /\ ~IsRed(t, t.root)
      /\ w = t.child[Other(s)][p] /\ w # Nil /\ t.color[w] = "black"
  BY DEF AtSibling, Deficit
<1>3. o \in Sides /\ o # s /\ Other(o) = s /\ o = Other(s)
  BY <1>2, SideFacts
<1>4. w # near
  BY <1>1, SiblingThere DEF AtSibling
<1>5. u = Rotate(SetBlackRed(t, x, w), o, w)
  OBVIOUS
<1> HIDE DEF o
<1>6. /\ E \subseteq Keys /\ Nil \notin E /\ w \in E /\ w # p /\ t.parent[w] = p
      /\ x \in E /\ x # w /\ x # p /\ t.parent[x] = w /\ x # Nil /\ p # Nil
      /\ (near # Nil => near \in E /\ near # p /\ t.parent[near] = p)
      /\ t.color[x] = "red"
  <2>1. E \subseteq Keys /\ Nil \notin E /\ w \in E /\ w # p /\ t.parent[w] = p /\ p # Nil
    BY <1>1, <1>2, <1>3, Family, NilFacts
  <2>2. x # Nil /\ t.color[x] = "red"
    BY DEF IsRed
  <2>3. x \in E /\ x # w /\ x # p /\ t.parent[x] = w
    <3>1. t.child[s][w] # Nil =>
            /\ t.child[s][w] \in E /\ t.child[s][w] # w /\ t.parent[t.child[s][w]] = w
            /\ t.child[s][w] # t.parent[w]
      <4>1. s \in Sides /\ w \in E
        BY <1>2, <2>1
      <4>q. QED
        BY <1>1, <4>1, Family
    <3>q. QED
      BY <2>1, <2>2, <3>1
  <2>4. near # Nil => near \in E /\ near # p /\ t.parent[near] = p
    BY <1>1, <1>2, Family
  <2>q. QED
    BY <2>1, <2>2, <2>3, <2>4
<1>7. x = t.child[Other(o)][w]
  BY <1>3
<1>8. /\ TurnedOver(t, o, w, u)
      /\ \A n \in Keys :
           u.color[n] = IF n = x THEN "black" ELSE IF n = w THEN "red" ELSE t.color[n]
  <2>1. TurnedBlack(t, o, w, x, u)
    BY <1>1, <1>2, <1>3, <1>5, <1>6, <1>7, TurnedIs
  <2>q. QED
    BY <2>1 DEF TurnedBlack
<1>9. TurnedRed(t, o, w, u)
  BY <1>2, <1>7, <1>8 DEF TurnedRed
<1>10. /\ u \in Tree /\ u.child[o][x] = w
       /\ \A n \in E, k \in Sides : n # w /\ n # x =>
            /\ t.child[k][n] # x /\ t.child[k][n] # w => u.child[k][n] = t.child[k][n]
            /\ t.child[k][n] = w => u.child[k][n] = x
            /\ t.child[k][n] # x
       /\ u.root = IF t.parent[w] = Nil THEN x ELSE t.root
  <2>1. /\ o \in Sides /\ s = Other(o) /\ w \in E /\ x = t.child[s][w] /\ x # Nil
        /\ TurnedOver(t, o, w, u)
    BY <1>3, <1>6, <1>8
  <2>2. PICK inner : inner = t.child[o][x]
    OBVIOUS
  <2>q. QED
    BY <1>1, <2>1, <2>2, TurnLinks
<1>11. u.child[o][p] = x /\ u.child[s][p] = near /\ u.root = t.root /\ u.child[o][x] = w
  <2>1. t.child[o][p] = w /\ t.child[s][p] = near /\ p # w /\ p # x /\ near # w
    BY <1>2, <1>3, <1>4, <1>6
  <2>2. u.child[o][p] = x /\ u.child[s][p] = near
    BY <1>2, <1>3, <1>10, <2>1
  <2>q. QED
    BY <1>6, <1>10, <2>2
<1>12. Reds(u, E, {})
  <2>1. ~IsRed(t, t.child[o][x])
    <3>1. t.child[o][x] # Nil => t.child[o][x] \in E /\ t.parent[t.child[o][x]] = x
      BY <1>1, <1>3, <1>6, Family
    <3>q. QED
      BY <1>2, <3>1 DEF Reds, IsRed
  <2>2. ~IsRed(t, t.child[o][w]) /\ ~IsRed(t, w)
    BY <1>2, <1>3 DEF IsRed
  <2>3. RedsTurned(t, u, E, w, x, {})
    BY <1>1, <1>2, <1>3, <1>6, <1>7, <1>9, <2>1, <2>2, TurnReds
  <2>q. QED
    BY <2>2, <2>3 DEF Reds, RedsTurned
<1>13. \E G : Heights(u, E, G, p, s)
  <2>1. p # x /\ ~(p = w /\ s = Other(o))
    BY <1>6
  <2>2. Heights(u, E, [H EXCEPT ![x] = H[w], ![w] = H[x]], p, s)
    BY <1>1, <1>2, <1>3, <1>6, <1>7, <1>9, <2>1, TurnHeights
  <2>q. QED
    BY <2>2
<1>14. ~IsRed(u, near) /\ ~IsRed(u, u.root)
  <2>1. near # x /\ near # w /\ t.root # x /\ t.root # w
    <3>1. near # x /\ near # w
      BY <1>4, <1>6
    <3>2. t.root # x /\ t.root # w
      BY <1>1, <1>6, Family
    <3>q. QED
      BY <3>1, <3>2
  <2>2. t.root # Nil => t.root \in Keys
    BY <1>1 DEF Shape, Bounds
  <2>3. \A n \in Keys : n # x /\ n # w => u.color[n] = t.color[n]
    BY <1>8
  <2>4. near # Nil => near \in Keys
    BY <1>6
  <2>5. ~IsRed(u, near)
    <3>1. near # Nil => u.color[near] = t.color[near]
      BY <2>1, <2>3, <2>4
    <3>q. QED
      BY <1>2, <3>1 DEF IsRed
  <2>6. ~IsRed(u, u.root)
    <3>1. u.root = t.root /\ (t.root # Nil => u.color[t.root] = t.color[t.root])
      BY <1>11, <2>1, <2>2, <2>3
    <3>q. QED
      BY <1>2, <3>1 DEF IsRed
  <2>q. QED
    BY <2>5, <2>6
<1>15. \E sub2 : Shape(u, E, sub2)
  <2>1. PICK v : Recolored(t, v) /\ Rotated(v, o, w, u)
    BY <1>8 DEF TurnedOver
  <2>2. Shape(v, E, sub) /\ v.child[Other(o)][w] # Nil
    BY <1>1, <1>6, <1>7, <2>1, RecolorShape DEF Recolored
  <2>q. QED
    BY <1>3, <1>6, <2>1, <2>2, RotateShape
<1>16. IsRed(u, w) /\ u.color[x] = "black"
  <2>1. w \in Keys /\ x \in Keys /\ w # x /\ w # Nil
    BY <1>6
  <2>q. QED
    BY <1>8, <2>1 DEF IsRed
<1>17. \E G : Deficit(u, E, G, p, s, near)
  BY <1>2, <1>11, <1>12, <1>13, <1>14 DEF Deficit
<1>18. x = u.child[Other(s)][p] /\ w = u.child[Other(s)][x]
  BY <1>3, <1>11
<1>q. QED
  BY <1>6, <1>15, <1>16, <1>17, <1>18 DEF Ready, AtSibling

\* The colors that the last rotation begins with.
Primed(t, p, w, x, v) ==
  /\ Recolored(t, v)
  /\ \A n \in Keys : v.color[n] = IF n = x \/ n = p THEN "black"
                                  ELSE IF n = w THEN t.color[p] ELSE t.color[n]

\* What the colors of RB_REMOVE_COLOR are before its last rotation.
LEMMA Primes ==
  ASSUME NEW t \in Tree, NEW p \in Keys, NEW w \in Keys, NEW x \in Keys, p # w, x # w,
         NEW o \in Sides, x = t.child[o][w],
         NEW v2, v2 = Paint(t, w, t.color[p]),
         NEW v, v = Paint(Paint(v2, p, "black"), v2.child[o][w], "black")
  PROVE  Primed(t, p, w, x, v)
<1> DEFINE v3 == Paint(v2, p, "black")
<1>1. p \in Links /\ w \in Links /\ x \in Links /\ t.color[p] \in {"red", "black"}
  BY NilFacts DEF Tree
<1>2. Painted(t, w, t.color[p], v2)
  BY <1>1, PaintIs
<1>3. v2 \in Tree /\ v2.child[o][w] = x
  BY <1>2 DEF Painted
<1>4. Painted(v2, p, "black", v3)
  BY <1>1, <1>3, PaintIs
<1>5. v3 \in Tree /\ v = Paint(v3, x, "black")
  BY <1>3, <1>4 DEF Painted
<1> HIDE DEF v3
<1>6. Painted(v3, x, "black", v)
  BY <1>1, <1>5, PaintIs
<1>q. QED
  BY <1>2, <1>4, <1>6 DEF Painted, Recolored, Primed

\* The last rotation closes the gap, and the loop ends at the root.
LEMMA GapFilled ==
  ASSUME NEW t, NEW E, NEW H, NEW p, NEW s, NEW near, NEW w, NEW x,
         Ready(t, E, H, p, s, near, w, x),
         NEW v, Primed(t, p, w, x, v), NEW u, u = Rotate(v, s, p),
         NEW j, j.at = "remove", j.elm = u.root, j.parent = Nil
  PROVE  (\E sub : Shape(u, E, sub)) /\ (\E G : Removing(u, j, E, G)) /\ u.root \in Links
<1> DEFINE o == Other(s)
           inner == t.child[s][w]
<1>1. PICK sub : Shape(t, E, sub)
  BY DEF Ready, AtSibling
<1>2. /\ p \in E /\ s \in Sides /\ near = t.child[s][p] /\ ~IsRed(t, near)
      /\ Heights(t, E, H, p, s) /\ Reds(t, E, {}) /\ ~IsRed(t, t.root)
      /\ w = t.child[Other(s)][p] /\ w # Nil /\ t.color[w] = "black"
      /\ x = t.child[Other(s)][w] /\ IsRed(t, x)
  BY DEF Ready, AtSibling, Deficit
<1>3. o = Other(s) /\ o \in Sides
  BY <1>2, SideFacts
<1> HIDE DEF o
<1>4. w = t.child[o][p] /\ x = t.child[o][w]
  BY <1>2, <1>3
<1>5. /\ Recolored(t, v)
      /\ \A n \in Keys : v.color[n] = IF n = x \/ n = p THEN "black"
                                      ELSE IF n = w THEN t.color[p] ELSE t.color[n]
  BY DEF Primed
<1>6. Shape(v, E, sub) /\ v.child[Other(s)][p] # Nil
  BY <1>1, <1>2, <1>5, RecolorShape DEF Recolored
<1>7. Rotated(v, s, p, u)
  BY <1>2, <1>6, RotateIs
<1>8. \E sub2 : Shape(u, E, sub2)
  BY <1>2, <1>6, <1>7, RotateShape
<1>9. TurnedOver(t, s, p, u)
  BY <1>5, <1>7 DEF TurnedOver
<1>10. \A n \in Keys : u.color[n] = IF n = x \/ n = p THEN "black"
                                    ELSE IF n = w THEN t.color[p] ELSE t.color[n]
  BY <1>5, <1>7 DEF Rotated
<1>11. inner = t.child[s][w]
  OBVIOUS
<1> HIDE DEF inner
<1>12. Heights(u, E, [H EXCEPT ![w] = H[p], ![p] = H[w], ![x] = H[w]], Nil, "L")
  BY <1>1, <1>2, <1>3, <1>4, <1>9, <1>10, <1>11, FillHeights
<1>13. Reds(u, E, {})
  BY <1>1, <1>2, <1>3, <1>4, <1>9, <1>10, <1>11, FillReds
<1>14. Reds(u, E, {n \in E : n = j.elm \/ u.parent[n] = j.elm})
  BY <1>13 DEF Reds
<1>15. Removing(u, j, E, [H EXCEPT ![w] = H[p], ![p] = H[w], ![x] = H[w]])
  BY <1>12, <1>14 DEF Removing
<1>16. u.root \in Links
  BY <1>7 DEF Rotated, Tree
<1>q. QED
  BY <1>8, <1>15, <1>16

\* The iteration of RB_REMOVE_COLOR that closes the gap keeps the invariant.
LEMMA StepRemoveFill ==
  ASSUME IInv, RemoveFill
  PROVE  Balanced(tree', job', Elements)
<1> DEFINE E == Elements
           p == job.parent
           t == BlackSibling
           s == ShortSide
           o == Other(s)
           w0 == Sibling
           y == Nephew(s)
           t1 == IF IsRed(t, Nephew(o)) THEN t ELSE Rotate(SetBlackRed(t, y, w0), o, w0)
           w == t1.child[o][p]
           x == t1.child[o][w]
           t2 == Paint(t1, w, t1.color[p])
           t3 == Paint(Paint(t2, p, "black"), t2.child[o][w], "black")
           u == Rotate(t3, s, p)
<1>1. /\ job.at = "remove" /\ Short /\ ~BlackNephews
      /\ tree' = u /\ job' = [job EXCEPT !.elm = u.root, !.parent = Nil]
  BY DEF RemoveFill
<1>2. PICK H : AtSibling(t, E, H, p, s, job.elm, w0)
  BY <1>1, Iteration
<1>3. /\ Nephew(o) = t.child[o][w0] /\ y = t.child[s][w0]
      /\ \E d \in Sides : IsRed(t, t.child[d][w0])
  BY <1>1 DEF BlackNephews, Nephew
<1> HIDE DEF E, t, s, w0, y, p
<1>4. s \in Sides /\ \A d \in Sides : d = s \/ d = o
  BY <1>2, SideFacts DEF AtSibling, Deficit
<1>5. \E G : Ready(t1, E, G, p, s, job.elm, w, x)
  <2>1. CASE IsRed(t, Nephew(o))
    <3>1. t1 = t
      BY <2>1
    <3> HIDE DEF t1
    <3>2. w = w0
      BY <1>2, <3>1 DEF AtSibling
    <3> HIDE DEF w
    <3>3. Ready(t1, E, H, p, s, job.elm, w, x)
      BY <1>2, <1>3, <2>1, <3>1, <3>2 DEF Ready
    <3>q. QED
      BY <3>3
  <2>2. CASE ~IsRed(t, Nephew(o))
    <3>1. t1 = Rotate(SetBlackRed(t, y, w0), Other(s), w0)
      BY <2>2
    <3>2. IsRed(t, y) /\ ~IsRed(t, t.child[Other(s)][w0])
      BY <1>3, <1>4, <2>2
    <3> HIDE DEF t1
    <3>3. PICK G : Ready(t1, E, G, p, s, job.elm, y, w0)
      BY <1>2, <1>3, <3>1, <3>2, InnerNephew
    <3>4. w = y /\ x = w0
      BY <3>3 DEF Ready, AtSibling
    <3>q. QED
      BY <3>3, <3>4
  <2>q. QED
    BY <2>1, <2>2
<1> HIDE DEF t1, w, x, t2, t3, u
<1>6. PICK G : Ready(t1, E, G, p, s, job.elm, w, x)
  BY <1>5
<1>7. Primed(t1, p, w, x, t3)
  <2>1. PICK sub : Shape(t1, E, sub)
    BY <1>6 DEF Ready, AtSibling
  <2>2. p \in E /\ w # Nil /\ x # Nil /\ w = t1.child[o][p] /\ x = t1.child[o][w] /\ o \in Sides
    BY <1>4, <1>6, SideFacts DEF Ready, AtSibling, Deficit, IsRed
  <2>3. t1 \in Tree /\ p \in Keys /\ w \in Keys /\ x \in Keys /\ p # w /\ x # w
    BY <2>1, <2>2, Family
  <2>q. QED
    BY <2>2, <2>3, Primes DEF t2, t3
<1>8. u = Rotate(t3, s, p)
  BY DEF u
<1>9. job'.at = "remove" /\ job'.elm = u.root /\ job'.parent = Nil
  <2>1. job \in Jobs
    BY DEF IInv, Balanced
  <2>q. QED
    BY <1>1, <2>1 DEF Jobs
<1>10. (\E sub : Shape(u, E, sub)) /\ (\E G2 : Removing(u, job', E, G2)) /\ u.root \in Links
  BY <1>6, <1>7, <1>8, <1>9, GapFilled
<1>11. job' \in Jobs
  <2>1. job \in Jobs
    BY DEF IInv, Balanced
  <2>q. QED
    BY <1>1, <1>10, <2>1, NilFacts DEF Jobs
<1>12. Balanced(tree', job', E)
  BY <1>1, <1>10, <1>11 DEF Balanced
<1>q. QED
  BY <1>12 DEF E

-----------------------------------------------------------------------------
(* The invariant holds *)

\* Every step keeps the invariant.
LEMMA InvNext == IInv /\ [Next]_vars => IInv'
<1> SUFFICES ASSUME IInv, [Next]_vars
             PROVE  IInv'
  OBVIOUS
<1>1. CASE UNCHANGED <<tree, job>>
  BY <1>1 DEF IInv, Elements
<1>2. ASSUME NEW e \in Keys, Insert(e)
      PROVE  IInv'
  BY <1>2, StepInsert, BalancedNext
<1>3. ASSUME NEW e \in Keys, Remove(e)
      PROVE  IInv'
  BY <1>3, StepRemove, BalancedNext
<1>4. CASE InsertRecolor
  BY <1>4, StepInsertRecolor, BalancedNext
<1>5. CASE InsertRotate
  BY <1>5, StepInsertRotate, BalancedNext
<1>6. CASE InsertEnd
  BY <1>6, StepInsertEnd, BalancedNext
<1>7. CASE RemoveUp
  BY <1>7, StepRemoveUp, BalancedNext
<1>8. CASE RemoveFill
  BY <1>8, StepRemoveFill, BalancedNext
<1>9. CASE RemoveEnd
  BY <1>9, StepRemoveEnd, BalancedNext
<1>10. (\E e \in Keys : Search(e)) => UNCHANGED <<tree, job>>
  BY DEF Search
<1>11. (\E d \in Sides : End(d) \/ ForEach(d) \/ \E e \in Keys : ForEachFrom(d, e))
         => UNCHANGED <<tree, job>>
  BY DEF End, ForEach, ForEachFrom
<1>12. ForEachNext \/ UNCHANGED vars => UNCHANGED <<tree, job>>
  BY DEF ForEachNext, vars
<1>q. QED
  BY <1>1, <1>2, <1>3, <1>4, <1>5, <1>6, <1>7, <1>8, <1>9, <1>10, <1>11, <1>12 DEF Next

\* The tree is a search tree whose colors and heights are those that each rebalancing loop
\* needs to go on: the inductive invariant of RB_INSERT, RB_REMOVE and their loops.
THEOREM Invariant == Spec => []IInv
<1>1. Init => IInv
  BY InvInit
<1>2. IInv /\ [Next]_vars => IInv'
  BY InvNext
<1>q. QED
  BY <1>1, <1>2, PTL DEF Spec

\* "each red node (except for the root) has a black parent", in the middle of a rebalancing
\* all but the node the loop is at.
THEOREM RedParents == Spec => []RedHasBlackParent
<1>1. IInv => RedHasBlackParent
  <2> SUFFICES ASSUME IInv, NEW n \in Elements, IsRed(tree, n), IsRed(tree, tree.parent[n])
               PROVE  \/ job # Idle /\ n = job.elm
                      \/ job.at = "remove" /\ tree.parent[n] = job.elm
    BY DEF RedHasBlackParent
  <2>1. PICK H : \/ Resting(tree, job, Elements, H) \/ Inserting(tree, job, Elements, H)
                 \/ Removing(tree, job, Elements, H)
    BY DEF IInv, Balanced
  <2>2. CASE Resting(tree, job, Elements, H)
    BY <2>2 DEF Resting, Reds
  <2>3. CASE Inserting(tree, job, Elements, H)
    BY <2>3 DEF Inserting, Reds, Idle
  <2>4. CASE Removing(tree, job, Elements, H)
    BY <2>4 DEF Removing, Reds, Idle
  <2>q. QED
    BY <2>1, <2>2, <2>3, <2>4
<1>q. QED
  BY <1>1, Invariant, PTL

\* The loops find the grandparent, the sibling and its children where they follow links
\* without a test.
THEOREM LinksFollowed == Spec => []NoNullFollowed
<1>1. IInv => NoNullFollowed
  <2> SUFFICES ASSUME IInv
               PROVE  NoNullFollowed
    OBVIOUS
  <2>1. PICK sub, H : /\ Shape(tree, Elements, sub)
                      /\ \/ Resting(tree, job, Elements, H) \/ Inserting(tree, job, Elements, H)
                         \/ Removing(tree, job, Elements, H)
    BY DEF IInv, Balanced
  <2>2. Elements \subseteq Keys /\ Nil \notin Elements
    BY <2>1, NilFacts DEF Shape, Bounds
  <2>3. ASSUME job.at = "insert", TwoReds
        PROVE  Grandparent # Nil
    <3>1. Inserting(tree, job, Elements, H)
      BY <2>1, <2>3 DEF Resting, Removing, Idle
    <3>2. RedAbove(tree, job.elm, Parent, Grandparent, ParentSide)
      BY <2>3 DEF RedAbove, TwoReds, Parent, Grandparent, ParentSide
    <3>3. BlackAboveRed(tree, Elements, job.elm, Parent, Grandparent, ParentSide)
      BY <2>1, <3>1, <3>2, TwoRedsLinks
    <3>q. QED
      BY <2>2, <3>3 DEF BlackAboveRed
  <2>4. ASSUME job.at = "remove", Short
        PROVE  job.parent # Nil /\ tree.child[Other(ShortSide)][job.parent] # Nil /\ Sibling # Nil
    <3>1. Removing(tree, job, Elements, H)
      BY <2>1, <2>4 DEF Resting, Inserting, Idle
    <3>2. Deficit(tree, Elements, H, job.parent, ShortSide, job.elm)
      BY <2>1, <2>4, <3>1, ShortAt DEF Short, ShortSide
    <3>3. tree.child[Other(ShortSide)][job.parent] # Nil
      BY <2>1, <3>2, SiblingThere
    <3>4. job.parent # Nil
      BY <2>2, <3>2 DEF Deficit
    <3>5. PICK G : AtSibling(BlackSibling, Elements, G, job.parent, ShortSide, job.elm, Sibling)
      BY <2>4, Iteration
    <3>6. Sibling # Nil
      BY <3>5 DEF AtSibling
    <3>q. QED
      BY <3>3, <3>4, <3>6
  <2>q. QED
    BY <2>3, <2>4 DEF NoNullFollowed
<1>q. QED
  BY <1>1, Invariant, PTL

-----------------------------------------------------------------------------
(* The ways from the root to the leaves *)

\* A set that holds no node without its parent holds no node.
LEMMA HighestNode ==
  ASSUME NEW t, NEW E, NEW sub, Shape(t, E, sub), NEW B \in SUBSET E, B # {}
  PROVE  \E n \in B : t.parent[n] \notin B
<1> DEFINE size(n) == Cardinality(sub[n])
           D == {Cardinality(E) - size(n) : n \in B}
<1>1. PICK k \in D : \A e \in D : k <= e
  <2>1. D \subseteq Nat /\ D # {}
    BY Sizes
  <2> HIDE DEF D
  <2>q. QED
    BY <2>1, SmallestExists
<1>2. PICK n \in B : k = Cardinality(E) - size(n)
  OBVIOUS
<1>3. ASSUME t.parent[n] \in B
      PROVE  FALSE
  <2> DEFINE q == t.parent[n]
  <2>1. q \in E /\ \E d \in Sides : t.child[d][q] = n
    BY <1>3, Family, NilFacts DEF Shape, Bounds
  <2>2. size(n) < size(q) /\ size(n) \in Nat /\ size(q) \in Nat /\ Cardinality(E) \in Nat
    BY <2>1, Sizes
  <2>3. k <= Cardinality(E) - size(q)
    BY <1>1, <1>3
  <2> HIDE DEF size, q
  <2>q. QED
    BY <1>2, <2>2, <2>3
<1>q. QED
  BY <1>3

\* A node and the nodes above it.
Ups(E, sub, n) == {k \in E : n \in sub[k]}

UpsStep(t, E, sub, n) ==
  /\ t.parent[n] = Nil => Ups(E, sub, n) = {n}
  /\ t.parent[n] # Nil => /\ Ups(E, sub, n) = {n} \cup Ups(E, sub, t.parent[n])
                          /\ n \notin Ups(E, sub, t.parent[n])

\* The way up from a node is the node, and the way up from its parent.
LEMMA UpsAre ==
  ASSUME NEW t, NEW E, NEW sub, Shape(t, E, sub), NEW n \in E
  PROVE  UpsStep(t, E, sub, n)
<1> DEFINE q == t.parent[n]
<1>1. n \in sub[n] /\ \A k \in E : n \in sub[k] => n = k \/ q \in sub[k]
  BY InItself, ParentInside
<1>2. CASE q = Nil
  <2>1. \A k \in E : Nil \notin sub[k]
    BY NilFacts DEF Shape, Bounds
  <2>q. QED
    BY <1>1, <1>2, <2>1 DEF Ups, UpsStep
<1>3. CASE q # Nil
  <2>1. PICK d \in Sides : q \in E /\ t.child[d][q] = n
    BY <1>3, Family
  <2>2. n \in sub[q]
    BY <1>1, <2>1, InItself
  <2>3. \A k \in E : q \in sub[k] => n \in sub[k]
    BY <2>1, <2>2, Nested
  <2>4. q \notin sub[n]
    BY <2>1, Divided
  <2>q. QED
    BY <1>1, <1>3, <2>3, <2>4 DEF Ups, UpsStep
<1>q. QED
  BY <1>2, <1>3

\* The path of the model is the one from a node to the root.
LEMMA PathIs ==
  ASSUME NEW E, NEW sub, Shape(tree, E, sub), NEW n \in E
  PROVE  Path(n) = Ups(E, sub, n)
<1> DEFINE f == CHOOSE f : f = [m \in Keys |->
                                  {m} \cup (IF tree.parent[m] = Nil THEN {} ELSE f[tree.parent[m]])]
           g == [m \in Keys |-> IF m \in E THEN Ups(E, sub, m) ELSE {m}]
           B == {m \in E : f[m] # Ups(E, sub, m)}
<1>1. E \subseteq Keys /\ Nil \notin Keys /\ \A m \in Keys \ E : tree.parent[m] = Nil
  BY NilFacts DEF Shape, Bounds
<1>2. ASSUME NEW m \in E
      PROVE  /\ UpsStep(tree, E, sub, m)
             /\ tree.parent[m] # Nil => tree.parent[m] \in E
  BY UpsAre, Family
<1>3. g = [m \in Keys |-> {m} \cup (IF tree.parent[m] = Nil THEN {} ELSE g[tree.parent[m]])]
  <2>1. ASSUME NEW m \in Keys
        PROVE  g[m] = {m} \cup (IF tree.parent[m] = Nil THEN {} ELSE g[tree.parent[m]])
    <3>1. CASE m \in E
      <4>1. g[m] = Ups(E, sub, m)
        BY <3>1
      <4>2. tree.parent[m] # Nil => g[tree.parent[m]] = Ups(E, sub, tree.parent[m])
        BY <1>1, <1>2, <3>1
      <4> HIDE DEF g
      <4>q. QED
        BY <1>2, <3>1, <4>1, <4>2 DEF UpsStep
    <3>2. CASE m \notin E
      BY <1>1, <3>2
    <3>q. QED
      BY <3>1, <3>2
  <2> DEFINE G(m) == {m} \cup (IF tree.parent[m] = Nil THEN {} ELSE g[tree.parent[m]])
  <2>2. g = [m \in Keys |-> g[m]]
    OBVIOUS
  <2>3. \A m \in Keys : g[m] = G(m)
    BY <2>1
  <2> HIDE DEF g, G
  <2>4. g = [m \in Keys |-> G(m)]
    BY <2>2, <2>3
  <2>q. QED
    BY <2>4 DEF G
<1>4. f = [m \in Keys |-> {m} \cup (IF tree.parent[m] = Nil THEN {} ELSE f[tree.parent[m]])]
  <2> HIDE DEF g
  <2>q. QED
    BY <1>3
<1>5. Path(n) = f[n]
  BY DEF Path
<1> HIDE DEF f, g
<1>6. \A m \in Keys : f[m] = {m} \cup (IF tree.parent[m] = Nil THEN {} ELSE f[tree.parent[m]])
  BY <1>4
<1>7. B = {}
  <2>1. SUFFICES ASSUME B # {}
                 PROVE  FALSE
    OBVIOUS
  <2>2. PICK m \in B : tree.parent[m] \notin B
    <3>1. B \in SUBSET E
      OBVIOUS
    <3> HIDE DEF B
    <3>q. QED
      BY <2>1, <3>1, HighestNode
  <2>3. m \in E /\ m \in Keys /\ f[m] # Ups(E, sub, m)
    BY <1>1, <2>2
  <2>4. tree.parent[m] # Nil => f[tree.parent[m]] = Ups(E, sub, tree.parent[m])
    BY <1>2, <2>2, <2>3
  <2>5. f[m] = {m} \cup (IF tree.parent[m] = Nil THEN {} ELSE f[tree.parent[m]])
    BY <1>6, <2>3
  <2>6. UpsStep(tree, E, sub, m)
    BY <1>2, <2>3
  <2>7. CASE tree.parent[m] = Nil
    <3>1. f[m] = {m}
      BY <2>5, <2>7
    <3>2. Ups(E, sub, m) = {m}
      BY <2>6, <2>7 DEF UpsStep
    <3>q. QED
      BY <2>3, <3>1, <3>2
  <2>8. CASE tree.parent[m] # Nil
    <3>1. f[m] = {m} \cup f[tree.parent[m]]
      BY <2>5, <2>8
    <3>2. Ups(E, sub, m) = Ups(E, sub, tree.parent[m]) \cup {m}
      BY <2>6, <2>8 DEF UpsStep
    <3>q. QED
      BY <2>3, <2>4, <2>8, <3>1, <3>2
  <2>q. QED
    BY <2>7, <2>8
<1>q. QED
  BY <1>5, <1>7

\* The black nodes of a way down, the height below it, and the black node it is short of add
\* up to the same for all nodes.
Blacks(t, E, sub, n) == Cardinality({m \in Ups(E, sub, n) : ~IsRed(t, m)})
Shorter(E, sub, n, c, p) == IF p # Nil /\ c \in Ups(E, sub, n) THEN 1 ELSE 0
Sum(t, E, sub, H, n, c, p) ==
  Blacks(t, E, sub, n) + H[n] + Shorter(E, sub, n, c, p) = H[t.root] + Weight(t, n)

\* Black nodes are counted along the way up.
LEMMA BlacksAre ==
  ASSUME NEW t, NEW E, NEW sub, Shape(t, E, sub), NEW n \in E
  PROVE  /\ t.parent[n] = Nil => Blacks(t, E, sub, n) = Weight(t, n)
         /\ t.parent[n] # Nil => Blacks(t, E, sub, n) = Blacks(t, E, sub, t.parent[n]) + Weight(t, n)
         /\ Blacks(t, E, sub, n) \in Nat
<1> DEFINE q == t.parent[n]
           S == {m \in Ups(E, sub, n) : ~IsRed(t, m)}
           T == {m \in Ups(E, sub, q) : ~IsRed(t, m)}
<1>1. IsFiniteSet(E) /\ S \in SUBSET E /\ T \in SUBSET E
  BY DEF Shape, Bounds, Ups
<1>2. IsFiniteSet(S) /\ IsFiniteSet(T) /\ Cardinality(S) \in Nat /\ Cardinality(T) \in Nat
  <2> HIDE DEF S, T
  <2>q. QED
    BY <1>1, FS_Subset, FS_CardinalityType
<1>3. UpsStep(t, E, sub, n)
  BY UpsAre
<1>4. Weight(t, n) = IF IsRed(t, n) THEN 0 ELSE 1
  <2>1. n # Nil /\ t.color[n] \in {"red", "black"}
    BY Family, NilFacts DEF Tree
  <2>q. QED
    BY <2>1 DEF Weight, IsRed
<1>5. CASE q = Nil
  <2>1. S = IF IsRed(t, n) THEN {} ELSE {n}
    BY <1>3, <1>5 DEF UpsStep
  <2>2. IsFiniteSet({}) /\ Cardinality({}) = 0 /\ Cardinality({} \cup {n}) = 1
    <3>1. IsFiniteSet({}) /\ Cardinality({}) = 0
      BY FS_EmptySet
    <3>2. n \notin {}
      OBVIOUS
    <3>3. Cardinality({} \cup {n}) = Cardinality({}) + 1
      BY <3>1, <3>2, FS_AddElement
    <3>q. QED
      BY <3>1, <3>3
  <2>3. {} \cup {n} = {n}
    OBVIOUS
  <2>4. Cardinality(S) = Weight(t, n)
    <3> HIDE DEF S
    <3>q. QED
      BY <1>4, <2>1, <2>2, <2>3
  <2>q. QED
    BY <1>2, <1>5, <2>4 DEF Blacks
<1>6. CASE q # Nil
  <2>1. S = (IF IsRed(t, n) THEN T ELSE T \cup {n}) /\ n \notin T
    BY <1>3, <1>6 DEF UpsStep
  <2>2. Cardinality(T \cup {n}) = Cardinality(T) + 1
    <3> HIDE DEF T
    <3>q. QED
      BY <1>2, <2>1, FS_AddElement
  <2>3. Cardinality(S) = Cardinality(T) + Weight(t, n)
    <3> HIDE DEF S, T
    <3>q. QED
      BY <1>2, <1>4, <2>1, <2>2
  <2>q. QED
    BY <1>2, <1>6, <2>3 DEF Blacks
<1>q. QED
  BY <1>5, <1>6

\* The sum holds for every node: by induction along the way down.
LEMMA SumIs ==
  ASSUME NEW t, NEW E, NEW sub, Shape(t, E, sub), NEW p, NEW s, NEW c,
         \/ p = Nil /\ c = t.root
         \/ p \in E /\ s \in Sides /\ t.child[s][p] = c,
         NEW H, Heights(t, E, H, p, s), NEW n \in E
  PROVE  Sum(t, E, sub, H, n, c, p)
<1> DEFINE B == {m \in E : ~Sum(t, E, sub, H, m, c, p)}
<1>1. /\ E \subseteq Keys /\ E \subseteq Links /\ Nil \notin E /\ Nil \in Links /\ Nil \notin Keys
      /\ H \in [Links -> Nat]
      /\ \A m \in E, d \in Sides : H[m] = H[t.child[d][m]] + Weight(t, m) + Gap(m, d, p, s)
  BY NilFacts DEF Heights, Shape, Bounds
<1>2. SUFFICES ASSUME B # {}
               PROVE  FALSE
  OBVIOUS
<1>3. PICK m \in B : t.parent[m] \notin B
  <2>1. B \in SUBSET E
    OBVIOUS
  <2> HIDE DEF B
  <2>q. QED
    BY <1>2, <2>1, HighestNode
<1>4. m \in E /\ ~Sum(t, E, sub, H, m, c, p)
  BY <1>3
<1> DEFINE q == t.parent[m]
<1>5. UpsStep(t, E, sub, m)
  BY <1>4, UpsAre
<1>6. /\ q = Nil => Blacks(t, E, sub, m) = Weight(t, m)
      /\ q # Nil => Blacks(t, E, sub, m) = Blacks(t, E, sub, q) + Weight(t, m)
  BY <1>4, BlacksAre
<1>7. H[m] \in Nat /\ Weight(t, m) \in Nat
  BY <1>1, <1>4 DEF Weight
<1>8. CASE q = Nil
  <2>1. m = t.root
    BY <1>4, <1>8, Family
  <2>2. ~(p # Nil /\ c = m)
    <3>1. SUFFICES ASSUME p # Nil, c = m
                   PROVE  FALSE
      OBVIOUS
    <3>2. t.parent[m] = p
      BY <1>1, <1>4, <3>1, Family
    <3>q. QED
      BY <1>8, <3>1, <3>2
  <2>3. Shorter(E, sub, m, c, p) = 0
    BY <1>5, <1>8, <2>2 DEF Shorter, UpsStep
  <2>q. QED
    BY <1>4, <1>6, <1>7, <1>8, <2>1, <2>3 DEF Sum
<1>9. CASE q # Nil
  <2>1. PICK k \in Sides : q \in E /\ t.child[k][q] = m /\ t.child[Other(k)][q] # m
    BY <1>4, <1>9, Family
  <2>2. Sum(t, E, sub, H, q, c, p)
    BY <1>3, <2>1
  <2>3. H[q] = H[m] + Weight(t, q) + Gap(q, k, p, s)
    BY <1>1, <2>1
  <2>4. p # Nil /\ c = m <=> q = p /\ k = s
    <3>1. p # Nil /\ c = m => t.parent[m] = p
      BY <1>1, <1>4, Family
    <3>2. q = p => p # Nil /\ s \in Sides /\ t.child[s][p] = c
      BY <1>1, <1>9
    <3>3. p # Nil => s \in Sides /\ t.child[s][p] = c
      OBVIOUS
    <3>q. QED
      BY <2>1, <3>1, <3>2, <3>3, SideFacts
  <2>5. Shorter(E, sub, m, c, p) = Shorter(E, sub, q, c, p) + Gap(q, k, p, s)
    <3>1. c \in Ups(E, sub, m) <=> c = m \/ c \in Ups(E, sub, q)
      BY <1>5, <1>9 DEF UpsStep
    <3>2. m \notin Ups(E, sub, q)
      BY <1>5, <1>9 DEF UpsStep
    <3> HIDE DEF q
    <3>q. QED
      BY <2>4, <3>1, <3>2 DEF Shorter, Gap
  <2>6. /\ Blacks(t, E, sub, q) \in Nat /\ H[q] \in Nat /\ Weight(t, q) \in Nat
        /\ Shorter(E, sub, q, c, p) \in Nat /\ Gap(q, k, p, s) \in Nat
    BY <1>1, <2>1, BlacksAre DEF Weight, Shorter, Gap
  <2>7. H[t.root] \in Nat
    BY <1>1 DEF Shape, Bounds
  <2>8. Blacks(t, E, sub, q) + H[q] + Shorter(E, sub, q, c, p) = H[t.root] + Weight(t, q)
    BY <2>2 DEF Sum
  <2>9. Blacks(t, E, sub, m) + H[m] + Shorter(E, sub, m, c, p) = H[t.root] + Weight(t, m)
    <3>1. Blacks(t, E, sub, m) = Blacks(t, E, sub, q) + Weight(t, m)
      BY <1>6, <1>9
    <3> HIDE DEF q
    <3>q. QED
      BY <1>7, <2>3, <2>5, <2>6, <2>7, <2>8, <3>1
  <2>q. QED
    BY <1>4, <2>9 DEF Sum
<1>q. QED
  BY <1>8, <1>9

\* What a way down to a missing child lacks.
Lacks(t, E, sub, p, s, c, n, d) == Gap(n, d, p, s) + Shorter(E, sub, n, c, p)

\* So ways to missing children have the same number of black nodes, but for the one that some lack.
LEMMA LeafSum ==
  ASSUME NEW t, NEW E, NEW sub, Shape(t, E, sub), NEW p, NEW s, NEW c,
         \/ p = Nil /\ c = t.root
         \/ p \in E /\ s \in Sides /\ t.child[s][p] = c,
         NEW H, Heights(t, E, H, p, s), NEW n \in E, NEW d \in Sides, t.child[d][n] = Nil
  PROVE  Blacks(t, E, sub, n) + Lacks(t, E, sub, p, s, c, n, d) = H[t.root] /\ H[t.root] \in Nat
<1>1. Sum(t, E, sub, H, n, c, p)
  BY SumIs
<1>2. Blacks(t, E, sub, n) + H[n] + Shorter(E, sub, n, c, p) = H[t.root] + Weight(t, n)
  BY <1>1 DEF Sum
<1>3. H[n] = 0 + Weight(t, n) + Gap(n, d, p, s)
  BY DEF Heights
<1>4. /\ Blacks(t, E, sub, n) \in Nat /\ Weight(t, n) \in Nat /\ Gap(n, d, p, s) \in Nat
      /\ Shorter(E, sub, n, c, p) \in Nat
  BY BlacksAre DEF Weight, Gap, Shorter
<1>5. H[t.root] \in Nat
  <2>1. t.root \in Links
    BY NilFacts DEF Shape, Bounds
  <2>2. H \in [Links -> Nat]
    BY DEF Heights
  <2>q. QED
    BY <2>1, <2>2
<1>6. Lacks(t, E, sub, p, s, c, n, d) = Gap(n, d, p, s) + Shorter(E, sub, n, c, p)
  BY DEF Lacks
<1>7. Blacks(t, E, sub, n) + (Weight(t, n) + Gap(n, d, p, s)) + Shorter(E, sub, n, c, p)
        = H[t.root] + Weight(t, n)
  <2>1. H[n] = Weight(t, n) + Gap(n, d, p, s)
    BY <1>3, <1>4
  <2>q. QED
    BY <1>2, <2>1
<1>8. Blacks(t, E, sub, n) + (Gap(n, d, p, s) + Shorter(E, sub, n, c, p)) = H[t.root]
  <2> DEFINE b == Blacks(t, E, sub, n)
             w == Weight(t, n)
             g == Gap(n, d, p, s)
             k == Shorter(E, sub, n, c, p)
             h == H[t.root]
  <2>1. b \in Nat /\ w \in Nat /\ g \in Nat /\ k \in Nat /\ h \in Nat
    BY <1>4, <1>5
  <2>2. b + (w + g) + k = h + w
    BY <1>7
  <2>3. SUFFICES b + (g + k) = h
    OBVIOUS
  <2> HIDE DEF b, w, g, k, h
  <2>q. QED
    BY <2>1, <2>2
<1>q. QED
  BY <1>5, <1>6, <1>8

\* The black nodes counted by the model add up, too.
LEMMA AboveIs ==
  ASSUME IInv, Elements # {}
  PROVE  \E N \in Nat : \A n \in Elements, d \in Sides :
           tree.child[d][n] = Nil => BlackAbove(n, d) = N
<1> DEFINE E == Elements
           c == job.elm
           p == job.parent
           short(n, d) == /\ job.at = "remove"
                          /\ IF c = Nil THEN n = p /\ d = ShortSide ELSE c \in Path(n)
<1>1. PICK sub, H : /\ Shape(tree, Elements, sub)
                    /\ \/ Resting(tree, job, Elements, H) \/ Inserting(tree, job, Elements, H)
                       \/ Removing(tree, job, Elements, H)
  BY DEF IInv, Balanced
<1>2. Shape(tree, E, sub) /\ E # {} /\ Nil \notin E /\ tree.root \in E
  BY <1>1, NilFacts DEF Shape, Bounds
<1>3. \A n \in E : Path(n) = Ups(E, sub, n)
  BY <1>1, PathIs
<1>4. \A n \in E, d \in Sides : BlackAbove(n, d) = Blacks(tree, E, sub, n) + IF short(n, d) THEN 1 ELSE 0
  BY <1>3 DEF BlackAbove, Blacks
<1>5. \A n \in E : Blacks(tree, E, sub, n) \in Nat
  BY <1>2, BlacksAre
<1> HIDE DEF E
<1>6. CASE Resting(tree, job, E, H) \/ Inserting(tree, job, E, H)
  <2>1. Heights(tree, E, H, Nil, "L") /\ job.at # "remove"
    BY <1>6 DEF Resting, Inserting, Idle
  <2>2. ASSUME NEW n \in E, NEW d \in Sides, tree.child[d][n] = Nil
        PROVE  BlackAbove(n, d) = H[tree.root] /\ H[tree.root] \in Nat
    <3>1. Blacks(tree, E, sub, n) + Lacks(tree, E, sub, Nil, "L", tree.root, n, d) = H[tree.root]
          /\ H[tree.root] \in Nat
      BY <1>2, <2>1, <2>2, LeafSum
    <3>2. Lacks(tree, E, sub, Nil, "L", tree.root, n, d) = 0
      BY <1>2 DEF Lacks, Gap, Shorter
    <3>q. QED
      BY <1>4, <1>5, <2>1, <3>1, <3>2
  <2>3. H[tree.root] \in Nat
    BY <1>2, <2>1 DEF Heights, Shape, Bounds, Links
  <2>q. QED
    BY <2>2, <2>3 DEF E
<1>7. CASE Removing(tree, job, E, H) /\ p = Nil
  <2>1. job.at = "remove" /\ c = tree.root /\ Heights(tree, E, H, Nil, "L")
    BY <1>2, <1>7 DEF Removing
  <2>2. ASSUME NEW n \in E, NEW d \in Sides, tree.child[d][n] = Nil
        PROVE  BlackAbove(n, d) = H[tree.root] + 1
    <3>1. Blacks(tree, E, sub, n) + Lacks(tree, E, sub, Nil, "L", tree.root, n, d) = H[tree.root]
          /\ H[tree.root] \in Nat
      BY <1>2, <2>1, <2>2, LeafSum
    <3>2. Lacks(tree, E, sub, Nil, "L", tree.root, n, d) = 0
      BY <1>2 DEF Lacks, Gap, Shorter
    <3>3. short(n, d)
      BY <1>2, <1>3, <2>1 DEF Ups, Shape
    <3>q. QED
      BY <1>4, <1>5, <3>1, <3>2, <3>3
  <2>3. H[tree.root] + 1 \in Nat
    BY <1>2, <2>1 DEF Heights, Shape, Bounds, Links
  <2>q. QED
    BY <2>2, <2>3 DEF E
<1>8. CASE Removing(tree, job, E, H) /\ p # Nil
  <2>1. job.at = "remove" /\ p \in E
    BY <1>8 DEF Removing
  <2>2. PICK s \in Sides : /\ tree.child[s][p] = c /\ Heights(tree, E, H, p, s)
                           /\ c = Nil => s = ShortSide
    <3>1. CASE c = Nil
      <4>1. Deficit(tree, E, H, p, ShortSide, c)
        BY <1>2, <1>8, <3>1, ShortAt DEF IsRed, ShortSide
      <4>q. QED
        BY <4>1 DEF Deficit
    <3>2. CASE c # Nil
      BY <1>8, <3>2 DEF Removing
    <3>q. QED
      BY <3>1, <3>2
  <2>3. ASSUME NEW n \in E, NEW d \in Sides, tree.child[d][n] = Nil
        PROVE  BlackAbove(n, d) = H[tree.root]
    <3>1. Blacks(tree, E, sub, n) + Lacks(tree, E, sub, p, s, c, n, d) = H[tree.root]
          /\ H[tree.root] \in Nat
      BY <1>2, <2>1, <2>2, <2>3, LeafSum
    <3>2. Lacks(tree, E, sub, p, s, c, n, d) = IF short(n, d) THEN 1 ELSE 0
      <4>1. c = Nil => c \notin Ups(E, sub, n)
        BY <1>2 DEF Ups
      <4>2. c # Nil => ~(n = p /\ d = s)
        BY <2>2, <2>3
      <4>q. QED
        BY <1>3, <1>8, <2>1, <2>2, <4>1, <4>2 DEF Lacks, Gap, Shorter
    <3>q. QED
      BY <1>4, <3>1, <3>2
  <2>4. H[tree.root] \in Nat
    BY <1>2, <2>2 DEF Heights, Shape, Bounds, Links
  <2>q. QED
    BY <2>3, <2>4 DEF E
<1>q. QED
  BY <1>1, <1>6, <1>7, <1>8 DEF E

\* "every search path from the root to a leaf consists of the same number of black nodes",
\* with the one that a place under repair is short of.
THEOREM BlackHeights == Spec => []SameBlackHeight
<1>1. IInv => SameBlackHeight
  <2> SUFFICES ASSUME IInv, NEW n \in Elements, NEW m \in Elements, NEW d \in Sides, NEW e \in Sides,
                      tree.child[d][n] = Nil, tree.child[e][m] = Nil
               PROVE  BlackAbove(n, d) = BlackAbove(m, e)
    BY DEF SameBlackHeight
  <2>1. PICK N \in Nat : \A x \in Elements, k \in Sides :
                           tree.child[k][x] = Nil => BlackAbove(x, k) = N
    BY AboveIs
  <2>q. QED
    BY <2>1
<1>q. QED
  BY <1>1, Invariant, PTL

-----------------------------------------------------------------------------
(* The first key of a set on the way to a side *)

IsFirst(S, d, m) ==
  \/ S = {} /\ m = Nil
  \/ m \in S /\ \A y \in S : y = m \/ Side(y, m) = d

\* The keys of S to side d of n.
Further(S, n, d) == {x \in S : x # n /\ Side(x, n) = d}

\* What the contract calls the first key.
LEMMA FirstIs ==
  ASSUME NEW S, S \subseteq Keys, NEW d \in Sides, NEW m, IsFirst(S, d, m)
  PROVE  Set!First(S, d) = m
<1>1. CASE S = {}
  BY <1>1 DEF IsFirst, Set!First
<1>2. CASE S # {}
  <2> DEFINE best(x) == \A y \in S : IF d = "R" THEN x <= y ELSE x >= y
  <2>1. m \in S /\ m \in Int /\ \A y \in S : y \in Int /\ (y = m \/ Side(y, m) = d)
    BY <1>2, KeysAssumption DEF IsFirst
  <2>2. d = "L" \/ d = "R"
    BY DEF Sides
  <2>3. best(m)
    BY <2>1, <2>2 DEF Side
  <2>4. \A x \in S : best(x) => x = m
    BY <2>1, <2>3
  <2>5. Set!First(S, d) = CHOOSE x \in S : best(x)
    BY <1>2 DEF Set!First
  <2> HIDE DEF best
  <2>q. QED
    BY <2>1, <2>3, <2>4, <2>5
<1>q. QED
  BY <1>1, <1>2

\* Sides in terms of the order.
LEMMA FurtherIs ==
  ASSUME NEW S, S \subseteq Keys, NEW n \in Keys, NEW d \in Sides
  PROVE  Further(S, n, d) = {x \in S : IF d = "R" THEN x > n ELSE x < n}
<1>1. \A x \in S : x \in Int /\ n \in Int
  BY KeysAssumption
<1>q. QED
  BY <1>1 DEF Further, Side, Sides

-----------------------------------------------------------------------------
(* RB_FIND, RB_MIN and RB_MAX *)

\* RB_FIND finds what is in the tree.
LEMMA FindIs ==
  ASSUME NEW t, NEW E, NEW sub, Shape(t, E, sub), NEW e \in Keys
  PROVE  Find(t, e) = IF e \in E THEN e ELSE Nil
<1>1. e \in E => Place(t, e) = e
  BY PlaceOf
<1>2. e \notin E => Place(t, e) # e
  <2>1. e # Nil
    BY NilFacts
  <2>q. QED
    BY <2>1, PlaceOf
<1>q. QED
  BY <1>1, <1>2 DEF Find

\* RB_MINMAX answers with the first key on the way.
LEMMA MinMaxIs ==
  ASSUME NEW t, NEW E, NEW sub, Shape(t, E, sub), NEW d \in Sides
  PROVE  IsFirst(E, d, MinMax(t, d))
<1>1. CASE t.root = Nil
  <2>1. E = {}
    BY <1>1 DEF Shape
  <2>q. QED
    BY <1>1, <2>1 DEF IsFirst, MinMax, Outermost
<1>2. CASE t.root # Nil
  <2> DEFINE s == Outermost(t, t.root, Other(d))
  <2>1. t.root \in E /\ sub[t.root] = E /\ Other(d) \in Sides /\ Other(Other(d)) = d
    BY <1>2, SideFacts DEF Shape, Bounds
  <2>2. s \in E /\ \A y \in E : y = s \/ Side(y, s) = d
    BY <2>1, OutermostOf
  <2>3. MinMax(t, d) = s
    BY DEF MinMax
  <2> HIDE DEF s
  <2>q. QED
    BY <2>2, <2>3 DEF IsFirst
<1>q. QED
  BY <1>1, <1>2

-----------------------------------------------------------------------------
(* RB_NFIND *)

\* The keys below n that are not below e.
NotLess(sub, n, e) == {x \in sub[n] : x >= e}

\* Every part of a tree has such a key that is the least, if it has one.
LEMMA LeastExists ==
  ASSUME NEW S, S \subseteq Keys, NEW e \in Keys, \A x \in S : x >= e
  PROVE  \E m \in Links : IsFirst(S, "R", m)
<1>1. CASE S = {}
  BY <1>1, NilFacts DEF IsFirst
<1>2. CASE S # {}
  <2> DEFINE D == {x - e : x \in S}
  <2>1. \A x \in S : x \in Int /\ e \in Int /\ x - e \in Nat
    BY KeysAssumption
  <2>2. D \subseteq Nat /\ D # {}
    BY <1>2, <2>1
  <2>3. PICK k \in D : \A j \in D : k <= j
    <3> HIDE DEF D
    <3>q. QED
      BY <2>2, SmallestExists
  <2>4. PICK m \in S : k = m - e
    OBVIOUS
  <2>5. \A y \in S : y = m \/ Side(y, m) = "R"
    <3>1. ASSUME NEW y \in S
          PROVE  m <= y
      <4>1. m - e <= y - e
        BY <2>3, <2>4
      <4>q. QED
        BY <2>1, <4>1
    <3>q. QED
      BY <2>1, <3>1 DEF Side
  <2>q. QED
    BY <2>5, NilFacts DEF IsFirst
<1>q. QED
  BY <1>1, <1>2

\* The answer of a search that came to n with res at hand.
Answer(sub, e, n, res, m) ==
  IF NotLess(sub, n, e) = {} THEN m = res ELSE IsFirst(NotLess(sub, n, e), "R", m)

\* f is the search for e.
NFinds(f, t, e) ==
  f = [at \in Links \X Links |->
         LET n == at[1] IN
         IF n = Nil THEN at[2]
         ELSE IF e = n THEN n
         ELSE f[<<t.child[Side(e, n)][n], IF e < n THEN n ELSE at[2]>>]]

\* Where the search goes on, for the keys in question.
LEMMA NFindDown ==
  ASSUME NEW t, NEW E, NEW sub, Shape(t, E, sub), NEW n \in E, NEW e \in Keys, e # n,
         NEW c, c = t.child[Side(e, n)][n], NEW res, NEW m,
         Answer(sub, e, c, IF e < n THEN n ELSE res, m)
  PROVE  Answer(sub, e, n, res, m)
<1>1. /\ n \in Int /\ e \in Int /\ n \in Keys /\ "L" \in Sides /\ "R" \in Sides
      /\ sub[n] = {n} \cup sub[t.child["L"][n]] \cup sub[t.child["R"][n]]
      /\ \A d \in Sides : \A x \in sub[t.child[d][n]] : x # n /\ Side(x, n) = d
      /\ \A x \in sub[n] : x \in Int
  <2>1. sub[n] \subseteq Keys /\ n \in Keys
    BY InItself, NilFacts DEF Shape, Bounds
  <2>q. QED
    BY <2>1, KeysAssumption, SideFacts DEF Shape, Divides
<1>2. CASE e < n
  <2>1. c = t.child["L"][n]
    BY <1>2 DEF Side
  <2>2. \A x \in sub[t.child["R"][n]] : x > n
    BY <1>1 DEF Side
  <2>3. \A x \in sub[c] : x < n
    BY <1>1, <2>1 DEF Side
  <2>4. n \in NotLess(sub, n, e) /\ NotLess(sub, c, e) \subseteq NotLess(sub, n, e)
    BY <1>1, <1>2, <2>1 DEF NotLess
  <2>5. CASE NotLess(sub, c, e) = {}
    <3>1. m = n
      BY <1>2, <2>5 DEF Answer
    <3>2. \A y \in NotLess(sub, n, e) : y = n \/ y > n
      BY <1>1, <2>1, <2>2, <2>5 DEF NotLess
    <3>3. \A y \in NotLess(sub, n, e) : y = m \/ Side(y, m) = "R"
      BY <1>1, <3>1, <3>2 DEF NotLess, Side
    <3>q. QED
      BY <2>4, <3>1, <3>3 DEF Answer, IsFirst
  <2>6. CASE NotLess(sub, c, e) # {}
    <3>1. m \in NotLess(sub, c, e) /\ \A y \in NotLess(sub, c, e) : y = m \/ Side(y, m) = "R"
      BY <2>6 DEF Answer, IsFirst
    <3>2. m \in Int /\ m < n
      BY <1>1, <2>1, <2>3, <3>1 DEF NotLess
    <3>3. ASSUME NEW y \in NotLess(sub, n, e)
          PROVE  y = m \/ Side(y, m) = "R"
      <4>1. y \in NotLess(sub, c, e) \/ y = n \/ y > n
        BY <1>1, <2>1, <2>2 DEF NotLess
      <4>2. y \in Int
        BY <1>1 DEF NotLess
      <4>q. QED
        BY <1>1, <3>1, <3>2, <4>1, <4>2 DEF Side
    <3>q. QED
      BY <2>4, <3>1, <3>3 DEF Answer, IsFirst
  <2>q. QED
    BY <2>5, <2>6
<1>3. CASE ~(e < n)
  <2>1. c = t.child["R"][n] /\ n < e
    BY <1>1, <1>3 DEF Side
  <2>2. \A x \in sub[t.child["L"][n]] : x < n
    BY <1>1 DEF Side
  <2>3. NotLess(sub, n, e) = NotLess(sub, c, e)
    BY <1>1, <2>1, <2>2 DEF NotLess
  <2>q. QED
    BY <1>3, <2>3 DEF Answer
<1>q. QED
  BY <1>2, <1>3

\* There is only one answer.
LEMMA OneAnswer ==
  ASSUME NEW t, NEW E, NEW sub, Shape(t, E, sub), NEW n \in Links, NEW e, NEW res,
         NEW m, Answer(sub, e, n, res, m), NEW k, Answer(sub, e, n, res, k)
  PROVE  m = k
<1>1. NotLess(sub, n, e) \subseteq Keys /\ "R" \in Sides
  BY SideFacts DEF NotLess, Shape, Bounds
<1>q. QED
  BY <1>1, FirstIs DEF Answer

\* At e itself the answer is e, and no key is left below a missing child.
LEMMA NFindStops ==
  ASSUME NEW t, NEW E, NEW sub, Shape(t, E, sub), NEW e \in Keys, NEW res
  PROVE  /\ e \in E => Answer(sub, e, e, res, e)
         /\ Answer(sub, e, Nil, res, res)
<1>1. Answer(sub, e, Nil, res, res)
  BY DEF Answer, NotLess, Shape
<1>2. ASSUME e \in E
      PROVE  Answer(sub, e, e, res, e)
  <2>1. e \in sub[e] /\ sub[e] \subseteq Keys
    BY <1>2, InItself, NilFacts DEF Shape, Bounds
  <2>2. e \in Int /\ \A x \in sub[e] : x \in Int
    BY <2>1, KeysAssumption
  <2>3. e \in NotLess(sub, e, e) /\ \A x \in NotLess(sub, e, e) : x \in Int /\ x >= e
    BY <2>1, <2>2 DEF NotLess
  <2>q. QED
    BY <2>2, <2>3 DEF Answer, IsFirst, Side
<1>q. QED
  BY <1>1, <1>2

\* The search ends.
LEMMA NFindExists ==
  ASSUME NEW t, NEW E, NEW sub, Shape(t, E, sub), NEW e \in Keys
  PROVE  \E f : NFinds(f, t, e)
<1> DEFINE A(n, res, m) == Answer(sub, e, n, res, m)
           G(n, res) == IF n \in E THEN CHOOSE m \in Links : A(n, res, m)
                        ELSE IF n = Nil THEN res
                        ELSE IF e = n THEN n ELSE IF e < n THEN n ELSE res
           g == [at \in Links \X Links |-> G(at[1], at[2])]
           R(n, res) == IF n = Nil THEN res
                        ELSE IF e = n THEN n
                        ELSE g[<<t.child[Side(e, n)][n], IF e < n THEN n ELSE res>>]
<1>1. /\ Nil \notin E /\ Nil \notin Keys /\ Nil \in Links /\ E \subseteq Keys /\ Keys \subseteq Links
      /\ \A n \in Keys : t.child[Side(e, n)][n] \in Links
      /\ \A n \in Keys \ E : t.child[Side(e, n)][n] = Nil
  BY NilFacts, SideFacts DEF Shape, Bounds, Tree
<1>2. ASSUME NEW n \in E, NEW res \in Links
      PROVE  \E m \in Links : A(n, res, m)
  <2>1. NotLess(sub, n, e) \subseteq Keys /\ \A x \in NotLess(sub, n, e) : x >= e
    BY <1>1 DEF NotLess, Shape
  <2>2. \E m \in Links : IsFirst(NotLess(sub, n, e), "R", m)
    BY <2>1, LeastExists
  <2>q. QED
    BY <2>2 DEF Answer
<1>3. ASSUME NEW n \in Links, NEW res \in Links
      PROVE  g[<<n, res>>] = G(n, res)
  <2> HIDE DEF G
  <2>q. QED
    OBVIOUS
<1>4. ASSUME NEW n \in E \cup {Nil}, NEW res \in Links
      PROVE  A(n, res, g[<<n, res>>])
  <2>1. CASE n = Nil
    <3>1. g[<<n, res>>] = res
      BY <1>1, <1>3, <2>1
    <3> HIDE DEF g
    <3>q. QED
      BY <2>1, <3>1, NFindStops
  <2>2. CASE n # Nil
    <3>1. g[<<n, res>>] = CHOOSE m \in Links : A(n, res, m)
      BY <1>1, <1>3, <2>2
    <3>2. \E m \in Links : A(n, res, m)
      BY <1>2, <2>2
    <3> HIDE DEF g, A
    <3>q. QED
      BY <3>1, <3>2
  <2>q. QED
    BY <2>1, <2>2
<1> HIDE DEF g
<1>5. ASSUME NEW n \in Links, NEW res \in Links
      PROVE  g[<<n, res>>] = R(n, res)
  <2>1. CASE n \in E
    <3>1. A(n, res, R(n, res))
      <4>1. CASE e = n
        BY <1>1, <2>1, <4>1, NFindStops
      <4>2. CASE e # n
        <5> DEFINE c == t.child[Side(e, n)][n]
                   r == IF e < n THEN n ELSE res
        <5>1. c \in E \cup {Nil} /\ r \in Links
          BY <1>1, <2>1, Family, SideFacts
        <5>2. A(c, r, g[<<c, r>>])
          BY <1>4, <5>1
        <5>3. R(n, res) = g[<<c, r>>]
          BY <1>1, <2>1, <4>2
        <5>4. A(n, res, g[<<c, r>>])
          BY <2>1, <4>2, <5>2, NFindDown
        <5>q. QED
          BY <5>3, <5>4
      <4>q. QED
        BY <4>1, <4>2
    <3>2. A(n, res, g[<<n, res>>])
      BY <1>4, <2>1
    <3> HIDE DEF R
    <3>q. QED
      BY <3>1, <3>2, OneAnswer
  <2>2. CASE n = Nil
    BY <1>1, <1>3, <2>2
  <2>3. CASE n \notin E /\ n # Nil
    <3>1. n \in Keys /\ t.child[Side(e, n)][n] = Nil
      BY <1>1, <2>3 DEF Links
    <3>2. g[<<n, res>>] = IF e = n THEN n ELSE IF e < n THEN n ELSE res
      BY <1>3, <2>3
    <3>3. \A r \in Links : g[<<Nil, r>>] = r
      BY <1>1, <1>3
    <3>q. QED
      BY <1>1, <2>3, <3>1, <3>2, <3>3
  <2>q. QED
    BY <2>1, <2>2, <2>3
<1>6. g = [at \in Links \X Links |-> R(at[1], at[2])]
  <2>1. g = [at \in Links \X Links |-> g[at]]
    BY DEF g
  <2>2. ASSUME NEW at \in Links \X Links
        PROVE  g[at] = R(at[1], at[2])
    <3>1. at = <<at[1], at[2]>> /\ at[1] \in Links /\ at[2] \in Links
      OBVIOUS
    <3> HIDE DEF R
    <3>q. QED
      BY <1>5, <3>1
  <2> HIDE DEF R
  <2>q. QED
    BY <2>1, <2>2
<1>7. NFinds(g, t, e)
  BY <1>6 DEF NFinds
<1>q. QED
  BY <1>7

\* RB_NFIND answers with the least key that is not less than e.
LEMMA NFindIs ==
  ASSUME NEW t, NEW E, NEW sub, Shape(t, E, sub), NEW e \in Keys
  PROVE  IsFirst({x \in E : x >= e}, "R", NFind(t, e))
<1> DEFINE f == CHOOSE f : NFinds(f, t, e)
           Good(n) == \A res \in Links : Answer(sub, e, n, res, f[<<n, res>>])
           B == {n \in E : ~Good(n)}
<1>1. NFinds(f, t, e)
  BY NFindExists
<1>2. NFind(t, e) = f[<<t.root, Nil>>]
  BY DEF NFind, NFinds
<1> HIDE DEF f
<1>3. /\ Nil \notin E /\ Nil \in Links /\ E \subseteq Links /\ t.root \in Links
      /\ t.root # Nil => t.root \in E
  BY NilFacts DEF Shape, Bounds
<1>4. ASSUME NEW n \in Links, NEW res \in Links
      PROVE  f[<<n, res>>] = IF n = Nil THEN res
                             ELSE IF e = n THEN n
                             ELSE f[<<t.child[Side(e, n)][n], IF e < n THEN n ELSE res>>]
  BY <1>1 DEF NFinds
<1>5. Good(Nil)
  <2>1. ASSUME NEW res \in Links
        PROVE  f[<<Nil, res>>] = res
    BY <1>3, <1>4
  <2>q. QED
    BY <2>1, NFindStops
<1>6. B = {}
  <2>1. SUFFICES ASSUME B # {}
                 PROVE  FALSE
    OBVIOUS
  <2>2. PICK n \in B : \A d \in Sides : t.child[d][n] \notin B
    <3>1. B \in SUBSET E
      OBVIOUS
    <3> HIDE DEF B
    <3>q. QED
      BY <2>1, <3>1, LowestNode
  <2>3. PICK res \in Links : ~Answer(sub, e, n, res, f[<<n, res>>])
    BY <2>2
  <2> DEFINE c == t.child[Side(e, n)][n]
             r == IF e < n THEN n ELSE res
  <2>4. n \in E /\ n \in Links /\ n # Nil /\ r \in Links
    BY <1>3, <2>2
  <2>5. e # n
    <3>1. e = n => f[<<n, res>>] = e
      BY <1>4, <2>4
    <3>q. QED
      BY <2>3, <2>4, <3>1, NFindStops
  <2>6. f[<<n, res>>] = f[<<c, r>>]
    BY <1>4, <2>4, <2>5
  <2>7. Good(c)
    <3>1. c = Nil \/ c \in E
      BY <2>4, Family, SideFacts
    <3>2. c \notin B
      BY <2>2, SideFacts
    <3>q. QED
      BY <1>5, <3>1, <3>2
  <2>8. Answer(sub, e, c, r, f[<<n, res>>])
    BY <2>4, <2>6, <2>7
  <2>9. Answer(sub, e, n, res, f[<<n, res>>])
    <3> HIDE DEF c
    <3>1. c = t.child[Side(e, n)][n]
      BY DEF c
    <3>q. QED
      BY <2>4, <2>5, <2>8, <3>1, NFindDown
  <2>q. QED
    BY <2>3, <2>9
<1>7. Answer(sub, e, t.root, Nil, NFind(t, e))
  BY <1>2, <1>3, <1>5, <1>6
<1>8. NotLess(sub, t.root, e) = {x \in E : x >= e}
  BY DEF NotLess, Shape
<1>q. QED
  BY <1>7, <1>8 DEF Answer, IsFirst

-----------------------------------------------------------------------------
(* RB_NEXT and RB_PREV *)

\* The keys of the tree beyond all keys below m, to side d.
Past(E, sub, m, d) == {x \in E \ sub[m] : Side(x, m) = d}

\* f is the way up from a node, to the first that it reaches from side Other(d).
GoesUp(f, t, d) ==
  f = [m \in Keys |-> LET p == t.parent[m]
                      IN IF p # Nil /\ m = t.child[d][p] THEN f[p] ELSE p]

\* The way up ends.
LEMMA UpExists ==
  ASSUME NEW t, NEW E, NEW sub, Shape(t, E, sub), NEW d \in Sides
  PROVE  \E f : GoesUp(f, t, d)
<1> DEFINE size(m) == Cardinality(sub[m])
           rank == [m \in Keys |-> IF m \in E THEN Cardinality(E) - size(m) ELSE 0]
           next == t.parent
           stop == {m \in Keys : ~(next[m] # Nil /\ m = t.child[d][next[m]])}
           out == next
           bound == Cardinality(E) + 1
<1>1. Cardinality(E) \in Nat /\ \A m \in E : size(m) \in Nat /\ size(m) <= Cardinality(E)
  BY Sizes
<1>2. rank \in [Keys -> Nat] /\ bound \in Nat /\ \A m \in Keys : rank[m] < bound
  <2> HIDE DEF size
  <2>q. QED
    BY <1>1
<1>3. ASSUME NEW m \in Keys, m \notin stop
      PROVE  next[m] \in Keys /\ rank[next[m]] < rank[m]
  <2>1. m \in E /\ next[m] \in E /\ next[m] \in Keys /\ m = t.child[d][next[m]]
    BY <1>3, Family, NilFacts DEF Shape, Bounds
  <2>2. size(m) < size(next[m])
    BY <2>1, Sizes
  <2> HIDE DEF size
  <2>q. QED
    BY <1>1, <2>1, <2>2
<1>4. Descends(rank, bound, stop, next)
  BY <1>2, <1>3 DEF Descends
<1>5. PICK g : WalkEnd(g, stop, out, next)
  BY <1>4, WalkExists
<1>6. ASSUME NEW m \in Keys
      PROVE  g[m] = LET p == t.parent[m] IN IF p # Nil /\ m = t.child[d][p] THEN g[p] ELSE p
  BY <1>5 DEF WalkEnd
<1>q. QED
  BY <1>5, <1>6 DEF WalkEnd, GoesUp

\* One step up from m, whose parent is p: from the far side nothing is between them, from
\* the near side p is the next key.
LEMMA UpStep ==
  ASSUME NEW t, NEW E, NEW sub, Shape(t, E, sub), NEW m \in E, NEW d \in Sides,
         NEW p, p = t.parent[m]
  PROVE  /\ p = Nil => Past(E, sub, m, d) = {}
         /\ p # Nil /\ m = t.child[d][p] => p \in E /\ Past(E, sub, m, d) = Past(E, sub, p, d)
         /\ p # Nil /\ m # t.child[d][p] => IsFirst(Past(E, sub, m, d), d, p)
<1> DEFINE o == Other(d)
<1>1. /\ E \subseteq Keys /\ E \subseteq Int /\ Nil \notin E
      /\ d \in Sides /\ o \in Sides /\ o # d /\ Other(o) = d /\ Sides = {"L", "R"}
      /\ m \in sub[m] /\ \A x : Side(x, m) \in Sides
  BY InItself, SideFacts, NilFacts, KeysAssumption DEF Shape, Bounds, Sides
<1>2. CASE p = Nil
  <2>1. m = t.root
    <3>1. t.parent[m] = Nil
      BY <1>2
    <3>q. QED
      BY <3>1, Family
  <2>2. sub[m] = E
    BY <2>1 DEF Shape
  <2>q. QED
    BY <1>2, <2>2 DEF Past
<1>3. CASE p # Nil
  <2>1. PICK k \in Sides : p \in E /\ t.child[k][p] = m /\ t.child[Other(k)][p] # m
    BY <1>3, Family
  <2>2. /\ sub[p] = {p} \cup sub[t.child[d][p]] \cup sub[t.child[o][p]]
        /\ p \in sub[p] /\ sub[m] \subseteq sub[p] /\ p \notin sub[m]
        /\ \A x \in sub[t.child[d][p]] : x # p /\ Side(x, p) = d
        /\ \A x \in sub[t.child[o][p]] : x # p /\ Side(x, p) = o
    BY <1>1, <2>1, Divided, InItself
  <2>3. m \in sub[p] /\ sub[p] \subseteq E
    <3>1. p \in Links
      BY <1>1, <2>1, NilFacts
    <3>q. QED
      BY <1>1, <2>2, <3>1 DEF Shape
  <2>4. ASSUME NEW x \in E, x \notin sub[p]
        PROVE  Side(x, m) = Side(x, p)
    BY <2>1, <2>3, <2>4, Outside
  <2>5. CASE k = d
    <3>1. m = t.child[d][p] /\ Side(m, p) = d /\ m # p
      BY <1>1, <2>1, <2>2, <2>5
    <3>2. Side(p, m) = o
      <4>1. m \in Keys /\ p \in Keys
        BY <1>1, <2>1, <2>3
      <4>2. Side(p, m) = Other(Side(m, p))
        BY <3>1, <4>1, SideOrder
      <4>q. QED
        BY <3>1, <4>2
    <3>3. ASSUME NEW x \in sub[t.child[o][p]]
          PROVE  Side(x, m) = o
      <4>1. x \in E /\ x # p /\ Side(x, p) = o
        BY <2>2, <2>3
      <4>2. x \in Keys /\ p \in Keys /\ m \in Keys /\ p # m /\ Side(x, p) = Side(p, m)
        BY <1>1, <2>1, <3>1, <3>2, <4>1
      <4>3. Side(x, m) = Side(x, p)
        BY <4>1, <4>2, SideOrder
      <4>q. QED
        BY <4>1, <4>3
    <3>4. \A x \in sub[p] : x \in sub[m] \/ Side(x, m) # d
      BY <1>1, <2>2, <3>1, <3>2, <3>3
    <3>5. Past(E, sub, m, d) = Past(E, sub, p, d)
      BY <2>2, <2>4, <3>4 DEF Past
    <3>q. QED
      BY <1>3, <2>1, <3>1, <3>5
  <2>6. CASE k # d
    <3>1. k = o /\ m = t.child[o][p] /\ t.child[d][p] # m
      BY <1>1, <2>1, <2>6, SideFacts
    <3>2. Side(m, p) = o /\ m # p
      BY <1>1, <2>2, <3>1
    <3>3. Side(p, m) = d
      <4>1. m \in Keys /\ p \in Keys
        BY <1>1, <2>1, <2>3
      <4>2. Side(p, m) = Other(Side(m, p))
        BY <3>2, <4>1, SideOrder
      <4>q. QED
        BY <1>1, <3>2, <4>2
    <3>4. p \in Past(E, sub, m, d)
      BY <2>1, <2>2, <3>3 DEF Past
    <3>5. ASSUME NEW y \in Past(E, sub, m, d)
          PROVE  y = p \/ Side(y, p) = d
      <4>1. y \in E /\ y \notin sub[m] /\ Side(y, m) = d
        BY DEF Past
      <4>2. CASE y \in sub[p]
        BY <2>2, <3>1, <4>1, <4>2
      <4>3. CASE y \notin sub[p]
        BY <2>4, <4>1, <4>3
      <4>q. QED
        BY <4>2, <4>3
    <3>q. QED
      BY <1>3, <3>1, <3>4, <3>5 DEF IsFirst
  <2>q. QED
    BY <2>5, <2>6
<1>q. QED
  BY <1>2, <1>3

\* RB_NEXT and RB_PREV answer with the next key on either side.
LEMMA NeighbourIs ==
  ASSUME NEW t, NEW E, NEW sub, Shape(t, E, sub), NEW n \in E, NEW d \in Sides
  PROVE  IsFirst(Further(E, n, d), d, Neighbour(t, n, d))
<1> DEFINE o == Other(d)
           c == t.child[d][n]
           x == Neighbour(t, n, d)
<1>1. /\ E \subseteq Keys /\ n \in Keys /\ Nil \notin E
      /\ o \in Sides /\ o # d /\ Other(o) = d
      /\ sub[n] = {n} \cup sub[c] \cup sub[t.child[o][n]]
      /\ \A y \in sub[c] : y # n /\ Side(y, n) = d
      /\ \A y \in sub[t.child[o][n]] : y # n /\ Side(y, n) = o
  BY Family, SideFacts, Divided, NilFacts
<1>2. sub[n] \subseteq E /\ n \in sub[n]
  <2>1. n \in Links
    BY <1>1, NilFacts
  <2>q. QED
    BY <2>1, InItself DEF Shape
<1>3. CASE c # Nil
  <2>1. c \in E
    BY <1>3, Family
  <2>2. x = Outermost(t, c, o)
    BY <1>3 DEF Neighbour
  <2> HIDE DEF x
  <2>3. x \in sub[c] /\ \A y \in sub[c] : y = x \/ Side(y, x) = d
    <3> HIDE DEF c, o
    <3>q. QED
      BY <1>1, <2>1, <2>2, OutermostOf
  <2>4. x \in E /\ x \in sub[n] /\ x \in Further(E, n, d)
    BY <1>1, <1>2, <2>3 DEF Further
  <2>5. ASSUME NEW y \in Further(E, n, d)
        PROVE  y = x \/ Side(y, x) = d
    <3>1. y \in E /\ y # n /\ Side(y, n) = d
      BY DEF Further
    <3>2. CASE y \in sub[n]
      BY <1>1, <2>3, <3>1, <3>2
    <3>3. CASE y \notin sub[n]
      <4>1. Side(y, x) = Side(y, n)
        BY <2>4, <3>1, <3>3, Outside
      <4>q. QED
        BY <3>1, <4>1
    <3>q. QED
      BY <3>2, <3>3
  <2>q. QED
    BY <2>4, <2>5 DEF IsFirst, x
<1>4. CASE c = Nil
  <2> DEFINE f == CHOOSE f : GoesUp(f, t, d)
             Good(m) == IsFirst(Past(E, sub, m, d), d, f[m])
             B == {m \in E : ~Good(m)}
  <2>1. GoesUp(f, t, d)
    BY UpExists
  <2>2. x = f[n]
    BY <1>4 DEF Neighbour, GoesUp
  <2> HIDE DEF f, x
  <2>3. ASSUME NEW m \in Keys
        PROVE  LET p == t.parent[m] IN f[m] = IF p # Nil /\ m = t.child[d][p] THEN f[p] ELSE p
    BY <2>1 DEF GoesUp
  <2>4. B = {}
    <3>1. SUFFICES ASSUME B # {}
                   PROVE  FALSE
      OBVIOUS
    <3>2. PICK m \in B : t.parent[m] \notin B
      <4>1. B \in SUBSET E
        OBVIOUS
      <4> HIDE DEF B
      <4>q. QED
        BY <3>1, <4>1, HighestNode
    <3> DEFINE p == t.parent[m]
    <3>3. m \in E /\ m \in Keys /\ ~Good(m) /\ f[m] = IF p # Nil /\ m = t.child[d][p] THEN f[p] ELSE p
      BY <1>1, <2>3, <3>2
    <3>4. p \in E => Good(p)
      BY <3>2
    <3>5. /\ p = Nil => Past(E, sub, m, d) = {}
          /\ p # Nil /\ m = t.child[d][p] => p \in E /\ Past(E, sub, m, d) = Past(E, sub, p, d)
          /\ p # Nil /\ m # t.child[d][p] => IsFirst(Past(E, sub, m, d), d, p)
      BY <3>3, UpStep
    <3> HIDE DEF p, B
    <3>6. CASE p = Nil
      BY <3>3, <3>5, <3>6 DEF IsFirst
    <3>7. CASE p # Nil /\ m = t.child[d][p]
      BY <3>3, <3>4, <3>5, <3>7
    <3>8. CASE p # Nil /\ m # t.child[d][p]
      BY <3>3, <3>5, <3>8
    <3>q. QED
      BY <3>6, <3>7, <3>8
  <2>5. Good(n)
    BY <2>4
  <2>6. Past(E, sub, n, d) = Further(E, n, d)
    <3>1. sub[c] = {}
      BY <1>4 DEF Shape
    <3>2. \A y \in sub[n] : y = n \/ Side(y, n) # d
      BY <1>1, <3>1
    <3>q. QED
      BY <1>2, <3>2 DEF Past, Further
  <2>q. QED
    BY <2>2, <2>5, <2>6 DEF x
<1>q. QED
  BY <1>3, <1>4

-----------------------------------------------------------------------------
(* The walks of RB_FOREACH_SAFE *)

\* The loop has remembered the next node after the one it is at, whether that is still in
\* the tree or its body removed it.
Walking ==
  \/ iter = NoIter
  \/ /\ iter.dir \in Sides /\ iter.x \in Keys
     /\ IsFirst(Further(Elements, iter.x, iter.dir), iter.dir, iter.y)

RInv == IInv /\ Walking

\* What a walk has left to do.
Left == IF iter = NoIter THEN {} ELSE Further(Elements, iter.x, iter.dir)
todoBar ==
  IF iter = NoIter THEN {}
  ELSE {e \in Elements : IF iter.dir = "R" THEN e > iter.x ELSE e < iter.x}

\* What the walk has yet to visit, as the refinement mapping names it.
LEMMA LeftIs == Walking => todoBar = Left
<1>1. Elements \subseteq Keys
  BY DEF Elements
<1>2. CASE iter = NoIter
  BY <1>2 DEF todoBar, Left
<1>3. ASSUME iter # NoIter, Walking
      PROVE  todoBar = Left
  <2>1. iter.dir \in Sides /\ iter.x \in Keys
    BY <1>3 DEF Walking
  <2>q. QED
    BY <1>1, <1>3, <2>1, FurtherIs DEF todoBar, Left
<1>q. QED
  BY <1>2, <1>3

\* Without a direction there is no walk.
LEMMA WalkNone == Walking => (iter = NoIter <=> iter.dir = "none")
  BY DEF Walking, NoIter, Sides

\* The tree of the current state has the shape of a search tree.
LEMMA ShapeNow ==
  ASSUME IInv
  PROVE  Elements \subseteq Keys /\ \E sub : Shape(tree, Elements, sub)
  BY DEF IInv, Balanced, Elements

\* A walk goes to the first of the keys it has left, and from there on to what lies beyond.
LEMMA VisitIs ==
  ASSUME IInv, UNCHANGED <<tree, job>>, NEW d \in Sides, NEW left, left \subseteq Elements,
         NEW x, IsFirst(left, d, x), IterAt(d, x), x # Nil => left \ {x} = Further(Elements, x, d)
  PROVE  Set!Visit(d, left) /\ Walking'
<1>1. PICK sub : Shape(tree, Elements, sub)
  BY ShapeNow
<1>2. Elements \subseteq Keys /\ left \subseteq Keys /\ Nil \notin Keys /\ Elements' = Elements
  BY ShapeNow, NilFacts DEF Elements
<1>3. Set!First(left, d) = x
  BY <1>2, FirstIs
<1>4. call' = [op |-> "visit", arg |-> Nil, answer |-> x]
  BY DEF IterAt, Returns
<1>5. CASE x = Nil
  <2>1. left = {}
    BY <1>2, <1>5 DEF IsFirst
  <2>2. iter' = NoIter
    BY <1>5 DEF IterAt
  <2>3. iter'.dir = "none" /\ todoBar' = {} /\ Walking'
    BY <2>2 DEF NoIter, todoBar, Walking
  <2>q. QED
    BY <1>2, <1>3, <1>4, <2>1, <2>3 DEF Set!Visit, Set!Returns, todoBar
<1>6. CASE x # Nil
  <2>1. x \in left /\ x \in Elements /\ x \in Keys
    BY <1>2, <1>6 DEF IsFirst
  <2>2. iter' = [dir |-> d, x |-> x, y |-> Neighbour(tree, x, d)]
    BY <1>6 DEF IterAt
  <2>3. IsFirst(Further(Elements, x, d), d, Neighbour(tree, x, d))
    BY <1>1, <2>1, NeighbourIs
  <2>4. iter'.dir = d /\ iter'.x = x /\ iter'.y = Neighbour(tree, x, d)
    BY <2>2
  <2>5. Walking'
    BY <1>2, <2>1, <2>3, <2>4 DEF Walking
  <2>6. iter' # NoIter
    BY <2>4 DEF NoIter, Sides
  <2>7. todoBar' = left \ {x}
    <3>1. Further(Elements, x, d) = {e \in Elements : IF d = "R" THEN e > x ELSE e < x}
      BY <1>2, <2>1, FurtherIs
    <3>q. QED
      BY <1>2, <1>6, <2>4, <2>6, <3>1 DEF todoBar
  <2>q. QED
    BY <1>2, <1>3, <1>4, <2>1, <2>4, <2>5, <2>7 DEF Set!Visit, Set!Returns, todoBar
<1>q. QED
  BY <1>5, <1>6

-----------------------------------------------------------------------------
(* The steps *)

Implements == [Set!Next]_(Set!vars) /\ Walking'

\* RB_INSERT adds its key, and answers with the one it found.
LEMMA InsertImplements ==
  ASSUME RInv, NEW e \in Keys, Insert(e)
  PROVE  Implements
<1>1. PICK sub : Shape(tree, Elements, sub)
  BY ShapeNow DEF RInv
<1>2. Find(tree, e) = IF e \in Elements THEN e ELSE Nil
  BY <1>1, FindIs
<1>3. Elements' = Elements \cup {e}
  BY StepInsert, BalancedNext DEF RInv
<1>4. iter = NoIter /\ iter' = NoIter
  BY DEF Insert
<1>5. call' = [op |-> "insert", arg |-> e, answer |-> IF e \in Elements THEN e ELSE Nil]
  <2>1. Place(tree, e) = e <=> e \in Elements
    BY <1>2, NilFacts DEF Find
  <2>q. QED
    BY <2>1 DEF Insert, Returns
<1>6. iter.dir = "none" /\ iter'.dir = iter.dir /\ todoBar = {} /\ todoBar' = {} /\ Walking'
  BY <1>4 DEF NoIter, todoBar, Walking
<1>7. Set!Insert(e)
  BY <1>3, <1>5, <1>6 DEF Set!Insert, Set!Returns, todoBar
<1>q. QED
  BY <1>6, <1>7 DEF Implements, Set!Next

\* RB_REMOVE takes its key away; the next node of a walk stays the same.
LEMMA RemoveImplements ==
  ASSUME RInv, NEW e \in Keys, Remove(e)
  PROVE  Implements
<1>1. PICK sub : Shape(tree, Elements, sub)
  BY ShapeNow DEF RInv
<1>2. e \in Elements
  BY <1>1, FoundIn DEF Remove
<1>3. Elements' = Elements \ {e}
  BY StepRemove, BalancedNext DEF RInv
<1>4. iter' = iter /\ (iter # NoIter => iter.x = e)
  BY DEF Remove
<1>5. call' = [op |-> "remove", arg |-> e, answer |-> e]
  BY DEF Remove, Returns
<1>6. Left' = Left /\ e \notin Left
  BY <1>3, <1>4 DEF Left, Further
<1>7. Walking'
  BY <1>3, <1>4 DEF RInv, Walking, Further
<1>8. todoBar = Left /\ todoBar' = Left'
  <2>1. todoBar = Left
    BY LeftIs DEF RInv
  <2>2. Elements' \subseteq Keys
    BY <1>1, <1>3 DEF Shape, Bounds
  <2>3. CASE iter = NoIter
    BY <1>4, <2>1, <2>3 DEF todoBar, Left
  <2>4. CASE iter # NoIter
    <3>1. iter.dir \in Sides /\ iter.x \in Keys
      BY <2>4 DEF RInv, Walking
    <3>2. Further(Elements', iter.x, iter.dir)
            = {k \in Elements' : IF iter.dir = "R" THEN k > iter.x ELSE k < iter.x}
      BY <2>2, <3>1, FurtherIs
    <3>q. QED
      BY <1>4, <2>1, <2>4, <3>2 DEF todoBar, Left
  <2>q. QED
    BY <2>3, <2>4
<1>9. Set!Remove(e)
  BY <1>2, <1>3, <1>4, <1>5, <1>6, <1>8 DEF Set!Remove, Set!Returns, todoBar
<1>q. QED
  BY <1>7, <1>9 DEF Implements, Set!Next

\* RB_FIND, RB_NFIND, RB_NEXT and RB_PREV.
LEMMA SearchImplements ==
  ASSUME RInv, NEW e \in Keys, Search(e)
  PROVE  Implements
<1>1. PICK sub : Shape(tree, Elements, sub)
  BY ShapeNow DEF RInv
<1>2. Elements \subseteq Keys /\ "L" \in Sides /\ "R" \in Sides
  BY ShapeNow, SideFacts DEF RInv
<1>3. iter = NoIter /\ UNCHANGED <<tree, job, iter>>
  BY DEF Search
<1>4. /\ iter.dir = "none" /\ iter'.dir = iter.dir /\ todoBar = {} /\ todoBar' = {} /\ Walking'
      /\ Elements' = Elements
  BY <1>3 DEF NoIter, todoBar, Walking, Elements
<1>5. Find(tree, e) = IF e \in Elements THEN e ELSE Nil
  BY <1>1, FindIs
<1>6. NFind(tree, e) = Set!First({x \in Elements : x >= e}, "R")
  <2>1. {x \in Elements : x >= e} \subseteq Keys
    BY <1>2
  <2>2. IsFirst({x \in Elements : x >= e}, "R", NFind(tree, e))
    BY <1>1, NFindIs
  <2>q. QED
    BY <1>2, <2>1, <2>2, FirstIs
<1>7. ASSUME e \in Elements, NEW d \in Sides
      PROVE  Neighbour(tree, e, d) = Set!First(Further(Elements, e, d), d)
  <2>1. Further(Elements, e, d) \subseteq Keys
    BY <1>2 DEF Further
  <2>q. QED
    BY <1>1, <1>7, <2>1, NeighbourIs, FirstIs
<1>8. /\ e \in Elements => Neighbour(tree, e, "R") = Set!First({x \in Elements : x > e}, "R")
      /\ e \in Elements => Neighbour(tree, e, "L") = Set!First({x \in Elements : x < e}, "L")
  <2>1. /\ Further(Elements, e, "R") = {x \in Elements : x > e}
        /\ Further(Elements, e, "L") = {x \in Elements : x < e}
    BY <1>2, FurtherIs
  <2>q. QED
    BY <1>2, <1>7, <2>1
<1>9. \/ Set!Returns("find", e, IF e \in Elements THEN e ELSE Nil)
      \/ Set!Returns("nfind", e, Set!First({x \in Elements : x >= e}, "R"))
      \/ e \in Elements /\ Set!Returns("next", e, Set!First({x \in Elements : x > e}, "R"))
      \/ e \in Elements /\ Set!Returns("prev", e, Set!First({x \in Elements : x < e}, "L"))
  <2>1. Find(tree, e) = e => e \in Elements
    BY <1>5, NilFacts
  <2>2. CASE Returns("find", e, Find(tree, e))
    BY <1>5, <2>2 DEF Returns, Set!Returns
  <2>3. CASE Returns("nfind", e, NFind(tree, e))
    BY <1>6, <2>3 DEF Returns, Set!Returns
  <2>4. CASE Find(tree, e) = e /\ Returns("next", e, Neighbour(tree, e, "R"))
    BY <1>8, <2>1, <2>4 DEF Returns, Set!Returns
  <2>5. CASE Find(tree, e) = e /\ Returns("prev", e, Neighbour(tree, e, "L"))
    BY <1>8, <2>1, <2>5 DEF Returns, Set!Returns
  <2>q. QED
    BY <2>2, <2>3, <2>4, <2>5 DEF Search
<1>10. Set!Find(e)
  BY <1>4, <1>9 DEF Set!Find, todoBar
<1>q. QED
  BY <1>4, <1>10 DEF Implements, Set!Next

\* RB_MIN and RB_MAX.
LEMMA EndImplements ==
  ASSUME RInv, NEW d \in Sides, End(d)
  PROVE  Implements
<1>1. PICK sub : Shape(tree, Elements, sub)
  BY ShapeNow DEF RInv
<1>2. MinMax(tree, d) = Set!First(Elements, d)
  <2>1. Elements \subseteq Keys
    BY ShapeNow DEF RInv
  <2>q. QED
    BY <1>1, <2>1, MinMaxIs, FirstIs
<1>3. iter = NoIter /\ UNCHANGED <<tree, job, iter>>
  BY DEF End
<1>4. /\ iter.dir = "none" /\ iter'.dir = iter.dir /\ todoBar = {} /\ todoBar' = {} /\ Walking'
      /\ Elements' = Elements
  BY <1>3 DEF NoIter, todoBar, Walking, Elements
<1>5. Set!MinMax(d)
  BY <1>2, <1>4 DEF End, Returns, Set!MinMax, Set!Returns, todoBar
<1>q. QED
  BY <1>4, <1>5 DEF Implements, Set!Next, Sides

\* The first node of RB_FOREACH and RB_FOREACH_REVERSE.
LEMMA ForEachImplements ==
  ASSUME RInv, NEW d \in Sides, ForEach(d)
  PROVE  Implements
<1>1. PICK sub : Shape(tree, Elements, sub)
  BY ShapeNow DEF RInv
<1>0. PICK x, left : x = MinMax(tree, d) /\ left = Elements
  OBVIOUS
<1>2. IsFirst(left, d, x)
  BY <1>0, <1>1, MinMaxIs
<1>3. IterAt(d, x) /\ UNCHANGED <<tree, job>> /\ iter = NoIter
  BY <1>0 DEF ForEach
<1>4. x # Nil => left \ {x} = Further(Elements, x, d)
  BY <1>0, <1>2 DEF IsFirst, Further
<1>5. Set!Visit(d, left) /\ Walking'
  BY <1>0, <1>2, <1>3, <1>4, VisitIs DEF RInv
<1>6. Set!Walk
  BY <1>0, <1>3, <1>5 DEF Set!Walk, Set!Visit, NoIter, Sides
<1>q. QED
  BY <1>5, <1>6 DEF Implements, Set!Next

\* The first node of RB_FOREACH_FROM and RB_FOREACH_REVERSE_FROM.
LEMMA ForEachFromImplements ==
  ASSUME RInv, NEW d \in Sides, NEW y \in Keys, ForEachFrom(d, y)
  PROVE  Implements
<1>1. PICK sub : Shape(tree, Elements, sub)
  BY ShapeNow DEF RInv
<1>0. PICK left : left = {e \in Elements : IF d = "R" THEN e >= y ELSE e <= y}
  OBVIOUS
<1>2. y \in Elements /\ Elements \subseteq Keys
  BY <1>1, FoundIn, ShapeNow DEF ForEachFrom, RInv
<1>3. IterAt(d, y) /\ UNCHANGED <<tree, job>> /\ iter = NoIter
  BY DEF ForEachFrom
<1>4. y \in Int /\ (\A e \in Elements : e \in Int) /\ (d = "L" \/ d = "R")
  BY <1>2, KeysAssumption DEF Sides
<1>5. left = {y} \cup Further(Elements, y, d)
  <2>1. Further(Elements, y, d) = {e \in Elements : IF d = "R" THEN e > y ELSE e < y}
    BY <1>2, FurtherIs
  <2>2. \A e \in Elements : (IF d = "R" THEN e >= y ELSE e <= y)
                              <=> e = y \/ (IF d = "R" THEN e > y ELSE e < y)
    BY <1>2, <1>4
  <2>3. \A e : e \in left <=> e \in {y} \cup Further(Elements, y, d)
    BY <1>0, <1>2, <2>1, <2>2
  <2>q. QED
    BY <2>3
<1>6. left \subseteq Elements
  BY <1>0
<1>7. IsFirst(left, d, y) /\ left \ {y} = Further(Elements, y, d)
  BY <1>5 DEF IsFirst, Further
<1>8. Set!Visit(d, left) /\ Walking'
  BY <1>3, <1>6, <1>7, VisitIs DEF RInv
<1>9. Set!Walk
  BY <1>0, <1>2, <1>3, <1>8 DEF Set!Walk, Set!Visit, NoIter, Sides
<1>q. QED
  BY <1>8, <1>9 DEF Implements, Set!Next

\* The next node of a loop.
LEMMA ForEachNextImplements ==
  ASSUME RInv, ForEachNext
  PROVE  Implements
<1>0. PICK d, x, left : d = iter.dir /\ x = iter.y /\ left = Left
  OBVIOUS
<1>1. IterAt(d, x) /\ UNCHANGED <<tree, job>> /\ iter # NoIter
  BY <1>0 DEF ForEachNext
<1>2. d \in Sides /\ iter.x \in Keys /\ Left = Further(Elements, iter.x, d) /\ IsFirst(Left, d, x)
  BY <1>0, <1>1 DEF RInv, Walking, Left
<1>3. Left \subseteq Elements /\ Elements \subseteq Keys /\ todoBar = Left /\ Nil \notin Keys
  BY <1>1, LeftIs, ShapeNow, NilFacts DEF Left, Further, RInv
<1>4. iter.dir # "none"
  BY <1>1, WalkNone DEF RInv
<1>5. ASSUME x # Nil
      PROVE  Left \ {x} = Further(Elements, x, d)
  <2>1. x \in Left /\ \A y \in Left : y = x \/ Side(y, x) = d
    BY <1>2, <1>3, <1>5 DEF IsFirst
  <2>2. x \in Keys /\ x # iter.x /\ Side(x, iter.x) = d
    BY <1>2, <1>3, <2>1 DEF Further
  <2>3. ASSUME NEW y \in Elements, y # x, Side(y, x) = d
        PROVE  y \in Left
    <3>1. y # iter.x /\ Side(y, iter.x) = Side(y, x)
      BY <1>2, <1>3, <2>2, <2>3, SideOrder
    <3>q. QED
      BY <1>2, <2>3, <3>1 DEF Further
  <2>q. QED
    BY <1>3, <2>1, <2>3 DEF Further
<1>6. Set!Visit(d, left) /\ Walking'
  BY <1>0, <1>1, <1>2, <1>3, <1>5, VisitIs DEF RInv
<1>7. Set!Step
  BY <1>0, <1>3, <1>4, <1>6 DEF Set!Step, Set!Visit, todoBar
<1>q. QED
  BY <1>6, <1>7 DEF Implements, Set!Next

\* A caller sees nothing of the rebalancing.
LEMMA RebalancingImplements ==
  ASSUME RInv, Balanced(tree', job', Elements), UNCHANGED <<iter, call>>
  PROVE  Implements
<1>1. Elements' = Elements
  BY BalancedNext
<1>2. Walking' /\ todoBar' = todoBar
  BY <1>1 DEF RInv, Walking, todoBar
<1>q. QED
  BY <1>1, <1>2 DEF Implements, Set!vars, todoBar

\* Every step is one of the contract, or changes nothing there.
LEMMA StepImplements == RInv /\ [Next]_vars => Implements /\ RInv'
<1> SUFFICES ASSUME RInv, [Next]_vars
             PROVE  Implements
  BY InvNext DEF RInv, Implements
<1>1. CASE UNCHANGED vars
  BY <1>1 DEF vars, Implements, Set!vars, RInv, Walking, Elements
<1>2. ASSUME NEW e \in Keys, Insert(e) \/ Remove(e) \/ Search(e)
      PROVE  Implements
  BY <1>2, InsertImplements, RemoveImplements, SearchImplements
<1>3. ASSUME NEW d \in Sides, End(d) \/ ForEach(d) \/ \E e \in Keys : ForEachFrom(d, e)
      PROVE  Implements
  BY <1>3, EndImplements, ForEachImplements, ForEachFromImplements
<1>4. CASE InsertRecolor \/ InsertRotate \/ InsertEnd
  <2>1. Balanced(tree', job', Elements)
    BY <1>4, StepInsertRecolor, StepInsertRotate, StepInsertEnd DEF RInv
  <2>2. UNCHANGED <<iter, call>>
    BY <1>4 DEF InsertRecolor, InsertRotate, InsertEnd
  <2>q. QED
    BY <2>1, <2>2, RebalancingImplements
<1>5. CASE RemoveUp \/ RemoveFill \/ RemoveEnd
  <2>1. Balanced(tree', job', Elements)
    BY <1>5, StepRemoveUp, StepRemoveFill, StepRemoveEnd DEF RInv
  <2>2. UNCHANGED <<iter, call>>
    BY <1>5 DEF RemoveUp, RemoveFill, RemoveEnd
  <2>q. QED
    BY <2>1, <2>2, RebalancingImplements
<1>6. CASE ForEachNext
  BY <1>6, ForEachNextImplements
<1>q. QED
  BY <1>1, <1>2, <1>3, <1>4, <1>5, <1>6 DEF Next

\* An empty tree is an empty set.
LEMMA InitImplements == Init => Set!Init /\ Walking
<1> SUFFICES ASSUME Init
             PROVE  Set!Init /\ Walking
  OBVIOUS
<1>1. Elements = {}
  BY NilFacts DEF Init, Elements
<1>2. iter.dir = "none" /\ todoBar = {} /\ Walking
  BY DEF Init, NoIter, todoBar, Walking
<1>q. QED
  BY <1>1, <1>2 DEF Init, Set!Init, Set!NoCall, todoBar

\* Whatever calls are made in whatever order, each gives the answer of an ordered set, and
\* a walk visits all keys in order although the body of its loop removes them.
THEOREM Refinement == Spec => ImplementsOrderedSet
<1>1. Init => RInv /\ Set!Init
  BY InvInit, InitImplements DEF RInv
<1>2. RInv /\ [Next]_vars => RInv'
  BY StepImplements
<1>3. RInv /\ [Next]_vars => [Set!Next]_(Set!vars)
  BY StepImplements DEF Implements
<1>q. QED
  BY <1>1, <1>2, <1>3, PTL DEF Spec, ImplementsOrderedSet, Set!Spec
=============================================================================
