---------------------------- MODULE RedBlackTree ----------------------------
(***************************************************************************)
(* The red-black tree of uv/tree.h (the RB_ macros).                       *)
(*                                                                         *)
(* A node is its key.  The left and right branches of the source, which    *)
(* mirror each other, are one definition with a side "L" or "R".  Each     *)
(* iteration of the two rebalancing loops is an action; searches, which    *)
(* change nothing, are operators.                                          *)
(***************************************************************************)
EXTENDS Integers, FiniteSets, TreeNodes

CONSTANT Keys   \* bound: the keys, integers

ASSUME KeysAssumption == Keys \subseteq Int /\ Nil \notin Keys

VARIABLES
  tree,   \* [root, child, parent, color], the fields of all nodes
  job,    \* the rebalancing loop under way: [at, elm, parent]
  iter,   \* the FOREACH_SAFE loop under way: [dir, x, y]
  call    \* the last call that returned: [op, arg, answer]

vars == <<tree, job, iter, call>>

Links == Keys \cup {Nil}

Idle == [at |-> "idle", elm |-> Nil, parent |-> Nil]
NoIter == [dir |-> "none", x |-> Nil, y |-> Nil]

Init ==
  /\ tree = [root |-> Nil, child |-> [d \in Sides |-> [n \in Keys |-> Nil]],
             parent |-> [n \in Keys |-> Nil], color |-> [n \in Keys |-> "red"]]
  /\ job = Idle
  /\ iter = NoIter
  /\ call = [op |-> "none", arg |-> Nil, answer |-> Nil]

Returns(op, arg, answer) == call' = [op |-> op, arg |-> arg, answer |-> answer]

-----------------------------------------------------------------------------
(* Macros that change links and colors *)

IsRed(t, n) == n # Nil /\ t.color[n] = "red"

Paint(t, n, c) == IF n = Nil THEN t ELSE [t EXCEPT !.color[n] = c]

SetBlackRed(t, black, red) == Paint(Paint(t, black, "black"), red, "red")

SetParent(t, n, p) == IF n = Nil THEN t ELSE [t EXCEPT !.parent[n] = p]

\* The link of p (of the head without p) that led to old leads to new.
Relink(t, p, old, new) ==
  IF p = Nil THEN [t EXCEPT !.root = new]
  ELSE [t EXCEPT !.child[IF t.child["L"][p] = old THEN "L" ELSE "R"][p] = new]

\* RB_ROTATE_LEFT and RB_ROTATE_RIGHT: e goes down to side d.
Rotate(t, d, e) ==
  LET o     == Other(d)
      tmp   == t.child[o][e]
      inner == t.child[d][tmp]
      t1    == SetParent([t EXCEPT !.child[o][e] = inner], inner, e)
      t2    == SetParent(Relink(t1, t.parent[e], e, tmp), tmp, t.parent[e])
  IN SetParent([t2 EXCEPT !.child[d][tmp] = e], e, tmp)

-----------------------------------------------------------------------------
(* Searches *)

\* The node where the search for e ends: its own, or that of its parent to be.
Place(t, e) ==
  LET down[n \in Keys] ==
        LET c == t.child[Side(e, n)][n]
        IN IF n = e \/ c = Nil THEN n ELSE down[c]
  IN IF t.root = Nil THEN Nil ELSE down[t.root]

Find(t, e) == IF Place(t, e) = e THEN e ELSE Nil

\* RB_NFIND: the last node the search left to the left, unless it found e.
NFindLast(t, e) ==   \* faulty variant: the last node of the search path
  Place(t, e)

NFind(t, e) ==
  LET down[at \in Links \X Links] ==   \* <<tmp, res>>
        LET n == at[1] IN
        IF n = Nil THEN at[2]
        ELSE IF e = n THEN n
        ELSE down[<<t.child[Side(e, n)][n], IF e < n THEN n ELSE at[2]>>]
  IN down[<<t.root, Nil>>]

\* The last node on the way from n to side d.
Outermost(t, n, d) ==
  LET down[m \in Keys] == IF t.child[d][m] = Nil THEN m ELSE down[t.child[d][m]]
  IN IF n = Nil THEN Nil ELSE down[n]

\* RB_MINMAX: where a walk to side d begins.
MinMax(t, d) == Outermost(t, t.root, Other(d))

\* RB_NEXT (d = "R") and RB_PREV (d = "L").
Neighbour(t, n, d) ==
  LET up[m \in Keys] ==
        LET p == t.parent[m]
        IN IF p # Nil /\ m = t.child[d][p] THEN up[p] ELSE p
  IN IF t.child[d][n] # Nil THEN Outermost(t, t.child[d][n], Other(d)) ELSE up[n]

-----------------------------------------------------------------------------
(* RB_INSERT and RB_INSERT_COLOR *)

\* RB_SET, and the link of the parent.
Attach(t, e, p) ==
  LET t1 == [t EXCEPT !.parent[e] = p, !.child["L"][e] = Nil, !.child["R"][e] = Nil,
                      !.color[e] = "red"]
  IN IF p = Nil THEN [t1 EXCEPT !.root = e] ELSE [t1 EXCEPT !.child[Side(e, p)][p] = e]

Insert(e) ==
  LET place == Place(tree, e) IN
  /\ job = Idle /\ iter = NoIter
  /\ IF place = e
       THEN UNCHANGED <<tree, job>> /\ Returns("insert", e, e)
       ELSE /\ tree' = Attach(tree, e, place)
            /\ job' = [at |-> "insert", elm |-> e, parent |-> Nil]
            /\ Returns("insert", e, Nil)
  /\ UNCHANGED iter

\* The loop goes on as long as elm and its parent are both red.
TwoReds == IsRed(tree, tree.parent[job.elm])
Parent == tree.parent[job.elm]
Grandparent == tree.parent[Parent]
ParentSide == IF Parent = tree.child["L"][Grandparent] THEN "L" ELSE "R"
Uncle == tree.child[Other(ParentSide)][Grandparent]

\* A red uncle: recolor, and go on with the grandparent.
InsertRecolorOnce ==   \* faulty variant: does not go on with the grandparent
  /\ job.at = "insert" /\ TwoReds
  /\ IsRed(tree, Uncle)
  /\ LET t == SetBlackRed(Paint(tree, Uncle, "black"), Parent, Grandparent)
     IN tree' = Paint(t, t.root, "black")
  /\ job' = Idle
  /\ UNCHANGED <<iter, call>>

InsertRecolor ==
  /\ job.at = "insert" /\ TwoReds
  /\ IsRed(tree, Uncle)
  /\ tree' = SetBlackRed(Paint(tree, Uncle, "black"), Parent, Grandparent)
  /\ job' = [job EXCEPT !.elm = Grandparent]
  /\ UNCHANGED <<iter, call>>

\* A black uncle: one rotation, or two if elm is an inner grandchild.
InsertRotate ==
  LET s     == ParentSide
      inner == tree.child[Other(s)][Parent] = job.elm
      t1    == IF inner THEN Rotate(tree, s, Parent) ELSE tree
      top   == IF inner THEN job.elm ELSE Parent
  IN
  /\ job.at = "insert" /\ TwoReds
  /\ ~IsRed(tree, Uncle)
  /\ tree' = Rotate(SetBlackRed(t1, top, Grandparent), Other(s), Grandparent)
  /\ job' = [job EXCEPT !.elm = IF inner THEN Parent ELSE job.elm]
  /\ UNCHANGED <<iter, call>>

InsertEndUnpainted ==   \* faulty variant: the root may stay red
  /\ job.at = "insert" /\ ~TwoReds
  /\ job' = Idle
  /\ UNCHANGED <<tree, iter, call>>

InsertEnd ==
  /\ job.at = "insert" /\ ~TwoReds
  /\ tree' = Paint(tree, tree.root, "black")
  /\ job' = Idle
  /\ UNCHANGED <<iter, call>>

-----------------------------------------------------------------------------
(* RB_REMOVE and RB_REMOVE_COLOR *)

\* What is left to do once the link to the removed node is gone: its child took its
\* place below parent; if it was black that place is short of one black node.
Unlinked(t, color, child, parent) ==
  [tree |-> t,
   job  |-> IF color = "black" THEN [at |-> "remove", elm |-> child, parent |-> parent] ELSE Idle]

\* The link to e leads to its child.
Bypass(t, e, child) ==
  LET p == t.parent[e] IN Relink(SetParent(t, child, p), p, e, child)

\* s takes the place and the color of e.
TakePlace(t, e, s) ==
  LET t1 == [t EXCEPT !.child["L"][s] = t.child["L"][e], !.child["R"][s] = t.child["R"][e],
                      !.parent[s] = t.parent[e], !.color[s] = t.color[e]]
      t2 == Relink(t1, t1.parent[e], e, s)
  IN SetParent(SetParent(t2, t2.child["L"][e], s), t2.child["R"][e], s)

\* A node with at most one child.
UnlinkOuter(t, e) ==
  LET child == IF t.child["L"][e] = Nil THEN t.child["R"][e] ELSE t.child["L"][e]
  IN Unlinked(Bypass(t, e, child), t.color[e], child, t.parent[e])

\* A node with two children: its successor is unlinked and takes its place and color.
UnlinkInner(t, e) ==
  LET s     == Outermost(t, t.child["R"][e], "L")
      child == t.child["R"][s]
      p     == t.parent[s]
  IN Unlinked(TakePlace(Bypass(t, s, child), e, s), t.color[s], child, IF p = e THEN s ELSE p)

\* The fields of a removed node mean nothing until RB_SET sets them again.
Forget(t, e) ==
  [t EXCEPT !.child["L"][e] = Nil, !.child["R"][e] = Nil, !.parent[e] = Nil, !.color[e] = "red"]

Unlink(t, e) ==
  IF t.child["L"][e] # Nil /\ t.child["R"][e] # Nil THEN UnlinkInner(t, e) ELSE UnlinkOuter(t, e)

\* In the body of a FOREACH_SAFE loop, of the node the loop is at.
Remove(e) ==
  LET u == Unlink(tree, e) IN
  /\ job = Idle
  /\ Find(tree, e) = e
  /\ iter # NoIter => iter.x = e
  /\ tree' = Forget(u.tree, e)
  /\ job' = u.job
  /\ Returns("remove", e, e)
  /\ UNCHANGED iter

Short == ~IsRed(tree, job.elm) /\ job.elm # tree.root

\* The side of the place that is short of a black node, and its sibling, which is
\* made black first.
ShortSide == IF tree.child["L"][job.parent] = job.elm THEN "L" ELSE "R"
BlackSibling ==
  LET tmp == tree.child[Other(ShortSide)][job.parent]
  IN IF IsRed(tree, tmp)
       THEN Rotate(SetBlackRed(tree, tmp, job.parent), ShortSide, job.parent)
       ELSE tree
Sibling == BlackSibling.child[Other(ShortSide)][job.parent]
Nephew(d) == BlackSibling.child[d][Sibling]
BlackNephews == \A d \in Sides : ~IsRed(BlackSibling, Nephew(d))

\* The sibling turns red: now the place of the parent is short.
RemoveUp ==
  /\ job.at = "remove" /\ Short
  /\ BlackNephews
  /\ tree' = Paint(BlackSibling, Sibling, "red")
  /\ job' = [job EXCEPT !.elm = job.parent, !.parent = BlackSibling.parent[job.parent]]
  /\ UNCHANGED <<iter, call>>

\* A red nephew, turned to the outside, closes the gap.
RemoveFillKeepColor ==   \* faulty variant: the sibling does not take the color of the parent
  LET s  == ShortSide
      o  == Other(s)
      t1 == IF IsRed(BlackSibling, Nephew(o)) THEN BlackSibling
            ELSE Rotate(SetBlackRed(BlackSibling, Nephew(s), Sibling), o, Sibling)
      w  == t1.child[o][job.parent]
      t2 == Paint(Paint(t1, job.parent, "black"), t1.child[o][w], "black")
      t3 == Rotate(t2, s, job.parent)
  IN
  /\ job.at = "remove" /\ Short
  /\ ~BlackNephews
  /\ tree' = t3
  /\ job' = [job EXCEPT !.elm = t3.root, !.parent = Nil]
  /\ UNCHANGED <<iter, call>>

RemoveFill ==
  LET s  == ShortSide
      o  == Other(s)
      t1 == IF IsRed(BlackSibling, Nephew(o)) THEN BlackSibling
            ELSE Rotate(SetBlackRed(BlackSibling, Nephew(s), Sibling), o, Sibling)
      w  == t1.child[o][job.parent]
      t2 == Paint(t1, w, t1.color[job.parent])
      t3 == Paint(Paint(t2, job.parent, "black"), t2.child[o][w], "black")
      t4 == Rotate(t3, s, job.parent)
  IN
  /\ job.at = "remove" /\ Short
  /\ ~BlackNephews
  /\ tree' = t4
  /\ job' = [job EXCEPT !.elm = t4.root, !.parent = Nil]
  /\ UNCHANGED <<iter, call>>

RemoveEnd ==
  /\ job.at = "remove" /\ ~Short
  /\ tree' = Paint(tree, job.elm, "black")
  /\ job' = Idle
  /\ UNCHANGED <<iter, call>>

-----------------------------------------------------------------------------
(* The calls that change nothing, and the loops *)

Search(e) ==
  /\ job = Idle /\ iter = NoIter
  /\ \/ Returns("find", e, Find(tree, e))
     \/ Returns("nfind", e, NFind(tree, e))
     \/ Find(tree, e) = e /\ Returns("next", e, Neighbour(tree, e, "R"))
     \/ Find(tree, e) = e /\ Returns("prev", e, Neighbour(tree, e, "L"))
  /\ UNCHANGED <<tree, job, iter>>

End(d) ==
  /\ job = Idle /\ iter = NoIter
  /\ Returns(IF d = "R" THEN "min" ELSE "max", Nil, MinMax(tree, d))
  /\ UNCHANGED <<tree, job, iter>>

\* The loop goes to x and remembers its neighbour y before the body runs.
IterAt(d, x) ==
  /\ iter' = IF x = Nil THEN NoIter ELSE [dir |-> d, x |-> x, y |-> Neighbour(tree, x, d)]
  /\ Returns("visit", Nil, x)

\* RB_FOREACH_SAFE and RB_FOREACH_REVERSE_SAFE; RB_FOREACH and RB_FOREACH_REVERSE are
\* the same for a body that removes nothing.
ForEach(d) ==
  /\ job = Idle /\ iter = NoIter
  /\ IterAt(d, MinMax(tree, d))
  /\ UNCHANGED <<tree, job>>

\* RB_FOREACH_FROM and RB_FOREACH_REVERSE_FROM.
ForEachFrom(d, y) ==
  /\ job = Idle /\ iter = NoIter
  /\ Find(tree, y) = y
  /\ IterAt(d, y)
  /\ UNCHANGED <<tree, job>>

ForEachNext ==
  /\ job = Idle /\ iter # NoIter
  /\ IterAt(iter.dir, iter.y)
  /\ UNCHANGED <<tree, job>>

Next ==
  \/ \E e \in Keys : Insert(e) \/ Remove(e) \/ Search(e)
  \/ \E d \in Sides : End(d) \/ ForEach(d) \/ \E e \in Keys : ForEachFrom(d, e)
  \/ InsertRecolor \/ InsertRotate \/ InsertEnd
  \/ RemoveUp \/ RemoveFill \/ RemoveEnd
  \/ ForEachNext

Spec == Init /\ [][Next]_vars

-----------------------------------------------------------------------------
(* Properties *)

\* The nodes in the tree, and those on the way from a node up to the root.
Elements == {n \in Keys : n = tree.root \/ tree.parent[n] # Nil}
Path(n) ==
  LET up[m \in Keys] == {m} \cup (IF tree.parent[m] = Nil THEN {} ELSE up[tree.parent[m]])
  IN up[n]

\* Every operation, in whatever order, gives the answer of an ordered set, and a
\* FOREACH_SAFE loop visits all elements in order although its body removes them.
Set == INSTANCE OrderedSet WITH
  set  <- Elements,
  walk <- iter.dir,
  todo <- IF iter = NoIter THEN {}
          ELSE {e \in Elements : IF iter.dir = "R" THEN e > iter.x ELSE e < iter.x}

ImplementsOrderedSet == Set!Spec

\* "each red node (except for the root) has a black parent": also in the middle of
\* the rebalancing, except for the node it is at.
RedHasBlackParent ==
  \A n \in Elements :
    IsRed(tree, n) /\ IsRed(tree, tree.parent[n]) =>
      \/ job # Idle /\ n = job.elm
      \/ job.at = "remove" /\ tree.parent[n] = job.elm

\* The black nodes from the root to n, and one more where the tree is short of one.
BlackAbove(n, d) ==
  LET short == /\ job.at = "remove"
               /\ IF job.elm = Nil THEN n = job.parent /\ d = ShortSide ELSE job.elm \in Path(n)
  IN Cardinality({m \in Path(n) : ~IsRed(tree, m)}) + IF short THEN 1 ELSE 0

\* "every search path from the root to a leaf consists of the same number of black
\* nodes": while RB_REMOVE_COLOR runs, the place it is at is short of one.
SameBlackHeight ==
  \A n, m \in Elements : \A d, e \in Sides :
    tree.child[d][n] = Nil /\ tree.child[e][m] = Nil => BlackAbove(n, d) = BlackAbove(m, e)

\* The rebalancing loops follow links without testing them: a red parent has a parent,
\* and next to a place that is short of a black node there is a sibling.
NoNullFollowed ==
  /\ job.at = "insert" /\ TwoReds => Grandparent # Nil
  /\ job.at = "remove" /\ Short =>
       job.parent # Nil /\ tree.child[Other(ShortSide)][job.parent] # Nil /\ Sibling # Nil
=============================================================================
