------------------------------ MODULE SplayTree ------------------------------
(***************************************************************************)
(* The splay tree of uv/tree.h (the SPLAY_ macros).                        *)
(*                                                                         *)
(* A node is its key.  Every operation first splays: the loop takes the    *)
(* tree apart from the top, hangs what lies to the right and to the left   *)
(* of the goal below a header, and puts the parts together again below the *)
(* node it ends at.  Each iteration is an action.  The branches of the     *)
(* source that mirror each other are one definition with a side.  The      *)
(* fields of a node that was removed mean nothing until it is inserted.    *)
(***************************************************************************)
EXTENDS Integers, TreeNodes

CONSTANTS
  SplayKeys,   \* bound: the keys, integers
  Hdr          \* __node, the header of the two trees that are split off

ASSUME SplayKeysAssumption ==
  /\ SplayKeys \subseteq Int
  /\ Nil \notin SplayKeys \cup {Hdr} /\ Hdr \notin SplayKeys

VARIABLES
  root,
  child,    \* left and right link of each node and of the header
  ends,     \* __right (under "L") and __left (under "R"): where the next part is hung
  rest,     \* __tmp of SPLAY_REMOVE: what was right of the removed node
  splay,    \* the operation under way: [op, arg, at], at "splay", "splayed", "join", "joined"
  each,     \* the node a FOREACH loop is at
  answered  \* the last call that returned: [op, arg, answer]

splayVars == <<root, child, ends, rest, splay, each, answered>>

SplayLinks == SplayKeys \cup {Nil}
NoSplay == [op |-> "none", arg |-> Nil, at |-> "idle"]

SplayInit ==
  /\ root = Nil
  /\ child = [d \in Sides |-> [n \in SplayKeys \cup {Hdr} |-> Nil]]
  /\ ends = [d \in Sides |-> Hdr]
  /\ rest = Nil
  /\ splay = NoSplay
  /\ each = Nil
  /\ answered = [op |-> "none", arg |-> Nil, answer |-> Nil]

-----------------------------------------------------------------------------
(* SPLAY and SPLAY_MINMAX *)

\* Where the goal lies, seen from node n.
Toward(n) ==
  IF splay.op = "max" THEN "R"
  ELSE IF splay.arg = Nil \/ splay.arg < n THEN "L"   \* without a key: SPLAY_MIN
  ELSE IF splay.arg > n THEN "R" ELSE "here"

\* One iteration on the way to side d: rotate if the goal is further on that side.
TurnUnlessNext ==   \* faulty variant: stops one node above the goal
  LET d == Toward(root) IN d # "here" /\ child[d][root] # Nil /\ Toward(child[d][root]) # "here"

Turn == LET d == Toward(root) IN d # "here" /\ child[d][root] # Nil
Zig(d) == Toward(child[d][root]) = d
RotatedRoot(d) == IF Zig(d) THEN child[d][root] ELSE root
Rotated(d) ==
  LET tmp == child[d][root]
  IN IF Zig(d) THEN [child EXCEPT ![d][root] = child[Other(d)][tmp], ![Other(d)][tmp] = root]
     ELSE child

\* SPLAY_ASSEMBLE, with the root r and the links c.
Assemble(r, c) ==
  LET left == ends["R"] right == ends["L"]
      hung == [c EXCEPT !["R"][left] = c["L"][r], !["L"][right] = c["R"][r]]
  IN /\ root' = r
     /\ child' = [hung EXCEPT !["L"][r] = hung["R"][Hdr], !["R"][r] = hung["L"][Hdr],
                              !["L"][Hdr] = Nil, !["R"][Hdr] = Nil]
     /\ ends' = [d \in Sides |-> Hdr]
     /\ splay' = [splay EXCEPT !.at = IF @ = "splay" THEN "splayed" ELSE "joined"]

\* SPLAY_LINKLEFT and SPLAY_LINKRIGHT: the root is hung at the end of the other part.
SplayLinkUnmoved ==   \* faulty variant: the end of the part is not moved
  /\ splay.at \in {"splay", "join"}
  /\ Turn
  /\ LET d == Toward(root)
         r == RotatedRoot(d)
         c == Rotated(d)
     IN /\ c[d][r] # Nil
        /\ child' = [c EXCEPT ![d][ends[d]] = r]
        /\ root' = c[d][r]
  /\ UNCHANGED <<ends, rest, splay, each, answered>>

SplayLink ==
  /\ splay.at \in {"splay", "join"}
  /\ Turn
  /\ LET d == Toward(root)
         r == RotatedRoot(d)
         c == Rotated(d)
     IN /\ c[d][r] # Nil
        /\ child' = [c EXCEPT ![d][ends[d]] = r]
        /\ ends' = [ends EXCEPT ![d] = r]
        /\ root' = c[d][r]
  /\ UNCHANGED <<rest, splay, each, answered>>

\* The goal is reached, or the node next to it: at once, or after a rotation.
SplayEnd ==
  /\ splay.at \in {"splay", "join"}
  /\ IF Turn
       THEN LET d == Toward(root)
            IN Rotated(d)[d][RotatedRoot(d)] = Nil /\ Assemble(RotatedRoot(d), Rotated(d))
       ELSE Assemble(root, child)
  /\ UNCHANGED <<rest, each, answered>>

-----------------------------------------------------------------------------
(* The operations *)

Answers(op, arg, answer) == answered' = [op |-> op, arg |-> arg, answer |-> answer]
AnswersArg(answer) == Answers(splay.op, splay.arg, answer) /\ splay' = NoSplay

\* SPLAY_INSERT, SPLAY_REMOVE, SPLAY_FIND, SPLAY_MIN, SPLAY_MAX and the first step of
\* SPLAY_FOREACH begin with a splay unless the tree is empty.
Begin(op, arg) ==
  /\ splay = NoSplay /\ each = Nil /\ root # Nil
  /\ splay' = [op |-> op, arg |-> arg, at |-> "splay"]
  /\ UNCHANGED <<root, child, ends, rest, each, answered>>

\* The same on an empty tree.
InsertEmpty(e) ==
  /\ splay = NoSplay /\ each = Nil /\ root = Nil
  /\ root' = e
  /\ child' = [d \in Sides |-> [child[d] EXCEPT ![e] = Nil]]
  /\ Answers("insert", e, Nil)
  /\ UNCHANGED <<ends, rest, splay, each>>

CallEmpty(op, arg) ==
  /\ splay = NoSplay /\ each = Nil /\ root = Nil
  /\ Answers(op, arg, Nil)
  /\ UNCHANGED <<root, child, ends, rest, splay, each>>

At(op) == splay.at = "splayed" /\ splay.op = op

\* SPLAY_INSERT: the root is split off to its side, and elm becomes the root.
InsertSplayed ==
  LET e == splay.arg
      d == Toward(root)
  IN
  /\ At("insert")
  /\ IF d = "here" THEN UNCHANGED <<root, child>> /\ AnswersArg(root)
     ELSE /\ child' = [child EXCEPT ![d][e] = child[d][root], ![Other(d)][e] = root,
                                    ![d][root] = Nil]
          /\ root' = e
          /\ AnswersArg(Nil)
  /\ UNCHANGED <<ends, rest, each>>

\* SPLAY_REMOVE: the root goes.  If it had a left part, that is splayed as well, for its
\* greatest node to become the root, and the right part is put below it.
RemoveSplayed ==
  LET right == child["R"][root]
      left  == child["L"][root]
  IN
  /\ At("remove")
  /\ IF root # splay.arg THEN UNCHANGED <<root, child, rest>> /\ AnswersArg(Nil)
     ELSE /\ child' = [d \in Sides |-> [child[d] EXCEPT ![root] = Nil]]
          /\ Answers("remove", splay.arg, splay.arg)
          /\ IF left = Nil THEN root' = right /\ rest' = rest /\ splay' = NoSplay
             ELSE root' = left /\ rest' = right /\ splay' = [splay EXCEPT !.at = "join"]
  /\ UNCHANGED <<ends, each>>

Join ==
  /\ splay.at = "joined"
  /\ child' = [child EXCEPT !["R"][root] = rest]
  /\ rest' = Nil
  /\ splay' = NoSplay
  /\ UNCHANGED <<root, ends, each, answered>>

FindSplayed ==
  /\ At("find")
  /\ AnswersArg(IF root = splay.arg THEN root ELSE Nil)
  /\ UNCHANGED <<root, child, ends, rest, each>>

MinMaxSplayed ==
  /\ At("min") \/ At("max")
  /\ AnswersArg(root)
  /\ UNCHANGED <<root, child, ends, rest, each>>

\* SPLAY_NEXT, of a node in the tree: the splay made it the root.
Successor(n) ==
  LET down[m \in SplayKeys] == IF child["L"][m] = Nil THEN m ELSE down[child["L"][m]]
  IN IF child["R"][n] = Nil THEN Nil ELSE down[child["R"][n]]

NextSplayed ==
  /\ At("next")
  /\ AnswersArg(Successor(splay.arg))
  /\ UNCHANGED <<root, child, ends, rest, each>>

\* SPLAY_FOREACH: SPLAY_MIN, and then SPLAY_NEXT again and again.
VisitSplayed ==
  LET x == IF splay.arg = Nil THEN root ELSE Successor(splay.arg) IN
  /\ At("visit")
  /\ each' = x
  /\ Answers("visit", Nil, x)
  /\ splay' = NoSplay
  /\ UNCHANGED <<root, child, ends, rest>>

SplayForEachNext ==
  /\ splay = NoSplay /\ each # Nil
  /\ splay' = [op |-> "visit", arg |-> each, at |-> "splay"]
  /\ UNCHANGED <<root, child, ends, rest, each, answered>>

-----------------------------------------------------------------------------
\* The nodes below each link, with the links that lead to the children.
NodesBelow(links) ==
  LET below[n \in SplayLinks] ==
        IF n = Nil THEN {} ELSE below[links["L"][n]] \cup {n} \cup below[links["R"][n]]
  IN below

\* The link where the next node will be hung to a part still leads to the tree: it does
\* not count.
OpenLinks ==
  [d \in Sides |-> [n \in SplayKeys \cup {Hdr} |-> IF n = ends[d] THEN Nil ELSE child[d][n]]]

\* The nodes in the tree, in the two parts that were split off, and in what SPLAY_REMOVE
\* set aside.
SplayElements ==
  LET below == NodesBelow(OpenLinks)
  IN below[root] \cup below[OpenLinks["L"][Hdr]] \cup below[OpenLinks["R"][Hdr]] \cup below[rest]

SplayNext ==
  \/ \E e \in SplayKeys :
       \/ \E op \in {"insert", "remove", "find"} : Begin(op, e)
       \/ e \in SplayElements /\ Begin("next", e)
       \/ InsertEmpty(e) \/ CallEmpty("remove", e) \/ CallEmpty("find", e)
  \/ \E op \in {"min", "max", "visit"} : Begin(op, Nil) \/ CallEmpty(op, Nil)
  \/ SplayLink \/ SplayEnd
  \/ InsertSplayed \/ RemoveSplayed \/ Join \/ FindSplayed \/ MinMaxSplayed
  \/ NextSplayed \/ VisitSplayed \/ SplayForEachNext

SplaySpec == SplayInit /\ [][SplayNext]_splayVars

-----------------------------------------------------------------------------
(* Properties *)

\* Every operation gives the answer of an ordered set, no node is lost or added while
\* the tree is taken apart, and a FOREACH loop visits all elements in order although
\* each of its steps changes the tree.
SplaySet == INSTANCE OrderedSet WITH
  Keys <- SplayKeys,
  call <- answered,
  set  <- SplayElements,
  walk <- IF each = Nil THEN "none" ELSE "R",
  todo <- IF each = Nil THEN {} ELSE {e \in SplayElements : e > each}

SplayImplementsOrderedSet == SplaySet!Spec

\* A splay ends at the goal if it is in the tree and else next to it, so that the caller
\* finds the place of a new node, and the minimum or maximum, at the root.
SplayReachesGoal ==
  splay.at = "splayed" =>
    \A e \in SplayElements :
      CASE Toward(root) = "L" -> e < root => splay.arg # Nil /\ e < splay.arg
        [] Toward(root) = "R" -> e > root => splay.arg # Nil /\ e > splay.arg
        [] OTHER              -> TRUE
=============================================================================
