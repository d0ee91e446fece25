-------------------------------- MODULE RBTree -------------------------------
(***************************************************************************)
(* algorithm/rbtree.h: a red-black tree with parent pointers.              *)
(*                                                                         *)
(* The tree is one record, as the code changes it by sequences of          *)
(* assignments; the iterations of the two repair loops are steps of their  *)
(* own.  The mirrored halves of the code are one definition with a side.   *)
(*                                                                         *)
(* A node's key never changes, so it is given by the node.  insert( T )    *)
(* passes four arguments to the constructor of a node, which takes five:   *)
(* the model has what the constructor leaves and insert( root, node ) uses.*)
(***************************************************************************)
EXTENDS Integers, Sequences, FiniteSets

CONSTANTS Nodes, Key, Null

Keys == {Key[n] : n \in Nodes}

ASSUME TreeAssumption ==
    /\ IsFiniteSet(Nodes) /\ Null \notin Nodes
    /\ Key \in [Nodes -> Int]

VARIABLES
    tree,    \* mRoot, and of each node its color, parent and children
    live,    \* the allocated nodes
    pc,      \* idle, insertFixUp, removeFixUp, destroyed
    node,    \* in a loop: the node under repair
    par,     \* in removeFixUp(): its parent, as the node may be null
    doomed,  \* in remove(): the node to be deleted at its end
    \* history
    asked    \* the last call of insert() or remove()

loop == <<pc, node, par, doomed>>
vars == <<tree, live, loop, asked>>

Sides    == {"left", "right"}
Other(s) == IF s = "left" THEN "right" ELSE "left"

Red(t, x)   == x # Null /\ t.color[x] = "RED"
Black(t, x) == ~Red(t, x)
Paint(t, x, c) == [t EXCEPT !.color[x] = c]

\* The side of its parent a node is on: every test of the code asks for left.
SideOf(t, x) == IF t.child["left"][t.parent[x]] = x THEN "left" ELSE "right"

\* c becomes the child of p on side s, or the root.
Link(t, p, s, c) ==
    LET t1 == IF p = Null THEN [t EXCEPT !.mRoot = c] ELSE [t EXCEPT !.child[s][p] = c]
    IN  IF c = Null THEN t1 ELSE [t1 EXCEPT !.parent[c] = p]

\* c takes the place x has.
Replace(t, x, c) ==
    Link(t, t.parent[x], IF t.parent[x] = Null THEN "left" ELSE SideOf(t, x), c)

Init ==
    /\ tree = [mRoot  |-> Null,
               color  |-> [n \in Nodes |-> "RED"],
               parent |-> [n \in Nodes |-> Null],
               child  |-> [s \in Sides |-> [n \in Nodes |-> Null]]]
    /\ live = {}
    /\ pc = "idle" /\ node = Null /\ par = Null /\ doomed = Null
    /\ asked = <<>>

-----------------------------------------------------------------------------
(* Searches.                                                               *)

\* search() and iterativeSearch()
Search(t, k) ==
    LET at[x \in Nodes \cup {Null}] ==
            IF x = Null \/ Key[x] = k THEN x
            ELSE at[t.child[IF k < Key[x] THEN "left" ELSE "right"][x]]
    IN  at[t.mRoot]

\* minimum() goes to the left, maximum() to the right
Extreme(t, x, s) ==
    LET at[y \in Nodes] == IF t.child[s][y] = Null THEN y ELSE at[t.child[s][y]]
    IN  IF x = Null THEN Null ELSE at[x]

Minimum(t, x) == Extreme(t, x, "left")
Maximum(t, x) == Extreme(t, x, "right")

\* Mutant: only one step up.
AncestorParent(t, x, s) == t.parent[x]

\* The first ancestor reached from its other side.
Ancestor(t, x, s) ==
    LET at[y \in Nodes] ==
            IF t.parent[y] # Null /\ y = t.child[s][t.parent[y]] THEN at[t.parent[y]] ELSE t.parent[y]
    IN  at[x]

Successor(t, x) ==
    IF t.child["right"][x] # Null THEN Minimum(t, t.child["right"][x]) ELSE Ancestor(t, x, "right")

Predecessor(t, x) ==
    IF t.child["left"][x] # Null THEN Maximum(t, t.child["left"][x]) ELSE Ancestor(t, x, "left")

\* inOrder(), as a list of nodes
InOrder(t) ==
    LET walk[x \in Nodes \cup {Null}] ==
            IF x = Null THEN <<>>
            ELSE walk[t.child["left"][x]] \o <<x>> \o walk[t.child["right"][x]]
    IN  walk[t.mRoot]

-----------------------------------------------------------------------------
\* x goes down to side s, its child on the other side takes its place.
Rotate(t, x, s) ==
    LET y == t.child[Other(s)][x]
    IN  Link(Replace(Link(t, x, Other(s), t.child[s][y]), x, y), y, s, x)

LeftRotate(t, x)  == Rotate(t, x, "left")
RightRotate(t, y) == Rotate(t, y, "right")
RotateTo(t, x, s) == IF s = "left" THEN LeftRotate(t, x) ELSE RightRotate(t, x)

-----------------------------------------------------------------------------
(* insert( key )                                                           *)

\* The last node on the way down: an equal key goes to the right.
Below(k, x) == IF k < Key[x] THEN "left" ELSE "right"

Leaf(t, k) ==
    LET at[x \in Nodes] ==
            IF t.child[Below(k, x)][x] = Null THEN x ELSE at[t.child[Below(k, x)][x]]
    IN  IF t.mRoot = Null THEN Null ELSE at[t.mRoot]

Insert(n) ==
    /\ pc = "idle" /\ n \notin live
    /\ LET y == Leaf(tree, Key[n])
       IN  tree' = Paint(Link(tree, y, IF y = Null THEN "left" ELSE Below(Key[n], y), n), n, "RED")
    /\ live' = live \cup {n}
    /\ pc' = "insertFixUp" /\ node' = n /\ asked' = <<"insert", n>>
    /\ UNCHANGED <<par, doomed>>

\* The loop ends at a black parent, or at the root.
Violating == Red(tree, tree.parent[node])
GParent   == tree.parent[tree.parent[node]]
Uncle(s)  == tree.child[Other(s)][GParent]

\* Case 1: the uncle is red.
InsertRecolor(s) ==
    /\ Red(tree, Uncle(s))
    /\ tree' = Paint(Paint(Paint(tree, Uncle(s), "BLACK"), tree.parent[node], "BLACK"), GParent, "RED")
    /\ node' = GParent

\* Cases 2 and 3: the uncle is black.  A node on the inner side changes places
\* with its parent first.
InsertRotate(s) ==
    /\ Black(tree, Uncle(s))
    /\ LET p     == tree.parent[node]
           inner == tree.child[Other(s)][p] = node
           t     == IF inner THEN RotateTo(tree, p, s) ELSE tree
           top   == IF inner THEN node ELSE p
       IN  /\ tree' = RotateTo(Paint(Paint(t, top, "BLACK"), GParent, "RED"), GParent, Other(s))
           /\ node' = IF inner THEN p ELSE node

InsertFixUp ==
    /\ pc = "insertFixUp" /\ Violating
    /\ LET s == SideOf(tree, tree.parent[node]) IN InsertRecolor(s) \/ InsertRotate(s)
    /\ UNCHANGED <<live, pc, par, doomed, asked>>

InsertEnds ==
    /\ pc = "insertFixUp" /\ ~Violating
    /\ tree' = Paint(tree, tree.mRoot, "BLACK")
    /\ pc' = "idle" /\ node' = Null
    /\ UNCHANGED <<live, par, doomed, asked>>

-----------------------------------------------------------------------------
(* remove( key )                                                           *)

\* A freed node's fields are nobody's.
Forget(t, x) ==
    [t EXCEPT !.color[x] = "RED", !.parent[x] = Null,
              !.child = [s \in Sides |-> [t.child[s] EXCEPT ![x] = Null]]]

\* The loop runs only if a black node has left its place.
Unlinked(t, x, c, n, p) ==
    IF c = "BLACK"
    THEN /\ tree' = t /\ pc' = "removeFixUp" /\ node' = n /\ par' = p /\ doomed' = x
         /\ UNCHANGED live
    ELSE /\ tree' = Forget(t, x) /\ live' = live \ {x}
         /\ UNCHANGED loop

\* Mutant: the successor keeps its own color.
RemoveInnerOwnColor(x) ==
    LET new   == Minimum(tree, tree.child["right"][x])
        child == tree.child["right"][new]
        near  == tree.parent[new] = x
        t1    == Replace(tree, x, new)
        t2    == IF near THEN t1
                 ELSE Link(Link(t1, tree.parent[new], "left", child), new, "right", tree.child["right"][x])
    IN  Unlinked(Link(t2, new, "left", tree.child["left"][x]), x, tree.color[new], child,
                 IF near THEN new ELSE tree.parent[new])

\* Mutant: the successor leaves its place and does not take the node's.
RemoveInnerNext(x) ==
    LET new   == Minimum(tree, tree.child["right"][x])
        child == tree.child["right"][new]
    IN  Unlinked(Replace(tree, new, child), new, tree.color[new], child, tree.parent[new])

\* A node with two children: its successor takes its place and its color.
RemoveInner(x) ==
    LET new   == Minimum(tree, tree.child["right"][x])
        child == tree.child["right"][new]
        near  == tree.parent[new] = x
        t1    == Replace(tree, x, new)
        t2    == IF near THEN t1
                 ELSE Link(Link(t1, tree.parent[new], "left", child), new, "right", tree.child["right"][x])
        t3    == Paint(Link(t2, new, "left", tree.child["left"][x]), new, tree.color[x])
    IN  Unlinked(t3, x, tree.color[new], child, IF near THEN new ELSE tree.parent[new])

\* Any other node: its child, if there is one, takes its place.
RemoveOuter(x) ==
    LET child == tree.child[IF tree.child["left"][x] # Null THEN "left" ELSE "right"][x]
    IN  Unlinked(Replace(tree, x, child), x, tree.color[x], child, tree.parent[x])

\* What search() finds is removed, if it finds anything.
Remove(k) ==
    /\ pc = "idle" /\ asked' = <<"remove", k>>
    /\ LET x == Search(tree, k) IN
       \/ x = Null /\ UNCHANGED <<tree, live, loop>>
       \/ /\ x # Null
          /\ IF \A s \in Sides : tree.child[s][x] # Null THEN RemoveInner(x) ELSE RemoveOuter(x)

Missing == Black(tree, node) /\ node # tree.mRoot

\* Cases 2 to 4, with a black sibling.
RemoveRepair(t, s) ==
    LET o     == Other(s)
        other == t.child[o][par]
        far   == t.child[o][other]
        near  == t.child[s][other]
    IN  IF Black(t, near) /\ Black(t, far)
        THEN /\ tree' = Paint(t, other, "RED")
             /\ node' = par /\ par' = t.parent[par]
        ELSE LET t1   == IF Red(t, far) THEN t
                         ELSE RotateTo(Paint(Paint(t, near, "BLACK"), other, "RED"), other, o)
                 sib  == t1.child[o][par]
                 t2   == Paint(Paint(t1, sib, t1.color[par]), par, "BLACK")
                 t3   == RotateTo(Paint(t2, t2.child[o][sib], "BLACK"), par, s)
             IN  /\ tree' = t3 /\ node' = t3.mRoot
                 /\ UNCHANGED par

\* Case 1 makes the sibling black.
RemoveFixUp ==
    /\ pc = "removeFixUp" /\ Missing
    /\ LET s     == IF tree.child["left"][par] = node THEN "left" ELSE "right"
           other == tree.child[Other(s)][par]
       IN  RemoveRepair(IF Red(tree, other)
                        THEN RotateTo(Paint(Paint(tree, other, "BLACK"), par, "RED"), par, s)
                        ELSE tree, s)
    /\ UNCHANGED <<live, pc, doomed, asked>>

RemoveEnds ==
    /\ pc = "removeFixUp" /\ ~Missing
    /\ tree' = Forget(IF node = Null THEN tree ELSE Paint(tree, node, "BLACK"), doomed)
    /\ live' = live \ {doomed}
    /\ pc' = "idle" /\ node' = Null /\ par' = Null /\ doomed' = Null
    /\ UNCHANGED asked

-----------------------------------------------------------------------------
\* The last node of the way that prefers the left: only this one is deleted,
\* as each level returns what its first subtree returns.
DestroyLeaf(t) ==
    LET at[x \in Nodes] ==
            IF t.child["left"][x] # Null THEN at[t.child["left"][x]]
            ELSE IF t.child["right"][x] # Null THEN at[t.child["right"][x]] ELSE x
    IN  at[t.mRoot]

\* Mutant: the pointer to the deleted node is kept.
DestroyKeepsPointer ==
    /\ pc = "idle" /\ pc' = "destroyed"
    /\ tree.mRoot # Null
    /\ tree' = Forget(tree, DestroyLeaf(tree)) /\ live' = live \ {DestroyLeaf(tree)}
    /\ UNCHANGED <<node, par, doomed, asked>>

Destroy ==
    /\ pc = "idle" /\ pc' = "destroyed"
    /\ IF tree.mRoot = Null THEN UNCHANGED <<tree, live>>
       ELSE LET x == DestroyLeaf(tree) IN
            tree' = Forget(Replace(tree, x, Null), x) /\ live' = live \ {x}
    /\ UNCHANGED <<node, par, doomed, asked>>

Next ==
    \/ \E n \in Nodes : Insert(n)
    \/ InsertFixUp \/ InsertEnds
    \/ \E k \in Keys : Remove(k)
    \/ RemoveFixUp \/ RemoveEnds
    \/ Destroy

Spec == Init /\ [][Next]_vars

-----------------------------------------------------------------------------
Linked == LET list == InOrder(tree) IN {list[i] : i \in DOMAIN list}

TypeOK ==
    /\ tree \in [mRoot  : Nodes \cup {Null},
                 color  : [Nodes -> {"RED", "BLACK"}],
                 parent : [Nodes -> Nodes \cup {Null}],
                 child  : [Sides -> [Nodes -> Nodes \cup {Null}]]]
    /\ live \subseteq Nodes
    /\ pc \in {"idle", "insertFixUp", "removeFixUp", "destroyed"}
    /\ node \in Nodes \cup {Null} /\ par \in Nodes \cup {Null} /\ doomed \in Nodes \cup {Null}

\* The nodes in the tree are the allocated ones but the one remove() is about to
\* delete, each is there once, and its parent pointer is the way back: nothing
\* is lost and no pointer leads to freed memory, in the loops and after
\* destroy() too.
WellLinked ==
    /\ TypeOK
    /\ Len(InOrder(tree)) = Cardinality(Linked)
    /\ Linked = live \ {doomed}
    /\ tree.mRoot # Null => tree.parent[tree.mRoot] = Null
    /\ \A x \in live \ {doomed}, s \in Sides :
           tree.child[s][x] # Null => tree.parent[tree.child[s][x]] = x

\* Where removeFixUp() is one black node short.
Short(x, s) ==
    /\ pc = "removeFixUp" /\ node # tree.mRoot /\ x = par
    /\ s = IF tree.child["left"][par] = node THEN "left" ELSE "right"

\* Black nodes on the way down to the left, what is short counted as there.
BlackHeight ==
    LET h[x \in Nodes \cup {Null}] ==
            IF x = Null THEN 0
            ELSE h[tree.child["left"][x]] + (IF Short(x, "left") THEN 1 ELSE 0)
                                          + (IF Red(tree, x) THEN 0 ELSE 1)
    IN  h

\* No red node has a red child and every way down has as many black nodes; in
\* the loops, but for the node under repair, which its end makes black.
RedBlack ==
    LET h == BlackHeight
        Height(x, s) == h[tree.child[s][x]] + (IF Short(x, s) THEN 1 ELSE 0)
    IN  pc # "destroyed" =>
            \A x \in Linked :
                /\ Red(tree, x) => \/ Black(tree, tree.parent[x]) /\ x # tree.mRoot
                                   \/ x = node
                                   \/ pc = "removeFixUp" /\ tree.parent[x] = node
                /\ Height(x, "left") = Height(x, "right")

\* Every search is right at every moment: a key is found if and only if it is
\* there, and each node's successor and predecessor are its neighbours in a list
\* that is sorted.  Of equal keys one may be the neighbour of the other.
Navigation ==
    LET list == InOrder(tree)
        len  == Len(list)
    IN  /\ \A i \in 1 .. len - 1 : Key[list[i]] <= Key[list[i + 1]]
        /\ \A k \in Keys :
               LET x == Search(tree, k)
               IN  IF \E i \in 1 .. len : Key[list[i]] = k THEN Key[x] = k ELSE x = Null
        /\ \A i \in 1 .. len :
               /\ Successor(tree, list[i]) = IF i < len THEN list[i + 1] ELSE Null
               /\ Predecessor(tree, list[i]) = IF i > 1 THEN list[i - 1] ELSE Null

\* The tree implements a bag of keys: insert() puts in the node it was asked for,
\* remove() takes out one node with the key it was asked for, if and only if one
\* is there, and no iteration of a repair loop changes what is linked.
State == IF pc \in {"idle", "destroyed"} THEN pc ELSE "busy"

Abstract == INSTANCE KeyBag WITH Items <- Nodes, bag <- Linked, state <- State

IsKeyBag == Abstract!Spec
=============================================================================
