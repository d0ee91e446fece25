---------------------------- MODULE RBTreeProofs -----------------------------
(***************************************************************************)
(* The red-black tree, for any nodes and any keys: its pointers agree and  *)
(* lead to each allocated node once, its colors and black heights are      *)
(* right but where a repair is under way, its searches find what is there, *)
(* and what it links is the bag of keys it stands for.                     *)
(*                                                                         *)
(* A tree is told without recursion: each node has a place among the       *)
(* integers and bounds that what is below it lies within (Placed).  A      *)
(* rotation leaves the places alone and moves bounds; remove() gives a     *)
(* place to another node.  Where the bounds narrow on every way down, the  *)
(* recursive functions of the model have the values of their recursion     *)
(* (Recursive), and the list in order is the one by places (Run).          *)
(***************************************************************************)
EXTENDS RBTree, FiniteSetTheorems, SequenceTheorems, WellFoundedInduction, TLAPS

Pointers == Nodes \cup {Null}

IsTree(t) == t \in [mRoot  : Pointers,
                    color  : [Nodes -> {"RED", "BLACK"}],
                    parent : [Nodes -> Pointers],
                    child  : [Sides -> [Nodes -> Pointers]]]

\* Child and parent pointers agree on the nodes L.
Shape(t, L) ==
    /\ IsTree(t) /\ L \subseteq Nodes /\ t.mRoot \in L \cup {Null}
    /\ t.mRoot # Null => t.parent[t.mRoot] = Null
    /\ \A x \in L, s \in Sides :
           t.child[s][x] # Null => t.child[s][x] \in L /\ t.parent[t.child[s][x]] = x
    /\ \A x \in L \ {t.mRoot} : t.parent[x] \in L /\ \E s \in Sides : t.child[s][t.parent[x]] = x

\* Each node has a place, and what is below it lies within its bounds, to the
\* left and to the right of the place.  The widest bounds are those of Null.
Placed(t, L, lo, at, hi) ==
    /\ lo \in [Pointers -> Int] /\ at \in [Pointers -> Int] /\ hi \in [Pointers -> Int]
    /\ \A x \in L : lo[x] < at[x] /\ at[x] < hi[x]
    /\ \A x \in L : lo[Null] <= lo[x] /\ hi[x] <= hi[Null]
    /\ \A x \in L : LET c == t.child["left"][x]
                    IN  c # Null => lo[x] <= lo[c] /\ hi[c] <= at[x]
    /\ \A x \in L : LET c == t.child["right"][x]
                    IN  c # Null => at[x] <= lo[c] /\ hi[c] <= hi[x]

\* u is t with c linked to p, or with x painted or freed.
Attached(t, u, p, s, c) ==
    /\ IsTree(u) /\ u.color = t.color
    /\ u.mRoot = IF p = Null THEN c ELSE t.mRoot
    /\ \A r \in Sides, x \in Nodes :
           u.child[r][x] = IF r = s /\ x = p THEN c ELSE t.child[r][x]
    /\ \A x \in Nodes : u.parent[x] = IF x = c THEN p ELSE t.parent[x]

Painted(t, u, x, c) ==
    /\ IsTree(u) /\ u.mRoot = t.mRoot /\ u.parent = t.parent /\ u.child = t.child
    /\ \A y \in Nodes : u.color[y] = IF y = x THEN c ELSE t.color[y]

Forgotten(t, u, x) ==
    /\ IsTree(u) /\ u.mRoot = t.mRoot
    /\ \A y \in Nodes \ {x} : /\ u.color[y] = t.color[y] /\ u.parent[y] = t.parent[y]
                              /\ \A s \in Sides : u.child[s][y] = t.child[s][y]
    /\ u.parent[x] = Null /\ \A s \in Sides : u.child[s][x] = Null

\* x is where its parent says.
HasPlace(t, x) ==
    /\ t.parent[x] = Null => t.mRoot = x
    /\ t.parent[x] # Null =>
           /\ t.mRoot # x
           /\ \E s \in Sides : /\ t.child[s][t.parent[x]] = x
                              /\ t.child[Other(s)][t.parent[x]] # x

\* u is t with c in the place of x.
Replaced(t, u, x, c) ==
    /\ IsTree(u) /\ u.color = t.color
    /\ u.mRoot = IF t.mRoot = x THEN c ELSE t.mRoot
    /\ \A z \in Nodes : u.parent[z] = IF z = c THEN t.parent[x] ELSE t.parent[z]
    /\ \A z \in Nodes, r \in Sides :
           u.child[r][z] = IF z = t.parent[x] /\ t.child[r][z] = x THEN c ELSE t.child[r][z]

\* u is t with x below y, its child on the side other than s.
Rotated(t, u, x, y, s) ==
    /\ IsTree(u) /\ u.color = t.color
    /\ u.mRoot = IF t.mRoot = x THEN y ELSE t.mRoot
    /\ \A z \in Nodes :
           u.parent[z] = IF z = x THEN y
                         ELSE IF z = y THEN t.parent[x]
                         ELSE IF z = t.child[s][y] THEN x ELSE t.parent[z]
    /\ \A z \in Nodes, r \in Sides :
           u.child[r][z] = IF z = x /\ r = Other(s) THEN t.child[s][y]
                           ELSE IF z = y /\ r = s THEN x
                           ELSE IF z = t.parent[x] /\ t.child[r][z] = x THEN y
                           ELSE t.child[r][z]

USE TreeAssumption

LEMMA SidesAre ==
    /\ "left" \in Sides /\ "right" \in Sides
    /\ \A s \in Sides : Other(s) \in Sides /\ Other(s) # s /\ Other(Other(s)) = s
    /\ \A s \in Sides : s = "left" \/ s = "right"
    /\ \A s \in Sides, r \in Sides : r = s \/ r = Other(s)
    /\ Other("left") = "right" /\ Other("right") = "left"
BY DEF Sides, Other

-----------------------------------------------------------------------------
(* What the assignments change.                                            *)

LEMMA LinkEffect ==
    ASSUME NEW t, IsTree(t), NEW p \in Pointers, NEW s \in Sides, NEW c \in Pointers
    PROVE  Attached(t, Link(t, p, s, c), p, s, c)
<1> DEFINE t1 == IF p = Null THEN [t EXCEPT !.mRoot = c] ELSE [t EXCEPT !.child[s][p] = c]
           u  == IF c = Null THEN t1 ELSE [t1 EXCEPT !.parent[c] = p]
<1>1. u = Link(t, p, s, c)
  BY DEF Link
<1>2. /\ IsTree(t1) /\ t1.color = t.color /\ t1.parent = t.parent
      /\ t1.mRoot = IF p = Null THEN c ELSE t.mRoot
      /\ \A r \in Sides, x \in Nodes :
             t1.child[r][x] = IF r = s /\ x = p THEN c ELSE t.child[r][x]
  <2>1. CASE p = Null
    BY <2>1 DEF IsTree, Pointers
  <2>2. CASE p # Null
    <3>1. p \in Nodes /\ t1 = [t EXCEPT !.child[s][p] = c]
      BY <2>2 DEF Pointers
    <3>2. t1 = [t EXCEPT !.child = [t.child EXCEPT ![s] = [t.child[s] EXCEPT ![p] = c]]]
      BY <3>1
    <3>3. [t.child EXCEPT ![s] = [t.child[s] EXCEPT ![p] = c]] \in [Sides -> [Nodes -> Pointers]]
      BY DEF IsTree
    <3>4. IsTree(t1) /\ t1.color = t.color /\ t1.parent = t.parent /\ t1.mRoot = t.mRoot
      BY <3>2, <3>3 DEF IsTree
    <3>5. \A r \in Sides, x \in Nodes :
             t1.child[r][x] = IF r = s /\ x = p THEN c ELSE t.child[r][x]
      BY <3>1, <3>2 DEF IsTree
    <3> QED BY <2>2, <3>4, <3>5
  <2> QED BY <2>1, <2>2
<1> HIDE DEF t1
<1>3. /\ IsTree(u) /\ u.color = t.color /\ u.child = t1.child /\ u.mRoot = t1.mRoot
      /\ \A x \in Nodes : u.parent[x] = IF x = c THEN p ELSE t.parent[x]
  <2>1. CASE c = Null
    BY <1>2, <2>1
  <2>2. CASE c # Null
    <3>1. c \in Nodes /\ u = [t1 EXCEPT !.parent = [t1.parent EXCEPT ![c] = p]]
      BY <2>2 DEF Pointers
    <3>2. [t1.parent EXCEPT ![c] = p] \in [Nodes -> Pointers]
      BY <1>2 DEF IsTree
    <3>3. IsTree(u) /\ u.color = t.color /\ u.child = t1.child /\ u.mRoot = t1.mRoot
      BY <1>2, <3>1, <3>2 DEF IsTree
    <3>4. \A x \in Nodes : u.parent[x] = IF x = c THEN p ELSE t.parent[x]
      BY <1>2, <3>1 DEF IsTree
    <3> QED BY <3>3, <3>4
  <2> QED BY <2>1, <2>2
<1> HIDE DEF u
<1>4. Attached(t, u, p, s, c)
  BY <1>2, <1>3 DEF Attached
<1> QED BY <1>1, <1>4, Zenon

LEMMA PaintEffect ==
    ASSUME NEW t, IsTree(t), NEW x \in Nodes, NEW c \in {"RED", "BLACK"}
    PROVE  Painted(t, Paint(t, x, c), x, c)
<1>1. PICK u : u = Paint(t, x, c)
  OBVIOUS
<1>2. u = [t EXCEPT !.color = [t.color EXCEPT ![x] = c]]
  BY <1>1 DEF Paint
<1>3. [t.color EXCEPT ![x] = c] \in [Nodes -> {"RED", "BLACK"}]
  BY DEF IsTree
<1>4. IsTree(u) /\ u.mRoot = t.mRoot /\ u.parent = t.parent /\ u.child = t.child
  BY <1>2, <1>3 DEF IsTree
<1>5. \A y \in Nodes : u.color[y] = IF y = x THEN c ELSE t.color[y]
  BY <1>2, <1>3 DEF IsTree
<1>6. Painted(t, u, x, c)
  BY <1>4, <1>5 DEF Painted
<1> QED BY <1>1, <1>6, Zenon

LEMMA ForgetEffect ==
    ASSUME NEW t, IsTree(t), NEW x \in Nodes
    PROVE  Forgotten(t, Forget(t, x), x)
<1>1. PICK u : u = Forget(t, x)
  OBVIOUS
<1> DEFINE co == [t.color EXCEPT ![x] = "RED"]
           pa == [t.parent EXCEPT ![x] = Null]
           ch == [s \in Sides |-> [t.child[s] EXCEPT ![x] = Null]]
<1>2. u = [t EXCEPT !.color = co, !.parent = pa, !.child = ch]
  BY <1>1 DEF Forget
<1>3. /\ co \in [Nodes -> {"RED", "BLACK"}] /\ pa \in [Nodes -> Pointers]
      /\ ch \in [Sides -> [Nodes -> Pointers]]
  BY DEF IsTree, Pointers
<1>4. /\ \A y \in Nodes \ {x} : /\ co[y] = t.color[y] /\ pa[y] = t.parent[y]
                                /\ \A s \in Sides : ch[s][y] = t.child[s][y]
      /\ pa[x] = Null
      /\ \A s \in Sides : ch[s][x] = Null
  BY DEF IsTree
<1> HIDE DEF co, pa, ch
<1>5. IsTree(u) /\ u.mRoot = t.mRoot /\ u.color = co /\ u.parent = pa /\ u.child = ch
  BY <1>2, <1>3 DEF IsTree
<1>6. Forgotten(t, u, x)
  BY <1>4, <1>5 DEF Forgotten
<1> QED BY <1>1, <1>6, Zenon

LEMMA ReplaceEffect ==
    ASSUME NEW t, IsTree(t), NEW x \in Nodes, NEW c \in Pointers, HasPlace(t, x)
    PROVE  Replaced(t, Replace(t, x, c), x, c)
<1> DEFINE p == t.parent[x]
           s == IF p = Null THEN "left" ELSE SideOf(t, x)
<1>1. p \in Pointers /\ s \in Sides /\ Replace(t, x, c) = Link(t, p, s, c)
  <2>1. p \in Pointers
    BY DEF IsTree
  <2>2. s \in Sides
    BY DEF SideOf, Sides
  <2> QED BY <2>1, <2>2 DEF Replace
<1>2. \A r \in Sides, z \in Nodes : (r = s /\ z = p) <=> (z = p /\ t.child[r][z] = x)
  <2>1. CASE p = Null
    BY <2>1
  <2>2. CASE p # Null
    <3>1. PICK q \in Sides : t.child[q][p] = x /\ t.child[Other(q)][p] # x
      BY <2>2 DEF HasPlace
    <3>2. s = q
      BY <2>2, <3>1, SidesAre DEF SideOf
    <3> QED BY <2>2, <3>1, <3>2, SidesAre
  <2> QED BY <2>1, <2>2
<1>3. (p = Null) <=> (t.mRoot = x)
  BY DEF HasPlace
<1> HIDE DEF s
<1>4. PICK u : u = Link(t, p, s, c)
  OBVIOUS
<1>5. Attached(t, u, p, s, c)
  BY <1>1, <1>4, LinkEffect
<1>6. Replaced(t, u, x, c)
  BY <1>2, <1>3, <1>5 DEF Attached, Replaced
<1> QED BY <1>1, <1>4, <1>6

LEMMA RotateEffect ==
    ASSUME NEW t, IsTree(t), NEW x \in Nodes, NEW s \in Sides, HasPlace(t, x),
           NEW y \in Nodes, y = t.child[Other(s)][x], x # y, t.parent[x] # x, t.parent[x] # y,
           t.child[s][y] # x, t.child[s][y] # y
    PROVE  Rotated(t, Rotate(t, x, s), x, y, s)
<1> DEFINE b == t.child[s][y]
           o == Other(s)
           p == t.parent[x]
           v == Link(t, x, o, b)
           w == Replace(v, x, y)
           u == Link(w, y, s, x)
<1>1. b \in Pointers /\ o \in Sides /\ o # s /\ p \in Pointers /\ y \in Pointers /\ x \in Pointers
  BY SidesAre DEF IsTree, Pointers
<1>2. u = Rotate(t, x, s)
  BY DEF Rotate
<1> HIDE DEF v
<1>3. Attached(t, v, x, o, b)
  BY <1>1, LinkEffect DEF v
<1>4. HasPlace(v, x) /\ v.parent[x] = p
  <2>1. v.parent[x] = p
    BY <1>3 DEF Attached
  <2>2. p # Null => p \in Nodes
    BY <1>1 DEF Pointers
  <2> QED BY <1>1, <1>3, <2>1, <2>2, SidesAre DEF HasPlace, Attached
<1> HIDE DEF w
<1>5. Replaced(v, w, x, y)
  BY <1>1, <1>3, <1>4, ReplaceEffect DEF w, Attached
<1> HIDE DEF u
<1>6. IsTree(w)
  BY <1>5 DEF Replaced
<1>7. Attached(w, u, y, s, x)
  BY <1>1, <1>6, LinkEffect DEF u
<1> HIDE DEF p, b, o
<1>8. u.color = t.color /\ u.mRoot = IF t.mRoot = x THEN y ELSE t.mRoot
  BY <1>1, <1>3, <1>5, <1>7 DEF Replaced, Attached
<1>9. \A z \in Nodes :
           u.parent[z] = IF z = x THEN y ELSE IF z = y THEN p ELSE IF z = b THEN x ELSE t.parent[z]
  BY <1>3, <1>4, <1>5, <1>7 DEF Replaced, Attached
<1>10. \A z \in Nodes, r \in Sides :
           u.child[r][z] = IF z = x /\ r = o THEN b
                           ELSE IF z = y /\ r = s THEN x
                           ELSE IF z = p /\ t.child[r][z] = x THEN y
                           ELSE t.child[r][z]
  BY <1>1, <1>3, <1>4, <1>5, <1>7 DEF Replaced, Attached, p
<1> QED BY <1>2, <1>7, <1>8, <1>9, <1>10 DEF Rotated, Attached, p, b, o

-----------------------------------------------------------------------------
(* The tree keeps its shape.                                               *)

Tree(t, L, lo, at, hi) == Shape(t, L) /\ Placed(t, L, lo, at, hi)

LEMMA Nested ==
    ASSUME NEW t, NEW L, NEW lo, NEW at, NEW hi, Tree(t, L, lo, at, hi),
           NEW x \in L, NEW s \in Sides, NEW c, c = t.child[s][x], c # Null
    PROVE  /\ c \in L /\ x \in Nodes /\ c \in Nodes /\ x # Null
           /\ t.parent[c] = x
           /\ lo[x] \in Int /\ lo[c] \in Int /\ hi[x] \in Int /\ hi[c] \in Int
           /\ at[x] \in Int /\ at[c] \in Int
           /\ hi[c] - lo[c] < hi[x] - lo[x]
           /\ s = "left" => lo[x] <= lo[c] /\ hi[c] <= at[x]
           /\ s = "right" => at[x] <= lo[c] /\ hi[c] <= hi[x]
           /\ lo[x] < at[x] /\ at[x] < hi[x] /\ lo[c] < at[c] /\ at[c] < hi[c]
<1>1. c \in L /\ x \in Nodes /\ c \in Nodes /\ x # Null /\ t.parent[c] = x
  BY DEF Tree, Shape
<1>2. /\ lo[x] \in Int /\ lo[c] \in Int /\ hi[x] \in Int /\ hi[c] \in Int
      /\ at[x] \in Int /\ at[c] \in Int
  BY <1>1 DEF Tree, Placed, Pointers
<1>3. lo[x] < at[x] /\ at[x] < hi[x] /\ lo[c] < at[c] /\ at[c] < hi[c]
  BY <1>1 DEF Tree, Placed
<1>4. s = "left" => lo[x] <= lo[c] /\ hi[c] <= at[x]
  BY <1>1 DEF Tree, Placed
<1>5. s = "right" => at[x] <= lo[c] /\ hi[c] <= hi[x]
  BY <1>1 DEF Tree, Placed
<1>6. hi[c] - lo[c] < hi[x] - lo[x]
  BY <1>2, <1>3, <1>4, <1>5, SidesAre
<1> QED BY <1>1, <1>2, <1>3, <1>4, <1>5, <1>6

LEMMA ChildrenDiffer ==
    ASSUME NEW t, NEW L, NEW lo, NEW at, NEW hi, Tree(t, L, lo, at, hi),
           NEW x \in L, NEW s \in Sides, t.child[s][x] # Null
    PROVE  t.child[Other(s)][x] # t.child[s][x]
<1> DEFINE c == t.child[s][x]
<1>1. SUFFICES ASSUME t.child[Other(s)][x] = c PROVE FALSE
  OBVIOUS
<1> HIDE DEF c
<1>2. t.child["left"][x] = c /\ t.child["right"][x] = c /\ c # Null
  BY <1>1, SidesAre DEF c
<1>3. hi[c] <= at[x] /\ at[x] \in Int /\ hi[c] \in Int
  BY <1>2, SidesAre, Nested
<1>4. at[x] <= lo[c] /\ lo[c] < at[c] /\ at[c] < hi[c] /\ lo[c] \in Int /\ at[c] \in Int
  BY <1>2, SidesAre, Nested
<1> QED BY <1>3, <1>4

LEMMA HasPlaceIn ==
    ASSUME NEW t, NEW L, NEW lo, NEW at, NEW hi, Tree(t, L, lo, at, hi), NEW x \in L
    PROVE  HasPlace(t, x)
<1>1. CASE x = t.mRoot
  <2>1. t.parent[x] = Null
    BY <1>1 DEF Shape, Tree
  <2> QED BY <1>1, <2>1 DEF HasPlace
<1>2. CASE x # t.mRoot
  <2> DEFINE p == t.parent[x]
  <2>1. p \in L /\ p # Null /\ x # Null
    BY <1>2 DEF Shape, Tree
  <2>2. PICK s \in Sides : t.child[s][p] = x
    BY <1>2 DEF Shape, Tree
  <2>3. t.child[Other(s)][p] # x
    BY <2>1, <2>2, ChildrenDiffer
  <2> QED BY <1>2, <2>1, <2>2, <2>3 DEF HasPlace
<1> QED BY <1>1, <1>2

LEMMA ParentOf ==
    ASSUME NEW t, NEW L, NEW lo, NEW at, NEW hi, Tree(t, L, lo, at, hi), NEW x \in L
    PROVE  /\ (t.parent[x] = Null) <=> (x = t.mRoot)
           /\ t.parent[x] # Null =>
                  /\ t.parent[x] \in L /\ t.parent[x] # x
                  /\ \E s \in Sides : /\ t.child[s][t.parent[x]] = x
                                      /\ t.child[Other(s)][t.parent[x]] # x
           /\ x # Null /\ x \in Nodes /\ HasPlace(t, x)
<1>1. x # Null /\ x \in Nodes /\ HasPlace(t, x)
  BY HasPlaceIn DEF Tree, Shape
<1>2. (t.parent[x] = Null) <=> (x = t.mRoot)
  BY <1>1 DEF Tree, Shape, HasPlace
<1>3. ASSUME t.parent[x] # Null
      PROVE  /\ t.parent[x] \in L /\ t.parent[x] # x
             /\ \E s \in Sides : /\ t.child[s][t.parent[x]] = x
                                 /\ t.child[Other(s)][t.parent[x]] # x
  <2> DEFINE p == t.parent[x]
  <2>1. p \in L
    BY <1>2, <1>3 DEF Tree, Shape
  <2>2. PICK s \in Sides : t.child[s][p] = x /\ t.child[Other(s)][p] # x
    BY <1>1, <1>3 DEF HasPlace
  <2> HIDE DEF p
  <2>3. p # x
    BY <1>1, <2>1, <2>2, Nested
  <2> QED BY <2>1, <2>2, <2>3 DEF p
<1> QED BY <1>1, <1>2, <1>3

\* What a rotation needs of the nodes around it.
LEMMA RotateAround ==
    ASSUME NEW t, NEW L, NEW lo, NEW at, NEW hi, Tree(t, L, lo, at, hi),
           NEW x \in L, NEW s \in Sides, NEW y, y = t.child[Other(s)][x], y # Null
    PROVE  /\ y \in L /\ t.parent[y] = x /\ x # y /\ t.parent[x] # x /\ t.parent[x] # y
           /\ t.child[s][y] # x /\ t.child[s][y] # y
           /\ t.child[s][y] # Null =>
                  /\ t.child[s][y] \in L /\ t.parent[t.child[s][y]] = y
                  /\ t.child[s][y] # t.parent[x]
           /\ x \in Nodes /\ y \in Nodes /\ HasPlace(t, x) /\ IsTree(t)
<1> DEFINE p == t.parent[x]
           b == t.child[s][y]
<1>1. /\ y \in L /\ t.parent[y] = x /\ x # y /\ x \in Nodes /\ y \in Nodes
      /\ hi[y] - lo[y] < hi[x] - lo[x]
      /\ lo[x] \in Int /\ lo[y] \in Int /\ hi[x] \in Int /\ hi[y] \in Int
  BY SidesAre, Nested
<1>2. HasPlace(t, x) /\ p # x /\ IsTree(t)
  BY ParentOf DEF Tree, Shape
<1>3. p # Null => p \in L /\ p # y /\ lo[p] \in Int /\ hi[p] \in Int /\ hi[x] - lo[x] < hi[p] - lo[p]
  <2>1. SUFFICES ASSUME p # Null
                 PROVE p \in L /\ p # y /\ lo[p] \in Int /\ hi[p] \in Int /\ hi[x] - lo[x] < hi[p] - lo[p]
    OBVIOUS
  <2>2. PICK r \in Sides : t.child[r][p] = x
    BY <2>1, ParentOf
  <2>3. p \in L
    BY <2>1, ParentOf
  <2> HIDE DEF p
  <2>4. hi[x] - lo[x] < hi[p] - lo[p] /\ lo[p] \in Int /\ hi[p] \in Int
    BY <1>1, <2>2, <2>3, ParentOf, Nested
  <2> QED BY <1>1, <2>3, <2>4
<1>4. b # Null => /\ b \in L /\ t.parent[b] = y /\ lo[b] \in Int /\ hi[b] \in Int
                  /\ hi[b] - lo[b] < hi[y] - lo[y]
  BY <1>1, Nested
<1> HIDE DEF p, b
<1>5. b # x /\ b # y
  BY <1>1, <1>4 DEF Tree, Shape
<1>6. b # Null => b # p
  BY <1>1, <1>3, <1>4 DEF Tree, Shape
<1>7. p # y
  BY <1>1, <1>3, ParentOf
<1> QED BY <1>1, <1>2, <1>4, <1>5, <1>6, <1>7 DEF p, b

LEMMA RotateShape ==
    ASSUME NEW t, NEW L, NEW lo, NEW at, NEW hi, Tree(t, L, lo, at, hi),
           NEW x \in L, NEW s \in Sides, NEW y, y = t.child[Other(s)][x], y # Null,
           NEW u, Rotated(t, u, x, y, s)
    PROVE  Shape(u, L)
<1> DEFINE p == t.parent[x]
           b == t.child[s][y]
           o == Other(s)
<1>1. /\ y \in L /\ t.parent[y] = x /\ x # y /\ p # x /\ p # y /\ b # x /\ b # y
      /\ x \in Nodes /\ y \in Nodes /\ x # Null
  BY RotateAround DEF Shape, Tree
<1>2. b # Null => b \in L /\ t.parent[b] = y /\ b # p /\ b \in Nodes
  BY RotateAround DEF Shape, Tree
<1>3. p # Null => p \in L /\ p \in Nodes
  BY ParentOf DEF Shape, Tree
<1>4. (p = Null) <=> (x = t.mRoot)
  BY ParentOf
<1>5. o \in Sides /\ o # s /\ \A r \in Sides : r = s \/ r = o
  BY SidesAre
<1>6. L \subseteq Nodes /\ t.mRoot \in L \cup {Null} /\ Null \notin Nodes
  BY DEF Shape, Tree
<1>7. IsTree(u) /\ u.mRoot = IF t.mRoot = x THEN y ELSE t.mRoot
  BY DEF Rotated
<1>8. \A z \in Nodes :
           u.parent[z] = IF z = x THEN y ELSE IF z = y THEN p ELSE IF z = b THEN x ELSE t.parent[z]
  BY DEF Rotated
<1>9. \A z \in Nodes, r \in Sides :
           u.child[r][z] = IF z = x /\ r = o THEN b
                           ELSE IF z = y /\ r = s THEN x
                           ELSE IF z = p /\ t.child[r][z] = x THEN y
                           ELSE t.child[r][z]
  BY DEF Rotated
<1>10. \A z \in L, r \in Sides :
           t.child[r][z] # Null => t.child[r][z] \in L /\ t.parent[t.child[r][z]] = z
  BY DEF Shape, Tree
<1>11. t.child[o][x] = y
  OBVIOUS
<1>12. \A z \in L \ {t.mRoot} : t.parent[z] \in L /\ \E r \in Sides : t.child[r][t.parent[z]] = z
  BY DEF Shape, Tree
<1>13. t.mRoot # Null => t.parent[t.mRoot] = Null
  BY DEF Shape, Tree
<1> HIDE DEF p, b, o
<1>14. u.mRoot \in L \cup {Null} /\ (u.mRoot # Null => u.parent[u.mRoot] = Null)
  BY <1>1, <1>2, <1>4, <1>6, <1>7, <1>8, <1>13
<1>15. ASSUME NEW z \in L, NEW r \in Sides, u.child[r][z] # Null
       PROVE  u.child[r][z] \in L /\ u.parent[u.child[r][z]] = z
  <2>1. CASE z = x /\ r = o
    BY <1>1, <1>2, <1>6, <1>8, <1>9, <1>15, <2>1
  <2>2. CASE z = y /\ r = s
    BY <1>1, <1>2, <1>6, <1>8, <1>9, <1>15, <2>2
  <2>3. CASE ~(z = x /\ r = o) /\ ~(z = y /\ r = s) /\ z = p /\ t.child[r][z] = x
    BY <1>1, <1>2, <1>6, <1>8, <1>9, <1>15, <2>3
  <2>4. CASE ~(z = x /\ r = o) /\ ~(z = y /\ r = s) /\ ~(z = p /\ t.child[r][z] = x)
    <3> DEFINE c == t.child[r][z]
    <3>1. u.child[r][z] = c /\ c # Null /\ c \in L /\ t.parent[c] = z /\ c \in Nodes
      BY <1>6, <1>9, <1>10, <1>15, <2>4
    <3> HIDE DEF c
    <3>2. c # x
      BY <2>4, <3>1 DEF p, c
    <3>3. c # y
      <4>1. SUFFICES ASSUME c = y PROVE FALSE
        OBVIOUS
      <4>2. z = x /\ r = s
        BY <1>1, <1>5, <2>4, <3>1, <4>1
      <4>3. t.child[s][x] = y /\ t.child[Other(s)][x] = y
        BY <4>1, <4>2 DEF c
      <4> QED BY <4>3, ChildrenDiffer
    <3>4. c # b
      <4>1. SUFFICES ASSUME c = b PROVE FALSE
        OBVIOUS
      <4>2. z = y /\ r = Other(s) /\ b # Null
        BY <1>1, <1>2, <1>5, <2>4, <3>1, <4>1 DEF o
      <4>3. t.child[s][y] = t.child[Other(s)][y] /\ t.child[s][y] # Null
        BY <4>1, <4>2 DEF c, b
      <4> QED BY <1>1, <4>3, ChildrenDiffer
    <3> QED BY <1>8, <3>1, <3>2, <3>3, <3>4
  <2> QED BY <2>1, <2>2, <2>3, <2>4
<1>16. ASSUME NEW z \in L \ {u.mRoot}
       PROVE  u.parent[z] \in L /\ \E r \in Sides : u.child[r][u.parent[z]] = z
  <2>1. CASE z = x
    BY <1>1, <1>8, <1>9, <2>1
  <2>2. CASE z = y
    <3>1. p # Null /\ u.parent[z] = p /\ p \in L /\ p \in Nodes
      BY <1>1, <1>3, <1>4, <1>7, <1>8, <2>2
    <3>2. PICK r \in Sides : t.child[r][p] = x
      BY <1>4, <1>12, <3>1 DEF p
    <3>3. u.child[r][p] = y
      BY <1>1, <1>9, <3>1, <3>2
    <3> QED BY <2>2, <3>1, <3>3
  <2>3. CASE z = b
    BY <1>1, <1>2, <1>5, <1>6, <1>8, <1>9, <2>3
  <2>4. CASE z # x /\ z # y /\ z # b
    <3>1. z # t.mRoot
      BY <1>7, <2>4
    <3>2. u.parent[z] = t.parent[z] /\ t.parent[z] \in L /\ t.parent[z] \in Nodes
      BY <1>6, <1>8, <1>12, <2>4, <3>1
    <3>3. PICK r \in Sides : t.child[r][t.parent[z]] = z
      BY <1>12, <3>1
    <3>4. ~(t.parent[z] = x /\ r = o) /\ ~(t.parent[z] = y /\ r = s)
      BY <1>11, <2>4, <3>3 DEF b
    <3>5. u.child[r][t.parent[z]] = z
      BY <1>9, <2>4, <3>2, <3>3, <3>4
    <3> QED BY <3>2, <3>5
  <2> QED BY <2>1, <2>2, <2>3, <2>4
<1> QED BY <1>6, <1>7, <1>14, <1>15, <1>16 DEF Shape

\* The bounds after a rotation of x with y.
NewBound(bound, at, x, y, s, side) ==
    [bound EXCEPT ![y] = bound[x], ![x] = IF s = side THEN bound[x] ELSE at[y]]

LEMMA RotatePlaced ==
    ASSUME NEW t, NEW L, NEW lo, NEW at, NEW hi, Tree(t, L, lo, at, hi),
           NEW x \in L, NEW s \in Sides, NEW y, y = t.child[Other(s)][x], y # Null,
           NEW u, Rotated(t, u, x, y, s)
    PROVE  Placed(u, L, NewBound(lo, at, x, y, s, "left"), at, NewBound(hi, at, x, y, s, "right"))
<1> DEFINE p == t.parent[x]
           b == t.child[s][y]
           a == t.child[s][x]
           g == t.child[Other(s)][y]
           o == Other(s)
           lo2 == NewBound(lo, at, x, y, s, "left")
           hi2 == NewBound(hi, at, x, y, s, "right")
<1>1. /\ y \in L /\ t.parent[y] = x /\ x # y /\ p # x /\ p # y /\ b # x /\ b # y
      /\ x \in Nodes /\ y \in Nodes /\ x # Null
  BY RotateAround DEF Shape, Tree
<1>2. L \subseteq Nodes /\ Null \notin Nodes
  BY DEF Shape, Tree
<1>3. \A z \in Nodes, r \in Sides :
           u.child[r][z] = IF z = x /\ r = o THEN b
                           ELSE IF z = y /\ r = s THEN x
                           ELSE IF z = p /\ t.child[r][z] = x THEN y
                           ELSE t.child[r][z]
  BY DEF Rotated
<1>4. /\ lo \in [Pointers -> Int] /\ at \in [Pointers -> Int] /\ hi \in [Pointers -> Int]
      /\ \A z \in L : lo[z] < at[z] /\ at[z] < hi[z]
      /\ \A z \in L : lo[Null] <= lo[z] /\ hi[z] <= hi[Null]
      /\ \A z \in Nodes : lo[z] \in Int /\ at[z] \in Int /\ hi[z] \in Int
      /\ lo[Null] \in Int /\ hi[Null] \in Int
  BY DEF Tree, Placed, Pointers
<1>5. ASSUME NEW z \in L, t.child["left"][z] # Null
      PROVE  lo[z] <= lo[t.child["left"][z]] /\ hi[t.child["left"][z]] <= at[z] /\ t.child["left"][z] \in L
  BY <1>5 DEF Tree, Placed, Shape, Sides
<1>6. ASSUME NEW z \in L, t.child["right"][z] # Null
      PROVE  at[z] <= lo[t.child["right"][z]] /\ hi[t.child["right"][z]] <= hi[z] /\ t.child["right"][z] \in L
  BY <1>6 DEF Tree, Placed, Shape, Sides
<1>7. /\ lo2 \in [Pointers -> Int] /\ hi2 \in [Pointers -> Int]
      /\ lo2[Null] = lo[Null] /\ hi2[Null] = hi[Null]
      /\ lo2[y] = lo[x] /\ hi2[y] = hi[x]
      /\ s = "left" => lo2[x] = lo[x] /\ hi2[x] = at[y]
      /\ s = "right" => lo2[x] = at[y] /\ hi2[x] = hi[x]
      /\ \A z \in Nodes : z # x /\ z # y => lo2[z] = lo[z] /\ hi2[z] = hi[z]
  BY <1>1, <1>2, <1>4, SidesAre DEF NewBound, Pointers
<1>8. \A z \in L, r \in Sides : z # x /\ z # y =>
          \/ z = p /\ t.child[r][z] = x /\ u.child[r][z] = y
          \/ t.child[r][z] # x /\ t.child[r][z] # y /\ u.child[r][z] = t.child[r][z]
  <2>1. \A z \in L, r \in Sides : t.child[r][z] # Null => t.parent[t.child[r][z]] = z
    BY DEF Tree, Shape
  <2> QED BY <1>1, <1>2, <1>3, <2>1
<1>9. /\ u.child[s][x] = a /\ u.child[o][x] = b /\ u.child[s][y] = x /\ u.child[o][y] = g
      /\ a # x /\ a # y /\ g # x /\ g # y
  <2>1. a # y
    BY ChildrenDiffer, SidesAre, <1>1, <1>2
  <2>2. a # x /\ g # x /\ g # y
    <3>1. \A z \in L, r \in Sides : t.child[r][z] # Null => t.parent[t.child[r][z]] = z
      BY DEF Tree, Shape
    <3>2. \A z \in L, r \in Sides : t.child[r][z] # z
      <4>1. SUFFICES ASSUME NEW z \in L, NEW r \in Sides, t.child[r][z] = z PROVE FALSE
        OBVIOUS
      <4>2. z # Null
        BY <1>2
      <4> QED BY <4>1, <4>2, Nested
    <3> QED BY <1>1, <3>1, <3>2, SidesAre
  <2> QED BY <1>1, <1>3, <2>1, <2>2, SidesAre
<1> HIDE DEF p, a, b, g, lo2, hi2
<1>10. CASE s = "left"
  <2>0. o = "right" /\ s # "right" /\ s = "left"
    BY <1>10, SidesAre
  <2>1. /\ lo[x] < at[x] /\ at[x] < hi[x] /\ lo[y] < at[y] /\ at[y] < hi[y]
        /\ at[x] <= lo[y] /\ hi[y] <= hi[x]
        /\ lo[x] \in Int /\ at[x] \in Int /\ hi[x] \in Int /\ lo[y] \in Int /\ at[y] \in Int /\ hi[y] \in Int
    BY <1>1, <1>4, <1>6, <2>0
  <2>2. /\ a # Null => a \in Nodes /\ lo[x] <= lo[a] /\ hi[a] <= at[x]
        /\ b # Null => b \in Nodes /\ lo[y] <= lo[b] /\ hi[b] <= at[y]
        /\ g # Null => g \in Nodes /\ at[y] <= lo[g] /\ hi[g] <= hi[y]
    BY <1>1, <1>2, <1>5, <1>6, <2>0 DEF a, b, g
  <2>3. \A z \in L : lo2[z] < at[z] /\ at[z] < hi2[z]
    <3>1. ASSUME NEW z \in L, z # x, z # y PROVE lo2[z] < at[z] /\ at[z] < hi2[z]
      BY <1>2, <1>4, <1>7, <3>1
    <3>2. lo2[x] < at[x] /\ at[x] < hi2[x] /\ lo2[y] < at[y] /\ at[y] < hi2[y]
      BY <1>7, <2>0, <2>1
    <3> QED BY <3>1, <3>2
  <2>6. \A z \in L : lo2[Null] <= lo2[z] /\ hi2[z] <= hi2[Null]
    <3>1. ASSUME NEW z \in L, z # x, z # y PROVE lo2[Null] <= lo2[z] /\ hi2[z] <= hi2[Null]
      BY <1>2, <1>4, <1>7, <3>1
    <3>2. lo2[Null] <= lo2[x] /\ hi2[x] <= hi2[Null] /\ lo2[Null] <= lo2[y] /\ hi2[y] <= hi2[Null]
      BY <1>1, <1>4, <1>7, <2>0, <2>1
    <3> QED BY <3>1, <3>2
  <2>4. ASSUME NEW z \in L, u.child["left"][z] # Null
        PROVE  lo2[z] <= lo2[u.child["left"][z]] /\ hi2[u.child["left"][z]] <= at[z]
    <3>1. CASE z = x
      <4>1. a # Null /\ u.child["left"][z] = a
        BY <1>9, <2>0, <2>4, <3>1
      <4>2. a \in Nodes /\ a # x /\ a # y /\ lo2[a] = lo[a] /\ hi2[a] = hi[a]
        BY <1>7, <1>9, <2>2, <4>1
      <4> QED BY <1>7, <2>0, <2>2, <3>1, <4>1, <4>2
    <3>2. CASE z = y
      BY <1>7, <1>9, <2>0, <2>1, <3>2
    <3>3. CASE z # x /\ z # y /\ z = p /\ t.child["left"][z] = x /\ u.child["left"][z] = y
      BY <1>1, <1>2, <1>5, <1>7, <3>3
    <3>4. CASE /\ z # x /\ z # y /\ t.child["left"][z] # x /\ t.child["left"][z] # y
               /\ u.child["left"][z] = t.child["left"][z]
      BY <1>2, <1>5, <1>7, <2>4, <3>4
    <3> QED BY <1>8, <3>1, <3>2, <3>3, <3>4, SidesAre
  <2>5. ASSUME NEW z \in L, u.child["right"][z] # Null
        PROVE  at[z] <= lo2[u.child["right"][z]] /\ hi2[u.child["right"][z]] <= hi2[z]
    <3>1. CASE z = x
      <4>1. b # Null /\ u.child["right"][z] = b
        BY <1>9, <2>0, <2>5, <3>1
      <4>2. b \in Nodes /\ b # x /\ b # y /\ lo2[b] = lo[b] /\ hi2[b] = hi[b]
        BY <1>1, <1>7, <2>2, <4>1 DEF b
      <4>3. lo[b] \in Int /\ hi[b] \in Int
        BY <1>4, <4>2
      <4> QED BY <1>7, <2>0, <2>1, <2>2, <3>1, <4>1, <4>2, <4>3
    <3>2. CASE z = y
      <4>1. g # Null /\ u.child["right"][z] = g
        BY <1>9, <2>0, <2>5, <3>2
      <4>2. g \in Nodes /\ g # x /\ g # y /\ lo2[g] = lo[g] /\ hi2[g] = hi[g] /\ lo[g] \in Int /\ hi[g] \in Int
        BY <1>4, <1>7, <1>9, <2>2, <4>1
      <4> QED BY <1>7, <2>0, <2>1, <2>2, <3>2, <4>1, <4>2
    <3>3. CASE z # x /\ z # y /\ z = p /\ t.child["right"][z] = x /\ u.child["right"][z] = y
      BY <1>1, <1>2, <1>6, <1>7, <3>3
    <3>4. CASE /\ z # x /\ z # y /\ t.child["right"][z] # x /\ t.child["right"][z] # y
               /\ u.child["right"][z] = t.child["right"][z]
      BY <1>2, <1>6, <1>7, <2>5, <3>4
    <3> QED BY <1>8, <3>1, <3>2, <3>3, <3>4, SidesAre
  <2> QED BY <1>4, <1>7, <2>3, <2>4, <2>5, <2>6 DEF Placed, lo2, hi2
<1>11. CASE s = "right"
  <2>0. o = "left" /\ s # "left" /\ s = "right"
    BY <1>11, SidesAre
  <2>1. /\ lo[x] < at[x] /\ at[x] < hi[x] /\ lo[y] < at[y] /\ at[y] < hi[y]
        /\ hi[y] <= at[x] /\ lo[x] <= lo[y]
        /\ lo[x] \in Int /\ at[x] \in Int /\ hi[x] \in Int /\ lo[y] \in Int /\ at[y] \in Int /\ hi[y] \in Int
    BY <1>1, <1>4, <1>5, <2>0
  <2>2. /\ a # Null => a \in Nodes /\ at[x] <= lo[a] /\ hi[a] <= hi[x]
        /\ b # Null => b \in Nodes /\ at[y] <= lo[b] /\ hi[b] <= hi[y]
        /\ g # Null => g \in Nodes /\ lo[y] <= lo[g] /\ hi[g] <= at[y]
    BY <1>1, <1>2, <1>5, <1>6, <2>0 DEF a, b, g
  <2>3. \A z \in L : lo2[z] < at[z] /\ at[z] < hi2[z]
    <3>1. ASSUME NEW z \in L, z # x, z # y PROVE lo2[z] < at[z] /\ at[z] < hi2[z]
      BY <1>2, <1>4, <1>7, <3>1
    <3>2. lo2[x] < at[x] /\ at[x] < hi2[x] /\ lo2[y] < at[y] /\ at[y] < hi2[y]
      BY <1>7, <2>0, <2>1
    <3> QED BY <3>1, <3>2
  <2>6. \A z \in L : lo2[Null] <= lo2[z] /\ hi2[z] <= hi2[Null]
    <3>1. ASSUME NEW z \in L, z # x, z # y PROVE lo2[Null] <= lo2[z] /\ hi2[z] <= hi2[Null]
      BY <1>2, <1>4, <1>7, <3>1
    <3>2. lo2[Null] <= lo2[x] /\ hi2[x] <= hi2[Null] /\ lo2[Null] <= lo2[y] /\ hi2[y] <= hi2[Null]
      BY <1>1, <1>4, <1>7, <2>0, <2>1
    <3> QED BY <3>1, <3>2
  <2>4. ASSUME NEW z \in L, u.child["right"][z] # Null
        PROVE  at[z] <= lo2[u.child["right"][z]] /\ hi2[u.child["right"][z]] <= hi2[z]
    <3>1. CASE z = x
      <4>1. a # Null /\ u.child["right"][z] = a
        BY <1>9, <2>0, <2>4, <3>1
      <4>2. a \in Nodes /\ a # x /\ a # y /\ lo2[a] = lo[a] /\ hi2[a] = hi[a]
        BY <1>7, <1>9, <2>2, <4>1
      <4> QED BY <1>7, <2>0, <2>2, <3>1, <4>1, <4>2
    <3>2. CASE z = y
      BY <1>7, <1>9, <2>0, <2>1, <3>2
    <3>3. CASE z # x /\ z # y /\ z = p /\ t.child["right"][z] = x /\ u.child["right"][z] = y
      BY <1>1, <1>2, <1>6, <1>7, <3>3
    <3>4. CASE /\ z # x /\ z # y /\ t.child["right"][z] # x /\ t.child["right"][z] # y
               /\ u.child["right"][z] = t.child["right"][z]
      BY <1>2, <1>6, <1>7, <2>4, <3>4
    <3> QED BY <1>8, <3>1, <3>2, <3>3, <3>4, SidesAre
  <2>5. ASSUME NEW z \in L, u.child["left"][z] # Null
        PROVE  lo2[z] <= lo2[u.child["left"][z]] /\ hi2[u.child["left"][z]] <= at[z]
    <3>1. CASE z = x
      <4>1. b # Null /\ u.child["left"][z] = b
        BY <1>9, <2>0, <2>5, <3>1
      <4>2. b \in Nodes /\ b # x /\ b # y /\ lo2[b] = lo[b] /\ hi2[b] = hi[b]
        BY <1>1, <1>7, <2>2, <4>1 DEF b
      <4>3. lo[b] \in Int /\ hi[b] \in Int
        BY <1>4, <4>2
      <4> QED BY <1>7, <2>0, <2>1, <2>2, <3>1, <4>1, <4>2, <4>3
    <3>2. CASE z = y
      <4>1. g # Null /\ u.child["left"][z] = g
        BY <1>9, <2>0, <2>5, <3>2
      <4>2. g \in Nodes /\ g # x /\ g # y /\ lo2[g] = lo[g] /\ hi2[g] = hi[g] /\ lo[g] \in Int /\ hi[g] \in Int
        BY <1>4, <1>7, <1>9, <2>2, <4>1
      <4> QED BY <1>7, <2>0, <2>1, <2>2, <3>2, <4>1, <4>2
    <3>3. CASE z # x /\ z # y /\ z = p /\ t.child["left"][z] = x /\ u.child["left"][z] = y
      BY <1>1, <1>2, <1>5, <1>7, <3>3
    <3>4. CASE /\ z # x /\ z # y /\ t.child["left"][z] # x /\ t.child["left"][z] # y
               /\ u.child["left"][z] = t.child["left"][z]
      BY <1>2, <1>5, <1>7, <2>5, <3>4
    <3> QED BY <1>8, <3>1, <3>2, <3>3, <3>4, SidesAre
  <2> QED BY <1>4, <1>7, <2>3, <2>4, <2>5, <2>6 DEF Placed, lo2, hi2
<1> QED BY <1>10, <1>11, SidesAre

\* Places stay as they are: a rotation changes no order.
LEMMA RotateTree ==
    ASSUME NEW t, NEW L, NEW lo, NEW at, NEW hi, Tree(t, L, lo, at, hi),
           NEW x \in L, NEW s \in Sides, NEW y, y = t.child[Other(s)][x], y # Null,
           NEW u, Rotated(t, u, x, y, s)
    PROVE  \E lo2, hi2 : Tree(u, L, lo2, at, hi2)
<1>1. Shape(u, L)
  BY RotateShape
<1>2. Placed(u, L, NewBound(lo, at, x, y, s, "left"), at, NewBound(hi, at, x, y, s, "right"))
  BY RotatePlaced
<1>3. Tree(u, L, NewBound(lo, at, x, y, s, "left"), at, NewBound(hi, at, x, y, s, "right"))
  BY <1>1, <1>2 DEF Tree
<1> HIDE DEF Tree, NewBound
<1> QED BY <1>3, Zenon

-----------------------------------------------------------------------------
(* The searches are defined by recursion along pointers: they have the     *)
(* values the recursion gives them if no way down is endless.              *)

LEMMA LowestRank ==
    ASSUME NEW S, S # {}, NEW rank, \A x \in S : rank[x] \in Nat
    PROVE  \E x \in S : \A y \in S : rank[x] <= rank[y]
<1> DEFINE R == {rank[x] : x \in S}
<1>1. R \subseteq Nat /\ R # {}
  OBVIOUS
<1>2. IsWellFoundedOn(OpToRel(<, Nat), Nat)
  BY NatLessThanWellFounded
<1>3. PICK m \in R : \A r \in R : ~(<<r, m>> \in OpToRel(<, Nat))
  BY <1>1, <1>2, WFMin
<1>4. \A r \in R : ~(r < m)
  BY <1>1, <1>3 DEF OpToRel
<1>5. PICK x \in S : m = rank[x]
  OBVIOUS
<1>6. \A y \in S : rank[y] \in R
  OBVIOUS
<1> HIDE DEF R
<1>7. \A y \in S : rank[x] <= rank[y]
  BY <1>4, <1>5, <1>6
<1> QED BY <1>7

\* What G gives at x depends on elements of lower rank only.
Recursive(S, R, rank, N, G) ==
    /\ N \in Nat
    /\ \A x \in S : rank[x] \in Nat /\ rank[x] < N
    /\ G \in [S -> [[S -> R] -> R]]
    /\ \A x \in S : \A f, g \in [S -> R] :
           (\A y \in S : rank[y] < rank[x] => f[y] = g[y]) => G[x][f] = G[x][g]

LEMMA Recursion ==
    ASSUME NEW S, NEW R, NEW rank, NEW N, NEW G, NEW r0 \in R, Recursive(S, R, rank, N, G)
    PROVE  \E f \in [S -> R] : \A x \in S : f[x] = G[x][f]
<1> DEFINE Upto(f, n) == f \in [S -> R] /\ \A x \in S : rank[x] < n => f[x] = G[x][f]
           Bad == {n \in Nat : ~\E f : Upto(f, n)}
<1>1. N \in Nat /\ \A x \in S : rank[x] \in Nat /\ rank[x] < N
  BY DEF Recursive
<1>2. Bad = {}
  <2>1. SUFFICES ASSUME Bad # {} PROVE FALSE
    OBVIOUS
  <2> DEFINE id == [n \in Bad |-> n]
  <2>2. PICK n \in Bad : \A m \in Bad : id[n] <= id[m]
    <3>1. \A m \in Bad : id[m] \in Nat
      OBVIOUS
    <3> HIDE DEF id
    <3> QED BY <2>1, <3>1, LowestRank
  <2>3. n \in Nat /\ (~\E f : Upto(f, n)) /\ \A m \in Bad : n <= m
    BY <2>2
  <2>4. n # 0
    <3>1. Upto([x \in S |-> r0], 0)
      BY <1>1
    <3> QED BY <2>3, <3>1
  <2>5. n - 1 \in Nat /\ n - 1 \notin Bad
    BY <2>3, <2>4
  <2>6. PICK f : Upto(f, n - 1)
    BY <2>5
  <2> DEFINE g == [x \in S |-> G[x][f]]
  <2>7. f \in [S -> R] /\ \A x \in S : rank[x] < n - 1 => f[x] = G[x][f]
    BY <2>6
  <2>8. g \in [S -> R]
    BY <2>7 DEF Recursive
  <2>9. \A x \in S : rank[x] < n - 1 => g[x] = f[x]
    BY <2>7
  <2>10. \A x \in S : rank[x] < n => g[x] = G[x][g]
    <3>1. SUFFICES ASSUME NEW x \in S, rank[x] < n PROVE g[x] = G[x][g]
      OBVIOUS
    <3>2. \A y \in S : rank[y] < rank[x] => f[y] = g[y]
      BY <1>1, <2>3, <2>9, <3>1
    <3>3. g[x] = G[x][f]
      OBVIOUS
    <3> HIDE DEF g
    <3>4. G[x][f] = G[x][g]
      BY <2>7, <2>8, <3>2, ZenonT(30) DEF Recursive
    <3> QED BY <3>3, <3>4
  <2>11. Upto(g, n)
    BY <2>8, <2>10
  <2> HIDE DEF Upto, g
  <2> QED BY <2>3, <2>11
<1>3. PICK f : Upto(f, N)
  BY <1>1, <1>2
<1> QED BY <1>1, <1>3

\* Nodes out of the tree point into it or nowhere.
Loose(t, L) ==
    \A x \in Nodes \ L : /\ t.parent[x] \in L \cup {Null}
                         /\ \A s \in Sides : t.child[s][x] \in L \cup {Null}

\* Each step down lowers the rank.
Descends(t, rank, N) ==
    /\ N \in Nat /\ 0 < N /\ rank[Null] = 0
    /\ \A x \in Nodes : rank[x] \in Nat /\ 0 < rank[x] /\ rank[x] < N
    /\ \A x \in Nodes, s \in Sides : t.child[s][x] # Null => rank[t.child[s][x]] < rank[x]

LEMMA DownRank ==
    ASSUME NEW t, NEW L, NEW lo, NEW at, NEW hi, Tree(t, L, lo, at, hi), Loose(t, L)
    PROVE  \E rank, N : Descends(t, rank, N)
<1> DEFINE W == hi[Null] - lo[Null]
           V == IF 0 <= W THEN W ELSE 0
           width(x) == hi[x] - lo[x]
           rank == [x \in Pointers |-> IF x = Null THEN 0 ELSE IF x \in L THEN width(x) ELSE V + 1]
<1>1. L \subseteq Nodes /\ Null \notin Nodes /\ IsTree(t)
  BY DEF Tree, Shape
<1>2. lo[Null] \in Int /\ hi[Null] \in Int /\ \A x \in Nodes : lo[x] \in Int /\ at[x] \in Int /\ hi[x] \in Int
  BY DEF Tree, Placed, Pointers
<1>3. \A x \in L : width(x) \in Nat /\ 0 < width(x) /\ width(x) <= V
  BY <1>1, <1>2 DEF Tree, Placed
<1>4. V \in Nat
  BY <1>2
<1> HIDE DEF V
<1>5. /\ rank[Null] = 0
      /\ \A x \in L : rank[x] = width(x)
      /\ \A x \in Nodes \ L : rank[x] = V + 1
  BY <1>1 DEF Pointers
<1> HIDE DEF rank
<1>6. \A x \in Nodes : rank[x] \in Nat /\ 0 < rank[x] /\ rank[x] < V + 2
  BY <1>3, <1>4, <1>5
<1>7. ASSUME NEW x \in Nodes, NEW s \in Sides, t.child[s][x] # Null
      PROVE  rank[t.child[s][x]] < rank[x]
  <2> DEFINE c == t.child[s][x]
  <2>1. CASE x \in L
    <3>1. c \in L /\ width(c) < width(x)
      BY <1>7, <2>1, Nested
    <3> QED BY <1>5, <2>1, <3>1
  <2>2. CASE x \notin L
    <3>1. c \in L
      BY <1>7, <2>2 DEF Loose
    <3> HIDE DEF c
    <3>2. rank[c] <= V /\ rank[c] \in Nat /\ rank[x] = V + 1
      BY <1>3, <1>5, <2>2, <3>1
    <3> QED BY <1>4, <3>2 DEF c
  <2> QED BY <2>1, <2>2
<1>8. Descends(t, rank, V + 2)
  BY <1>4, <1>5, <1>6, <1>7 DEF Descends
<1> QED BY <1>8

\* minimum() and maximum() are defined.
LEMMA ExtremeIsDefined ==
    ASSUME NEW t, IsTree(t), NEW rank, NEW N, Descends(t, rank, N), NEW s \in Sides
    PROVE  \E f : /\ \A y \in Nodes : f[y] = IF t.child[s][y] = Null THEN y ELSE f[t.child[s][y]]
                  /\ \A x : Extreme(t, x, s) = IF x = Null THEN Null ELSE f[x]
<1> DEFINE Body(y, f) == IF t.child[s][y] = Null THEN y ELSE f[t.child[s][y]]
           Def(f) == f = [y \in Nodes |-> Body(y, f)]
           G == [y \in Nodes |-> [f \in [Nodes -> Pointers] |-> Body(y, f)]]
<1>0. Null \in Pointers
  BY DEF Pointers
<1>1. Recursive(Nodes, Pointers, rank, N, G)
  <2>1. G \in [Nodes -> [[Nodes -> Pointers] -> Pointers]]
    BY DEF IsTree, Pointers
  <2>2. \A x \in Nodes : \A f, g \in [Nodes -> Pointers] :
           (\A y \in Nodes : rank[y] < rank[x] => f[y] = g[y]) => G[x][f] = G[x][g]
    BY DEF IsTree, Pointers, Descends
  <2>3. N \in Nat /\ \A x \in Nodes : rank[x] \in Nat /\ rank[x] < N
    BY DEF Descends
  <2> QED BY <2>1, <2>2, <2>3 DEF Recursive
<1>2. \A y \in Nodes : \A f \in [Nodes -> Pointers] : G[y][f] = Body(y, f)
  OBVIOUS
<1> HIDE DEF G
<1>3. PICK f \in [Nodes -> Pointers] : \A y \in Nodes : f[y] = G[y][f]
  BY <1>0, <1>1, Recursion
<1>4. Def(f)
  BY <1>2, <1>3
<1>5. \A x : Extreme(t, x, s) = IF x = Null THEN Null ELSE (CHOOSE g : Def(g))[x]
  BY Zenon DEF Extreme
<1> HIDE DEF Def
<1>6. PICK h : h = CHOOSE g : Def(g)
  OBVIOUS
<1>7. Def(h)
  BY <1>4, <1>6, Zenon
<1>8. \A y \in Nodes : h[y] = Body(y, h)
  BY <1>7 DEF Def
<1>9. \A x : Extreme(t, x, s) = IF x = Null THEN Null ELSE h[x]
  BY <1>5, <1>6, Zenon
<1> QED BY <1>8, <1>9, Zenon

\* Of the bad nodes there is one with no bad child.
LEMMA LowestBad ==
    ASSUME NEW t, NEW L, NEW lo, NEW at, NEW hi, Tree(t, L, lo, at, hi),
           NEW Bad, Bad \subseteq L, Bad # {}
    PROVE  \E x \in Bad : \A s \in Sides :
               t.child[s][x] # Null => t.child[s][x] \in L /\ t.child[s][x] \notin Bad
<1> DEFINE width == [x \in L |-> hi[x] - lo[x]]
<1>1. \A x \in Bad : width[x] \in Nat
  <2>1. \A x \in L : lo[x] \in Int /\ at[x] \in Int /\ hi[x] \in Int /\ lo[x] < at[x] /\ at[x] < hi[x]
    BY DEF Tree, Placed, Shape, Pointers
  <2> QED BY <2>1
<1> HIDE DEF width
<1>2. PICK x \in Bad : \A y \in Bad : width[x] <= width[y]
  BY <1>1, LowestRank
<1>3. ASSUME NEW s \in Sides, t.child[s][x] # Null
      PROVE  t.child[s][x] \in L /\ t.child[s][x] \notin Bad
  <2> DEFINE c == t.child[s][x]
  <2>1. c \in L /\ hi[c] - lo[c] < hi[x] - lo[x]
        /\ lo[x] \in Int /\ lo[c] \in Int /\ hi[x] \in Int /\ hi[c] \in Int
    BY <1>3, Nested
  <2> HIDE DEF c
  <2>2. width[c] < width[x] /\ width[c] \in Int /\ width[x] \in Int
    BY <2>1 DEF width
  <2>3. c \notin Bad
    BY <1>2, <2>2
  <2> QED BY <2>1, <2>3 DEF c
<1> QED BY <1>2, <1>3

\* m is where the way from x to side s ends.
End(t, L, lo, hi, s, x, m) ==
    /\ m \in L /\ t.child[s][m] = Null
    /\ lo[x] <= lo[m] /\ hi[m] <= hi[x]
    /\ m # x => /\ t.parent[m] \in L /\ t.child[s][t.parent[m]] = m
                /\ lo[x] <= lo[t.parent[m]] /\ hi[t.parent[m]] <= hi[x]

LEMMA ExtremeIs ==
    ASSUME NEW t, NEW L, NEW lo, NEW at, NEW hi, Tree(t, L, lo, at, hi), Loose(t, L),
           NEW s \in Sides, NEW r \in L
    PROVE  End(t, L, lo, hi, s, r, Extreme(t, r, s))
<1>0. IsTree(t) /\ L \subseteq Nodes /\ Null \notin Nodes
  BY DEF Tree, Shape
<1>1. PICK rank, N : Descends(t, rank, N)
  BY DownRank
<1>2. PICK f : /\ \A y \in Nodes : f[y] = IF t.child[s][y] = Null THEN y ELSE f[t.child[s][y]]
               /\ \A x : Extreme(t, x, s) = IF x = Null THEN Null ELSE f[x]
  BY <1>0, <1>1, ExtremeIsDefined
<1> DEFINE Bad == {x \in L : ~End(t, L, lo, hi, s, x, f[x])}
<1>3. Bad = {}
  <2>1. SUFFICES ASSUME Bad # {} PROVE FALSE
    OBVIOUS
  <2>2. PICK x \in Bad : \A q \in Sides :
               t.child[q][x] # Null => t.child[q][x] \in L /\ t.child[q][x] \notin Bad
    <3>1. Bad \subseteq L
      OBVIOUS
    <3> HIDE DEF Bad
    <3> QED BY <2>1, <3>1, LowestBad
  <2>3. x \in L /\ x \in Nodes /\ ~End(t, L, lo, hi, s, x, f[x])
    BY <1>0
  <2>4. \A y \in L : lo[y] \in Int /\ hi[y] \in Int
    BY DEF Tree, Placed, Shape, Pointers
  <2>5. CASE t.child[s][x] = Null
    <3>1. f[x] = x
      BY <1>2, <2>3, <2>5
    <3> QED BY <2>3, <2>4, <2>5, <3>1 DEF End
  <2>6. CASE t.child[s][x] # Null
    <3> DEFINE c == t.child[s][x]
               m == f[c]
    <3>1. f[x] = m
      BY <1>2, <2>3, <2>6
    <3>2. c \in L /\ End(t, L, lo, hi, s, c, m)
      BY <2>2, <2>6
    <3>3. t.parent[c] = x /\ lo[x] <= lo[c] /\ hi[c] <= hi[x]
      <4>1. CASE s = "left"
        BY <2>3, <2>6, <4>1, Nested
      <4>2. CASE s = "right"
        BY <2>3, <2>6, <4>2, Nested
      <4> QED BY <4>1, <4>2, SidesAre
    <3>4. t.child[s][x] = c
      OBVIOUS
    <3> HIDE DEF c, m
    <3>5. End(t, L, lo, hi, s, x, m)
      <4>1. m \in L /\ t.child[s][m] = Null /\ lo[x] <= lo[m] /\ hi[m] <= hi[x]
        BY <2>3, <2>4, <3>2, <3>3 DEF End
      <4>2. CASE m = c
        BY <2>3, <2>4, <3>3, <3>4, <4>1, <4>2 DEF End
      <4>3. CASE m # c
        BY <2>3, <2>4, <3>2, <3>3, <4>1, <4>3 DEF End
      <4> QED BY <4>2, <4>3
    <3> QED BY <2>3, <3>1, <3>5
  <2> QED BY <2>5, <2>6
<1>4. r # Null
  BY <1>0
<1> QED BY <1>2, <1>3, <1>4

LEMMA BelowIs ==
    ASSUME NEW k \in Int, NEW x \in Nodes
    PROVE  /\ Below(k, x) \in Sides
           /\ Below(k, x) = "left" <=> k < Key[x]
           /\ Below(k, x) = "right" <=> Key[x] <= k
BY DEF Below, Sides

\* insert()'s way down is defined.
LEMMA LeafIsDefined ==
    ASSUME NEW t, IsTree(t), NEW rank, NEW N, Descends(t, rank, N), NEW k \in Int
    PROVE  \E f : /\ \A y \in Nodes : f[y] = IF t.child[Below(k, y)][y] = Null THEN y ELSE f[t.child[Below(k, y)][y]]
                  /\ Leaf(t, k) = IF t.mRoot = Null THEN Null ELSE f[t.mRoot]
<1> DEFINE Body(y, f) == IF t.child[Below(k, y)][y] = Null THEN y ELSE f[t.child[Below(k, y)][y]]
           Def(f) == f = [y \in Nodes |-> Body(y, f)]
           G == [y \in Nodes |-> [f \in [Nodes -> Pointers] |-> Body(y, f)]]
<1>0. Null \in Pointers
  BY DEF Pointers
<1>1. Recursive(Nodes, Pointers, rank, N, G)
  <2>1. G \in [Nodes -> [[Nodes -> Pointers] -> Pointers]]
    BY BelowIs DEF IsTree, Pointers, Sides
  <2>2. \A x \in Nodes : \A f, g \in [Nodes -> Pointers] :
           (\A y \in Nodes : rank[y] < rank[x] => f[y] = g[y]) => G[x][f] = G[x][g]
    BY BelowIs DEF IsTree, Pointers, Descends, Sides
  <2>3. N \in Nat /\ \A x \in Nodes : rank[x] \in Nat /\ rank[x] < N
    BY DEF Descends
  <2> QED BY <2>1, <2>2, <2>3 DEF Recursive
<1>2. \A y \in Nodes : \A f \in [Nodes -> Pointers] : G[y][f] = Body(y, f)
  OBVIOUS
<1> HIDE DEF G
<1>3. PICK f \in [Nodes -> Pointers] : \A y \in Nodes : f[y] = G[y][f]
  BY <1>0, <1>1, Recursion
<1>4. Def(f)
  BY <1>2, <1>3
<1>5. Leaf(t, k) = IF t.mRoot = Null THEN Null ELSE (CHOOSE g : Def(g))[t.mRoot]
  BY Zenon DEF Leaf
<1> HIDE DEF Def
<1>6. PICK h : h = CHOOSE g : Def(g)
  OBVIOUS
<1>7. Def(h)
  BY <1>4, <1>6, Zenon
<1>8. \A y \in Nodes : h[y] = Body(y, h)
  BY <1>7 DEF Def
<1>9. Leaf(t, k) = IF t.mRoot = Null THEN Null ELSE h[t.mRoot]
  BY <1>5, <1>6, Zenon
<1> QED BY <1>8, <1>9, Zenon

\* The node that destroy() deletes is defined.
LEMMA DestroyLeafIsDefined ==
    ASSUME NEW t, IsTree(t), NEW rank, NEW N, Descends(t, rank, N)
    PROVE  \E f : /\ \A y \in Nodes :
                         f[y] = IF t.child["left"][y] # Null THEN f[t.child["left"][y]]
                                ELSE IF t.child["right"][y] # Null THEN f[t.child["right"][y]]
                                ELSE y
                  /\ DestroyLeaf(t) = f[t.mRoot]
<1> DEFINE Body(y, f) == IF t.child["left"][y] # Null THEN f[t.child["left"][y]]
                         ELSE IF t.child["right"][y] # Null THEN f[t.child["right"][y]]
                         ELSE y
           Def(f) == f = [y \in Nodes |-> Body(y, f)]
           G == [y \in Nodes |-> [f \in [Nodes -> Pointers] |-> Body(y, f)]]
<1>0. Null \in Pointers
  BY DEF Pointers
<1>1. Recursive(Nodes, Pointers, rank, N, G)
  <2>1. G \in [Nodes -> [[Nodes -> Pointers] -> Pointers]]
    BY DEF IsTree, Pointers, Sides
  <2>2. \A x \in Nodes : \A f, g \in [Nodes -> Pointers] :
           (\A y \in Nodes : rank[y] < rank[x] => f[y] = g[y]) => G[x][f] = G[x][g]
    BY DEF IsTree, Pointers, Descends, Sides
  <2>3. N \in Nat /\ \A x \in Nodes : rank[x] \in Nat /\ rank[x] < N
    BY DEF Descends
  <2> QED BY <2>1, <2>2, <2>3 DEF Recursive
<1>2. \A y \in Nodes : \A f \in [Nodes -> Pointers] : G[y][f] = Body(y, f)
  OBVIOUS
<1> HIDE DEF G
<1>3. PICK f \in [Nodes -> Pointers] : \A y \in Nodes : f[y] = G[y][f]
  BY <1>0, <1>1, Recursion
<1>4. Def(f)
  BY <1>2, <1>3
<1>5. DestroyLeaf(t) = (CHOOSE g : Def(g))[t.mRoot]
  BY Zenon DEF DestroyLeaf
<1> HIDE DEF Def
<1>6. PICK h : h = CHOOSE g : Def(g)
  OBVIOUS
<1>7. Def(h)
  BY <1>4, <1>6, Zenon
<1>8. \A y \in Nodes : h[y] = Body(y, h)
  BY <1>7 DEF Def
<1>9. DestroyLeaf(t) = h[t.mRoot]
  BY <1>5, <1>6, Zenon
<1> QED BY <1>8, <1>9, Zenon

\* search() is defined.
LEMMA SearchIsDefined ==
    ASSUME NEW t, IsTree(t), NEW rank, NEW N, Descends(t, rank, N), NEW k
    PROVE  \E f : /\ \A x \in Pointers : f[x] = IF x = Null \/ Key[x] = k THEN x
                                                 ELSE f[t.child[IF k < Key[x] THEN "left" ELSE "right"][x]]
                  /\ Search(t, k) = f[t.mRoot]
<1> DEFINE Body(x, f) == IF x = Null \/ Key[x] = k THEN x
                                                 ELSE f[t.child[IF k < Key[x] THEN "left" ELSE "right"][x]]
           Def(f) == f = [x \in Pointers |-> Body(x, f)]
           G == [x \in Pointers |-> [f \in [Pointers -> Pointers] |-> Body(x, f)]]
<1>0. Null \in Pointers
  BY DEF Pointers
<1>1. Recursive(Pointers, Pointers, rank, N, G)
  <2>1. G \in [Pointers -> [[Pointers -> Pointers] -> Pointers]]
    BY DEF IsTree, Pointers, Sides
  <2>2. \A x \in Pointers : \A f, g \in [Pointers -> Pointers] :
           (\A y \in Pointers : rank[y] < rank[x] => f[y] = g[y]) => G[x][f] = G[x][g]
    <3>0. \A x \in Pointers : \A f \in [Pointers -> Pointers] : G[x][f] = Body(x, f)
      OBVIOUS
    <3>1. ASSUME NEW x \in Pointers, NEW f \in [Pointers -> Pointers], NEW g \in [Pointers -> Pointers],
                 \A y \in Pointers : rank[y] < rank[x] => f[y] = g[y]
          PROVE  Body(x, f) = Body(x, g)
      <4>1. CASE x = Null
        BY <4>1
      <4>2. CASE x # Null
        <5> DEFINE c(s) == t.child[s][x]
        <5>1. x \in Nodes /\ rank[Null] = 0 /\ rank[x] \in Nat /\ 0 < rank[x]
          BY <4>2 DEF Pointers, Descends
        <5>2. \A s \in Sides : c(s) \in Pointers /\ rank[c(s)] < rank[x]
          BY <5>1 DEF IsTree, Descends, Pointers
        <5> HIDE DEF c
        <5>3. \A s \in Sides : f[c(s)] = g[c(s)]
          BY <3>1, <5>2
        <5>4. f[c("left")] = g[c("left")] /\ f[c("right")] = g[c("right")]
          BY <5>3, SidesAre
        <5> QED BY <5>4 DEF c
      <4> QED BY <4>1, <4>2
    <3> HIDE DEF G, Body
    <3> QED BY <3>0, <3>1
  <2>3. N \in Nat /\ \A x \in Pointers : rank[x] \in Nat /\ rank[x] < N
    BY DEF Descends, Pointers
  <2> QED BY <2>1, <2>2, <2>3 DEF Recursive
<1>2. \A x \in Pointers : \A f \in [Pointers -> Pointers] : G[x][f] = Body(x, f)
  OBVIOUS
<1> HIDE DEF G
<1>3. PICK f \in [Pointers -> Pointers] : \A x \in Pointers : f[x] = G[x][f]
  BY <1>0, <1>1, Recursion
<1>4. Def(f)
  BY <1>2, <1>3
<1>5. Search(t, k) = (CHOOSE g : Def(g))[t.mRoot]
  BY Zenon DEF Search, Pointers
<1> HIDE DEF Def
<1>6. PICK h : h = CHOOSE g : Def(g)
  OBVIOUS
<1>7. Def(h)
  BY <1>4, <1>6, Zenon
<1>8. \A x \in Pointers : h[x] = Body(x, h)
  BY <1>7 DEF Def
<1>9. Search(t, k) = h[t.mRoot]
  BY <1>5, <1>6, Zenon
<1> QED BY <1>8, <1>9, Zenon

\* inOrder() is defined.
LEMMA InOrderIsDefined ==
    ASSUME NEW t, IsTree(t), NEW rank, NEW N, Descends(t, rank, N)
    PROVE  \E f : /\ \A x \in Pointers : f[x] = IF x = Null THEN <<>>
                                                 ELSE f[t.child["left"][x]] \o <<x>> \o f[t.child["right"][x]]
                  /\ InOrder(t) = f[t.mRoot]
<1> DEFINE Body(x, f) == IF x = Null THEN <<>>
                                                 ELSE f[t.child["left"][x]] \o <<x>> \o f[t.child["right"][x]]
           Def(f) == f = [x \in Pointers |-> Body(x, f)]
           G == [x \in Pointers |-> [f \in [Pointers -> Seq(Nodes)] |-> Body(x, f)]]
<1>0. <<>> \in Seq(Nodes)
  OBVIOUS
<1>1. Recursive(Pointers, Seq(Nodes), rank, N, G)
  <2>1. G \in [Pointers -> [[Pointers -> Seq(Nodes)] -> Seq(Nodes)]]
    <3>1. \A x \in Pointers, f \in [Pointers -> Seq(Nodes)] : Body(x, f) \in Seq(Nodes)
      <4>1. SUFFICES ASSUME NEW x \in Pointers, NEW f \in [Pointers -> Seq(Nodes)], x # Null
                     PROVE  f[t.child["left"][x]] \o <<x>> \o f[t.child["right"][x]] \in Seq(Nodes)
        OBVIOUS
      <4>2. x \in Nodes /\ t.child["left"][x] \in Pointers /\ t.child["right"][x] \in Pointers
        BY <4>1 DEF IsTree, Pointers, Sides
      <4>3. f[t.child["left"][x]] \in Seq(Nodes) /\ f[t.child["right"][x]] \in Seq(Nodes) /\ <<x>> \in Seq(Nodes)
        BY <4>2
      <4> QED BY <4>3, ConcatProperties
    <3> HIDE DEF Body
    <3> QED BY <3>1
  <2>2. \A x \in Pointers : \A f, g \in [Pointers -> Seq(Nodes)] :
           (\A y \in Pointers : rank[y] < rank[x] => f[y] = g[y]) => G[x][f] = G[x][g]
    <3>1. SUFFICES ASSUME NEW x \in Pointers, NEW f \in [Pointers -> Seq(Nodes)], NEW g \in [Pointers -> Seq(Nodes)],
                          \A y \in Pointers : rank[y] < rank[x] => f[y] = g[y]
                   PROVE  Body(x, f) = Body(x, g)
      BY Zenon
    <3>2. CASE x = Null
      BY <3>2
    <3>3. CASE x # Null
      <4> DEFINE c(s) == t.child[s][x]
      <4>1. x \in Nodes /\ rank[Null] = 0 /\ rank[x] \in Nat /\ 0 < rank[x]
        BY <3>3 DEF Pointers, Descends
      <4>2. \A s \in Sides : c(s) \in Pointers /\ rank[c(s)] < rank[x]
        BY <4>1 DEF IsTree, Descends, Pointers
      <4> HIDE DEF c
      <4>3. \A s \in Sides : f[c(s)] = g[c(s)]
        BY <3>1, <4>2
      <4>4. f[c("left")] = g[c("left")] /\ f[c("right")] = g[c("right")]
        BY <4>3, SidesAre
      <4> QED BY <4>4, Zenon DEF c
    <3> QED BY <3>2, <3>3
  <2>3. N \in Nat /\ \A x \in Pointers : rank[x] \in Nat /\ rank[x] < N
    BY DEF Descends, Pointers
  <2> QED BY <2>1, <2>2, <2>3 DEF Recursive
<1>2. \A x \in Pointers : \A f \in [Pointers -> Seq(Nodes)] : G[x][f] = Body(x, f)
  OBVIOUS
<1> HIDE DEF G
<1>3. \E f \in [Pointers -> Seq(Nodes)] : \A x \in Pointers : f[x] = G[x][f]
  <2>1. PICK R : R = Seq(Nodes)
    OBVIOUS
  <2>2. <<>> \in R /\ Recursive(Pointers, R, rank, N, G)
    BY <1>0, <1>1, <2>1, Zenon
  <2>3. \E f \in [Pointers -> R] : \A x \in Pointers : f[x] = G[x][f]
    BY <2>2, Recursion
  <2> QED BY <2>1, <2>3, Zenon
<1> HIDE DEF Body
<1>4. PICK f \in [Pointers -> Seq(Nodes)] : Def(f)
  <2>1. PICK f \in [Pointers -> Seq(Nodes)] : \A x \in Pointers : f[x] = G[x][f]
    BY <1>3
  <2>2. \A x \in Pointers : f[x] = Body(x, f)
    BY <1>2, <2>1
  <2>3. Def(f)
    BY <2>2
  <2> QED BY <2>3
<1> USE DEF Body
<1>5. InOrder(t) = (CHOOSE g : Def(g))[t.mRoot]
  BY Zenon DEF InOrder, Pointers
<1> HIDE DEF Def
<1>6. PICK h : h = CHOOSE g : Def(g)
  OBVIOUS
<1>7. Def(h)
  BY <1>4, <1>6, Zenon
<1>8. \A x \in Pointers : h[x] = Body(x, h)
  BY <1>7 DEF Def
<1>9. InOrder(t) = h[t.mRoot]
  BY <1>5, <1>6, Zenon
<1> QED BY <1>8, <1>9, Zenon

\* insert() stops at a node of the tree that has no child on the new key's side.
LEMMA LeafIs ==
    ASSUME NEW t, NEW L, NEW lo, NEW at, NEW hi, Tree(t, L, lo, at, hi), Loose(t, L),
           NEW k \in Int, t.mRoot # Null
    PROVE  Leaf(t, k) \in L /\ t.child[Below(k, Leaf(t, k))][Leaf(t, k)] = Null
<1>0. IsTree(t) /\ L \subseteq Nodes /\ Null \notin Nodes /\ t.mRoot \in L
  BY DEF Tree, Shape
<1>1. PICK rank, N : Descends(t, rank, N)
  BY DownRank
<1>2. PICK f : /\ \A y \in Nodes : f[y] = IF t.child[Below(k, y)][y] = Null THEN y
                                          ELSE f[t.child[Below(k, y)][y]]
               /\ Leaf(t, k) = IF t.mRoot = Null THEN Null ELSE f[t.mRoot]
  BY <1>0, <1>1, LeafIsDefined
<1> DEFINE Bad == {x \in L : ~(f[x] \in L /\ t.child[Below(k, f[x])][f[x]] = Null)}
<1>3. Bad = {}
  <2>1. SUFFICES ASSUME Bad # {} PROVE FALSE
    OBVIOUS
  <2>2. PICK x \in Bad : \A q \in Sides :
               t.child[q][x] # Null => t.child[q][x] \in L /\ t.child[q][x] \notin Bad
    <3>1. Bad \subseteq L
      OBVIOUS
    <3> HIDE DEF Bad
    <3> QED BY <2>1, <3>1, LowestBad
  <2>3. x \in L /\ x \in Nodes /\ Below(k, x) \in Sides
    BY <1>0, BelowIs
  <2> QED BY <1>2, <2>2, <2>3
<1> QED BY <1>0, <1>2, <1>3

\* destroy() deletes a node of the tree that has no child.
LEMMA DestroyLeafIs ==
    ASSUME NEW t, NEW L, NEW lo, NEW at, NEW hi, Tree(t, L, lo, at, hi), Loose(t, L), t.mRoot # Null
    PROVE  DestroyLeaf(t) \in L /\ \A s \in Sides : t.child[s][DestroyLeaf(t)] = Null
<1>0. IsTree(t) /\ L \subseteq Nodes /\ Null \notin Nodes /\ t.mRoot \in L
  BY DEF Tree, Shape
<1>1. PICK rank, N : Descends(t, rank, N)
  BY DownRank
<1>2. PICK f : /\ \A y \in Nodes : f[y] = IF t.child["left"][y] # Null THEN f[t.child["left"][y]]
                                          ELSE IF t.child["right"][y] # Null THEN f[t.child["right"][y]]
                                          ELSE y
               /\ DestroyLeaf(t) = f[t.mRoot]
  BY <1>0, <1>1, DestroyLeafIsDefined
<1> DEFINE Bad == {x \in L : ~(f[x] \in L /\ \A s \in Sides : t.child[s][f[x]] = Null)}
<1>3. Bad = {}
  <2>1. SUFFICES ASSUME Bad # {} PROVE FALSE
    OBVIOUS
  <2>2. PICK x \in Bad : \A q \in Sides :
               t.child[q][x] # Null => t.child[q][x] \in L /\ t.child[q][x] \notin Bad
    <3>1. Bad \subseteq L
      OBVIOUS
    <3> HIDE DEF Bad
    <3> QED BY <2>1, <3>1, LowestBad
  <2>3. x \in L /\ x \in Nodes
    BY <1>0
  <2> QED BY <1>2, <2>2, <2>3, SidesAre
<1> QED BY <1>0, <1>2, <1>3

-----------------------------------------------------------------------------
(* inOrder() lists the nodes by their places.                              *)

\* The list l leads through nodes of L from left to right, between two places.
Run(l, L, at, from, to) ==
    /\ l \in Seq(Nodes)
    /\ \A i \in 1 .. Len(l) : l[i] \in L /\ from < at[l[i]] /\ at[l[i]] < to
    /\ \A i, j \in 1 .. Len(l) : i < j => at[l[i]] < at[l[j]]

In(x, l) == \E i \in 1 .. Len(l) : l[i] = x

LEMMA RunJoin ==
    ASSUME NEW L, L \subseteq Nodes, NEW at \in [Pointers -> Int], NEW x \in L, NEW a \in Int, NEW b \in Int,
           a < at[x], at[x] < b, NEW l, NEW r, Run(l, L, at, a, at[x]), Run(r, L, at, at[x], b)
    PROVE  /\ Run(l \o <<x>> \o r, L, at, a, b)
           /\ \A y : In(y, l \o <<x>> \o r) <=> In(y, l) \/ y = x \/ In(y, r)
<1> DEFINE w == l \o <<x>> \o r
           n == Len(l)
           k == Len(r)
<1>1. l \in Seq(Nodes) /\ r \in Seq(Nodes) /\ <<x>> \in Seq(Nodes) /\ n \in Nat /\ k \in Nat
  BY DEF Run
<1>2. w \in Seq(Nodes) /\ Len(w) = n + 1 + k
      /\ \A i \in 1 .. (n + 1 + k) : w[i] = IF i <= n THEN l[i] ELSE IF i = n + 1 THEN x ELSE r[i - n - 1]
  <2> DEFINE o == <<x>>
             v == l \o o
  <2>0. o \in Seq(Nodes) /\ Len(o) = 1 /\ o[1] = x
    BY <1>1
  <2> HIDE DEF o
  <2>1. v \in Seq(Nodes) /\ Len(v) = n + Len(o)
        /\ \A i \in 1 .. (n + Len(o)) : v[i] = IF i <= n THEN l[i] ELSE o[i - n]
    BY <1>1, <2>0, ConcatProperties, ZenonT(30)
  <2>2. w = v \o r
    BY DEF o
  <2> HIDE DEF v, w
  <2>3. w \in Seq(Nodes) /\ Len(w) = Len(v) + k
        /\ \A i \in 1 .. (Len(v) + k) : w[i] = IF i <= Len(v) THEN v[i] ELSE r[i - Len(v)]
    <3>1. v \in Seq(Nodes) /\ r \in Seq(Nodes)
      BY <1>1, <2>1
    <3>2. /\ v \o r \in Seq(Nodes) /\ Len(v \o r) = Len(v) + Len(r)
          /\ \A i \in 1 .. Len(v) + Len(r) :
                 (v \o r)[i] = IF i <= Len(v) THEN v[i] ELSE r[i - Len(v)]
      BY ONLY <3>1, ConcatProperties
    <3> QED BY ONLY <2>2, <3>2
  <2> HIDE DEF n, k
  <2>4. ASSUME NEW i \in 1 .. (n + 1 + k)
        PROVE  w[i] = IF i <= n THEN l[i] ELSE IF i = n + 1 THEN x ELSE r[i - n - 1]
    <3>1. CASE i <= n
      <4>1. Len(v) = n + 1 /\ i \in 1 .. (Len(v) + k) /\ i \in 1 .. (n + Len(o)) /\ i <= Len(v)
        BY <1>1, <2>0, <2>1, <3>1
      <4>2. w[i] = v[i] /\ v[i] = l[i]
        BY <2>1, <2>3, <3>1, <4>1
      <4> QED BY <3>1, <4>2
    <3>2. CASE i = n + 1
      BY <1>1, <2>0, <2>1, <2>3, <3>2
    <3>3. CASE i > n + 1
      <4>1. i - Len(v) = i - n - 1 /\ Len(v) = n + 1
        BY <1>1, <2>0, <2>1
      <4> QED BY <1>1, <2>3, <3>3, <4>1
    <3> QED BY <1>1, <3>1, <3>2, <3>3
  <2> QED BY <1>1, <2>0, <2>1, <2>3, <2>4
<1> HIDE DEF w
<1>3. /\ \A i \in 1 .. n : l[i] \in L /\ a < at[l[i]] /\ at[l[i]] < at[x]
      /\ \A i, j \in 1 .. n : i < j => at[l[i]] < at[l[j]]
      /\ \A i \in 1 .. k : r[i] \in L /\ at[x] < at[r[i]] /\ at[r[i]] < b
      /\ \A i, j \in 1 .. k : i < j => at[r[i]] < at[r[j]]
  BY DEF Run
<1>4. \A y \in L : at[y] \in Int
  BY DEF Pointers
<1> HIDE DEF n, k
<1>5. /\ \A i \in 1 .. n : i \in 1 .. (n + 1 + k) /\ w[i] = l[i]
      /\ n + 1 \in 1 .. (n + 1 + k) /\ w[n + 1] = x
      /\ \A i \in 1 .. k : i + n + 1 \in 1 .. (n + 1 + k) /\ w[i + n + 1] = r[i]
  <2>1. ASSUME NEW i \in 1 .. k PROVE i + n + 1 \in 1 .. (n + 1 + k) /\ w[i + n + 1] = r[i]
    <3>1. i + n + 1 \in 1 .. (n + 1 + k) /\ ~(i + n + 1 <= n) /\ i + n + 1 # n + 1 /\ (i + n + 1) - n - 1 = i
      BY <1>1
    <3> QED BY <1>2, <3>1
  <2> QED BY <1>1, <1>2, <2>1
<1>6. \A i \in 1 .. (n + 1 + k) : i \in 1 .. n \/ i = n + 1 \/ \E j \in 1 .. k : i = j + n + 1
  <2>1. ASSUME NEW i \in 1 .. (n + 1 + k), i > n + 1 PROVE \E j \in 1 .. k : i = j + n + 1
    <3>1. i - n - 1 \in 1 .. k /\ i = (i - n - 1) + n + 1
      BY <1>1, <2>1
    <3> QED BY <3>1
  <2> QED BY <1>1, <2>1
<1>7. ASSUME NEW i \in 1 .. (n + 1 + k) PROVE w[i] \in L /\ a < at[w[i]] /\ at[w[i]] < b
  <2>1. CASE i \in 1 .. n
    <3>1. w[i] = l[i] /\ l[i] \in L /\ at[l[i]] \in Int /\ a < at[l[i]] /\ at[l[i]] < at[x] /\ at[x] \in Int
      BY <1>3, <1>4, <1>5, <2>1
    <3> QED BY <3>1
  <2>2. CASE i = n + 1
    BY <1>5, <2>2
  <2>3. CASE \E j \in 1 .. k : i = j + n + 1
    <3>1. PICK j \in 1 .. k : i = j + n + 1
      BY <2>3
    <3>2. w[i] = r[j] /\ r[j] \in L /\ at[r[j]] \in Int /\ at[x] < at[r[j]] /\ at[r[j]] < b /\ at[x] \in Int
      BY <1>3, <1>4, <1>5, <3>1
    <3> QED BY <3>2
  <2> QED BY <1>6, <2>1, <2>2, <2>3
<1>8. ASSUME NEW i \in 1 .. (n + 1 + k), NEW j \in 1 .. (n + 1 + k), i < j
      PROVE  at[w[i]] < at[w[j]]
  <2>1. CASE j \in 1 .. n
    <3>1. i \in 1 .. n
      BY <1>1, <1>8, <2>1
    <3>2. w[i] = l[i] /\ w[j] = l[j]
      BY <1>5, <2>1, <3>1
    <3> QED BY <1>3, <1>8, <2>1, <3>1, <3>2
  <2>2. CASE j = n + 1
    <3>1. i \in 1 .. n
      BY <1>1, <1>8, <2>2
    <3> QED BY <1>3, <1>5, <2>2, <3>1
  <2>3. CASE \E m \in 1 .. k : j = m + n + 1
    <3>0. PICK m \in 1 .. k : j = m + n + 1
      BY <2>3
    <3>1. w[j] = r[m] /\ r[m] \in L /\ at[x] < at[r[m]] /\ at[x] \in Int /\ at[r[m]] \in Int
      BY <1>3, <1>4, <1>5, <3>0
    <3>2. CASE i \in 1 .. n
      <4>1. w[i] = l[i] /\ at[l[i]] < at[x] /\ l[i] \in L /\ at[l[i]] \in Int
        BY <1>3, <1>4, <1>5, <3>2
      <4> QED BY <3>1, <4>1
    <3>3. CASE i = n + 1
      BY <1>5, <3>1, <3>3
    <3>4. CASE \E q \in 1 .. k : i = q + n + 1
      <4>0. PICK q \in 1 .. k : i = q + n + 1
        BY <3>4
      <4>1. w[i] = r[q] /\ q < m
        BY <1>1, <1>5, <1>8, <3>0, <4>0
      <4> QED BY <1>3, <3>1, <4>1
    <3> QED BY <1>6, <3>2, <3>3, <3>4
  <2> QED BY <1>6, <2>1, <2>2, <2>3
<1>9. Run(w, L, at, a, b)
  BY <1>1, <1>2, <1>7, <1>8 DEF Run
<1>10. ASSUME NEW y PROVE In(y, w) <=> In(y, l) \/ y = x \/ In(y, r)
  <2>1. ASSUME In(y, w) PROVE In(y, l) \/ y = x \/ In(y, r)
    <3>1. PICK i \in 1 .. (n + 1 + k) : w[i] = y
      BY <1>2, <2>1 DEF In
    <3> QED BY <1>5, <1>6, <3>1 DEF In, n, k
  <2>2. ASSUME In(y, l) PROVE In(y, w)
    <3>1. PICK i \in 1 .. n : l[i] = y
      BY <2>2 DEF In, n
    <3> QED BY <1>2, <1>5, <3>1 DEF In
  <2>3. ASSUME y = x PROVE In(y, w)
    BY <1>2, <1>5, <2>3 DEF In
  <2>4. ASSUME In(y, r) PROVE In(y, w)
    <3>1. PICK i \in 1 .. k : r[i] = y
      BY <2>4 DEF In, k
    <3> QED BY <1>2, <1>5, <3>1 DEF In
  <2> QED BY <2>1, <2>2, <2>3, <2>4
<1> QED BY <1>9, <1>10 DEF w

LEMMA RunWiden ==
    ASSUME NEW L, L \subseteq Nodes, NEW at \in [Pointers -> Int], NEW l,
           NEW a \in Int, NEW b \in Int, NEW c \in Int, NEW d \in Int,
           Run(l, L, at, a, b), c <= a, b <= d
    PROVE  Run(l, L, at, c, d)
<1>1. \A y \in L : at[y] \in Int
  BY DEF Pointers
<1>2. \A i \in 1 .. Len(l) : l[i] \in L /\ c < at[l[i]] /\ at[l[i]] < d
  BY <1>1 DEF Run
<1> QED BY <1>2 DEF Run

LEMMA NothingIn ==
    ASSUME NEW L, NEW at, NEW a, NEW b
    PROVE  Run(<<>>, L, at, a, b) /\ \A y : ~In(y, <<>>)
<1>1. <<>> \in Seq(Nodes) /\ Len(<<>>) = 0
  OBVIOUS
<1> QED BY <1>1 DEF Run, In

\* W gives the list of what is at and below each node.
Walks(t, L, lo, at, hi, W) ==
    /\ W[Null] = <<>>
    /\ \A x \in L :
           /\ W[x] = W[t.child["left"][x]] \o <<x>> \o W[t.child["right"][x]]
           /\ Run(W[x], L, at, lo[x], hi[x])
           /\ Run(W[t.child["left"][x]], L, at, lo[x], at[x])
           /\ Run(W[t.child["right"][x]], L, at, at[x], hi[x])
           /\ \A y : In(y, W[x]) <=> \/ In(y, W[t.child["left"][x]])
                                     \/ y = x
                                     \/ In(y, W[t.child["right"][x]])

LEMMA WalkIs ==
    ASSUME NEW t, NEW L, NEW lo, NEW at, NEW hi, Tree(t, L, lo, at, hi), Loose(t, L)
    PROVE  \E W : Walks(t, L, lo, at, hi, W) /\ InOrder(t) = W[t.mRoot]
<1>0. /\ IsTree(t) /\ L \subseteq Nodes /\ Null \notin Nodes /\ t.mRoot \in L \cup {Null}
      /\ at \in [Pointers -> Int]
  BY DEF Tree, Shape, Placed
<1>1. PICK rank, N : Descends(t, rank, N)
  BY DownRank
<1>2. PICK W : /\ \A x \in Pointers : W[x] = IF x = Null THEN <<>>
                                             ELSE W[t.child["left"][x]] \o <<x>> \o W[t.child["right"][x]]
               /\ InOrder(t) = W[t.mRoot]
  BY <1>0, <1>1, InOrderIsDefined
<1>3. /\ W[Null] = <<>>
      /\ \A x \in L : W[x] = W[t.child["left"][x]] \o <<x>> \o W[t.child["right"][x]]
  BY <1>0, <1>2 DEF Pointers
<1> DEFINE Good(x) ==
           /\ Run(W[x], L, at, lo[x], hi[x])
           /\ Run(W[t.child["left"][x]], L, at, lo[x], at[x])
           /\ Run(W[t.child["right"][x]], L, at, at[x], hi[x])
           /\ \A y : In(y, W[x]) <=> \/ In(y, W[t.child["left"][x]])
                                     \/ y = x
                                     \/ In(y, W[t.child["right"][x]])
           Bad == {x \in L : ~Good(x)}
<1>4. Bad = {}
  <2>1. SUFFICES ASSUME Bad # {} PROVE FALSE
    OBVIOUS
  <2>2. PICK x \in Bad : \A s \in Sides :
               t.child[s][x] # Null => t.child[s][x] \in L /\ t.child[s][x] \notin Bad
    <3>1. Bad \subseteq L
      OBVIOUS
    <3> HIDE DEF Bad
    <3> QED BY <2>1, <3>1, LowestBad
  <2> DEFINE l == t.child["left"][x]
             r == t.child["right"][x]
  <2>3. x \in L /\ x \in Nodes /\ ~Good(x)
    BY <1>0
  <2>4. /\ lo[x] \in Int /\ at[x] \in Int /\ hi[x] \in Int /\ lo[x] < at[x] /\ at[x] < hi[x]
    BY <2>3 DEF Tree, Placed, Pointers
  <2>5. l # Null => Run(W[l], L, at, lo[l], hi[l])
    BY <2>2, SidesAre
  <2>6. r # Null => Run(W[r], L, at, lo[r], hi[r])
    BY <2>2, SidesAre
  <2>7. l # Null => lo[x] <= lo[l] /\ hi[l] <= at[x] /\ lo[l] \in Int /\ hi[l] \in Int
    BY <2>3, SidesAre, Nested
  <2>8. r # Null => at[x] <= lo[r] /\ hi[r] <= hi[x] /\ lo[r] \in Int /\ hi[r] \in Int
    BY <2>3, SidesAre, Nested
  <2>9. W[x] = W[l] \o <<x>> \o W[r]
    BY <1>3, <2>3
  <2>10. Good(x) <=> /\ Run(W[x], L, at, lo[x], hi[x])
                     /\ Run(W[l], L, at, lo[x], at[x])
                     /\ Run(W[r], L, at, at[x], hi[x])
                     /\ \A y : In(y, W[x]) <=> In(y, W[l]) \/ y = x \/ In(y, W[r])
    OBVIOUS
  <2> HIDE DEF Good, Bad, l, r
  <2>11. Run(W[l], L, at, lo[x], at[x])
    <3>1. CASE l = Null
      BY <1>3, <3>1, NothingIn
    <3>2. CASE l # Null
      BY <1>0, <2>4, <2>5, <2>7, <3>2, RunWiden
    <3> QED BY <3>1, <3>2
  <2>12. Run(W[r], L, at, at[x], hi[x])
    <3>1. CASE r = Null
      BY <1>3, <3>1, NothingIn
    <3>2. CASE r # Null
      BY <1>0, <2>4, <2>6, <2>8, <3>2, RunWiden
    <3> QED BY <3>1, <3>2
  <2>13. /\ Run(W[x], L, at, lo[x], hi[x])
         /\ \A y : In(y, W[x]) <=> In(y, W[l]) \/ y = x \/ In(y, W[r])
    <3>1. /\ Run(W[l] \o <<x>> \o W[r], L, at, lo[x], hi[x])
          /\ \A y : In(y, W[l] \o <<x>> \o W[r]) <=> In(y, W[l]) \/ y = x \/ In(y, W[r])
      BY <1>0, <2>3, <2>4, <2>11, <2>12, RunJoin
    <3> QED BY <2>9, <3>1, Zenon
  <2> QED BY <2>3, <2>10, <2>11, <2>12, <2>13
<1>5. \A x \in L : Good(x)
  BY <1>4
<1> HIDE DEF Bad
<1>6. Walks(t, L, lo, at, hi, W)
  BY <1>3, <1>5 DEF Walks
<1> QED BY <1>2, <1>6

\* Of the bad nodes there is one that is the root or has a good parent.
LEMMA HighestBad ==
    ASSUME NEW t, NEW L, NEW lo, NEW at, NEW hi, Tree(t, L, lo, at, hi),
           NEW Bad, Bad \subseteq L, Bad # {}
    PROVE  \E x \in Bad : x = t.mRoot \/ /\ t.parent[x] \in L /\ t.parent[x] \notin Bad
                                         /\ \E s \in Sides : t.child[s][t.parent[x]] = x
<1> DEFINE rank == [x \in L |-> (hi[Null] - lo[Null]) - (hi[x] - lo[x])]
<1>1. \A x \in Bad : rank[x] \in Nat
  <2>1. \A x \in L : lo[x] \in Int /\ hi[x] \in Int /\ lo[Null] <= lo[x] /\ hi[x] <= hi[Null]
    BY DEF Tree, Placed, Shape, Pointers
  <2>2. lo[Null] \in Int /\ hi[Null] \in Int
    BY DEF Tree, Placed, Pointers
  <2> QED BY <2>1, <2>2
<1> HIDE DEF rank
<1>2. PICK x \in Bad : \A y \in Bad : rank[x] <= rank[y]
  BY <1>1, LowestRank
<1>3. ASSUME x # t.mRoot
      PROVE  /\ t.parent[x] \in L /\ t.parent[x] \notin Bad
             /\ \E s \in Sides : t.child[s][t.parent[x]] = x
  <2> DEFINE p == t.parent[x]
  <2>1. p \in L /\ \E s \in Sides : t.child[s][p] = x
    BY <1>3 DEF Tree, Shape
  <2>2. x # Null
    BY ParentOf
  <2> HIDE DEF p
  <2>3. hi[x] - lo[x] < hi[p] - lo[p]
        /\ lo[x] \in Int /\ lo[p] \in Int /\ hi[x] \in Int /\ hi[p] \in Int
    BY <2>1, <2>2, Nested
  <2>4. lo[Null] \in Int /\ hi[Null] \in Int
    BY DEF Tree, Placed, Pointers
  <2>5. rank[p] < rank[x] /\ rank[p] \in Int /\ rank[x] \in Int
    BY <2>1, <2>3, <2>4 DEF rank
  <2>6. p \notin Bad
    BY <1>2, <2>5
  <2> QED BY <2>1, <2>6 DEF p
<1> QED BY <1>2, <1>3

\* What is below a node of the list is on it.
LEMMA WalkIsClosed ==
    ASSUME NEW t, NEW L, NEW lo, NEW at, NEW hi, Tree(t, L, lo, at, hi),
           NEW W, Walks(t, L, lo, at, hi, W)
    PROVE  \A x \in L : \A y \in L : \A s \in Sides :
               In(y, W[x]) /\ t.child[s][y] # Null => In(t.child[s][y], W[x])
<1> DEFINE Good(x) == \A y \in L : \A s \in Sides :
                          In(y, W[x]) /\ t.child[s][y] # Null => In(t.child[s][y], W[x])
           Bad == {x \in L : ~Good(x)}
<1>1. Bad = {}
  <2>1. SUFFICES ASSUME Bad # {} PROVE FALSE
    OBVIOUS
  <2>2. PICK x \in Bad : \A s \in Sides :
               t.child[s][x] # Null => t.child[s][x] \in L /\ t.child[s][x] \notin Bad
    <3>1. Bad \subseteq L
      OBVIOUS
    <3> HIDE DEF Bad
    <3> QED BY <2>1, <3>1, LowestBad
  <2>3. \A r \in Sides : \A y : In(y, W[t.child[r][x]]) => In(y, W[x])
    BY SidesAre DEF Walks
  <2>4. ASSUME NEW y \in L, NEW s \in Sides, In(y, W[x]), t.child[s][y] # Null
        PROVE  In(t.child[s][y], W[x])
    <3>1. CASE y = x
      <4>1. t.child[s][x] \in L
        BY <2>2, <2>4, <3>1
      <4>2. In(t.child[s][x], W[t.child[s][x]])
        BY <4>1 DEF Walks
      <4> QED BY <2>3, <3>1, <4>2
    <3>2. ASSUME NEW r \in Sides, In(y, W[t.child[r][x]]) PROVE In(t.child[s][y], W[x])
      <4>1. t.child[r][x] # Null
        BY <3>2, NothingIn, SMTT(30) DEF Walks
      <4>2. Good(t.child[r][x])
        BY <2>2, <4>1
      <4>3. In(t.child[s][y], W[t.child[r][x]])
        BY <2>4, <3>2, <4>2
      <4> QED BY <2>3, <4>3
    <3> QED BY <2>4, <3>1, <3>2, SidesAre DEF Walks
  <2> QED BY <2>4
<1> QED BY <1>1

LEMMA RootOf ==
    ASSUME NEW t, NEW L, NEW lo, NEW at, NEW hi, Tree(t, L, lo, at, hi)
    PROVE  t.mRoot = Null <=> L = {}
<1>1. ASSUME L # {} PROVE t.mRoot # Null
  <2>1. PICK x \in L : x = t.mRoot \/ (t.parent[x] \in L /\ t.parent[x] \notin L)
    BY <1>1, HighestBad
  <2> QED BY <2>1, ParentOf
<1> QED BY <1>1 DEF Tree, Shape

\* inOrder() is the list of the linked nodes, from left to right.
LEMMA InOrderIs ==
    ASSUME NEW t, NEW L, NEW lo, NEW at, NEW hi, Tree(t, L, lo, at, hi), Loose(t, L)
    PROVE  /\ Run(InOrder(t), L, at, lo[Null], hi[Null])
           /\ \A y : In(y, InOrder(t)) <=> y \in L
<1>1. PICK W : Walks(t, L, lo, at, hi, W) /\ InOrder(t) = W[t.mRoot]
  BY WalkIs
<1>2. CASE t.mRoot = Null
  <2>1. InOrder(t) = <<>> /\ L = {}
    BY <1>1, <1>2, RootOf DEF Walks
  <2> QED BY <2>1, NothingIn
<1>3. CASE t.mRoot # Null
  <2> DEFINE r == t.mRoot
             Bad == {y \in L : ~In(y, W[r])}
  <2>1. r \in L /\ L \subseteq Nodes /\ at \in [Pointers -> Int]
    BY <1>3 DEF Tree, Shape, Placed
  <2>2. Run(W[r], L, at, lo[Null], hi[Null])
    <3>1. /\ lo[r] \in Int /\ hi[r] \in Int /\ lo[Null] \in Int /\ hi[Null] \in Int
          /\ lo[Null] <= lo[r] /\ hi[r] <= hi[Null]
      BY <2>1 DEF Tree, Placed, Pointers
    <3>2. Run(W[r], L, at, lo[r], hi[r])
      BY <1>1, <2>1 DEF Walks
    <3> QED BY <2>1, <3>1, <3>2, RunWiden
  <2>3. Bad = {}
    <3>1. SUFFICES ASSUME Bad # {} PROVE FALSE
      OBVIOUS
    <3>2. PICK x \in Bad : x = t.mRoot \/ /\ t.parent[x] \in L /\ t.parent[x] \notin Bad
                                          /\ \E s \in Sides : t.child[s][t.parent[x]] = x
      <4>1. Bad \subseteq L
        OBVIOUS
      <4> HIDE DEF Bad
      <4> QED BY <3>1, <4>1, HighestBad
    <3>3. x # r
      BY <1>1, <2>1 DEF Walks
    <3>4. PICK s \in Sides : t.child[s][t.parent[x]] = x
      BY <3>2, <3>3
    <3>5. In(t.parent[x], W[r]) /\ t.parent[x] \in L /\ x # Null
      BY <3>2, <3>3, ParentOf
    <3>6. In(x, W[r])
      BY <1>1, <2>1, <3>4, <3>5, WalkIsClosed
    <3> QED BY <3>6
  <2>4. \A y : In(y, W[r]) => y \in L
    BY <2>2 DEF In, Run
  <2> QED BY <1>1, <2>2, <2>3, <2>4
<1> QED BY <1>2, <1>3

\* Each linked node is on the list once.
LEMMA InOrderCounts ==
    ASSUME NEW t, NEW L, NEW lo, NEW at, NEW hi, Tree(t, L, lo, at, hi), Loose(t, L)
    PROVE  /\ {InOrder(t)[i] : i \in DOMAIN InOrder(t)} = L
           /\ IsFiniteSet(L) /\ Len(InOrder(t)) = Cardinality(L)
<1> DEFINE l == InOrder(t)
           n == Len(l)
<1>1. /\ Run(l, L, at, lo[Null], hi[Null]) /\ \A y : In(y, l) <=> y \in L
      /\ L \subseteq Nodes /\ at \in [Pointers -> Int]
  BY InOrderIs DEF Tree, Shape, Placed
<1> HIDE DEF l
<1>2. l \in Seq(Nodes) /\ n \in Nat /\ DOMAIN l = 1 .. n
  BY <1>1 DEF Run
<1>3. {l[i] : i \in DOMAIN l} = L
  BY <1>1, <1>2 DEF In
<1>4. IsFiniteSet(L)
  BY <1>1, FS_Subset
<1>5. n = Cardinality(L)
  <2> DEFINE f == [i \in 1 .. n |-> l[i]]
  <2>1. f \in [1 .. n -> L]
    BY <1>1 DEF Run
  <2>2. \A i, j \in 1 .. n : f[i] = f[j] => i = j
    <3>1. SUFFICES ASSUME NEW i \in 1 .. n, NEW j \in 1 .. n, l[i] = l[j], i < j PROVE FALSE
      BY <1>2
    <3>2. at[l[i]] < at[l[j]] /\ at[l[i]] \in Int
      BY <1>1, <3>1 DEF Run, Pointers
    <3> QED BY <3>1, <3>2
  <2>3. \A y \in L : \E i \in 1 .. n : f[i] = y
    BY <1>1 DEF In
  <2>4. f \in Bijection(1 .. n, L)
    BY <2>1, <2>2, <2>3 DEF Bijection, Injection, Surjection, IsInjective
  <2> HIDE DEF n
  <2>5. IsFiniteSet(1 .. n) /\ Cardinality(1 .. n) = n
    BY <1>2, FS_Interval
  <2>6. Cardinality(1 .. n) = Cardinality(L)
    BY <2>4, <2>5, FS_Bijection DEF ExistsBijection
  <2> QED BY <2>5, <2>6
<1> QED BY <1>3, <1>4, <1>5 DEF l

-----------------------------------------------------------------------------
(* Painting, freeing and removing keep the tree.                           *)

LEMMA PaintTree ==
    ASSUME NEW t, NEW L, NEW lo, NEW at, NEW hi, Tree(t, L, lo, at, hi), NEW x, NEW c,
           NEW u, Painted(t, u, x, c)
    PROVE  Tree(u, L, lo, at, hi) /\ (Loose(t, L) => Loose(u, L))
<1>1. IsTree(u) /\ u.mRoot = t.mRoot /\ u.parent = t.parent /\ u.child = t.child
  BY DEF Painted
<1>2. Shape(u, L) /\ (Loose(t, L) => Loose(u, L))
  BY <1>1 DEF Tree, Shape, Loose
<1>3. Placed(u, L, lo, at, hi)
  BY <1>1 DEF Tree, Placed
<1> QED BY <1>2, <1>3 DEF Tree

LEMMA ForgetTree ==
    ASSUME NEW t, NEW L, NEW lo, NEW at, NEW hi, Tree(t, L, lo, at, hi), NEW x \in Nodes, x \notin L,
           NEW u, Forgotten(t, u, x)
    PROVE  /\ Tree(u, L, lo, at, hi)
           /\ (\A y \in Nodes \ L : y # x => /\ t.parent[y] \in L \cup {Null}
                                             /\ \A s \in Sides : t.child[s][y] \in L \cup {Null})
                  => Loose(u, L)
<1>1. /\ IsTree(u) /\ u.mRoot = t.mRoot /\ L \subseteq Nodes
      /\ \A y \in Nodes \ {x} : u.parent[y] = t.parent[y] /\ \A s \in Sides : u.child[s][y] = t.child[s][y]
      /\ u.parent[x] = Null /\ \A s \in Sides : u.child[s][x] = Null
  BY DEF Forgotten, Tree, Shape
<1>2. \A y \in L : u.parent[y] = t.parent[y] /\ \A s \in Sides : u.child[s][y] = t.child[s][y]
  BY <1>1
<1>3. Shape(u, L)
  BY <1>1, <1>2 DEF Tree, Shape
<1>4. Placed(u, L, lo, at, hi)
  BY <1>2, SidesAre DEF Tree, Placed
<1> QED BY <1>1, <1>3, <1>4 DEF Tree, Loose

LEMMA CutTree ==
    ASSUME NEW t, NEW L, NEW lo, NEW at, NEW hi, Tree(t, L, lo, at, hi), NEW x \in L, NEW s \in Sides,
           t.child[Other(s)][x] = Null, NEW c, c = t.child[s][x], NEW u, Replaced(t, u, x, c)
    PROVE  Tree(u, L \ {x}, lo, at, hi)
<1> DEFINE p == t.parent[x]
<1>1. /\ IsTree(t) /\ L \subseteq Nodes /\ Null \notin Nodes /\ x \in Nodes
      /\ t.mRoot \in L \cup {Null} /\ (t.mRoot # Null => t.parent[t.mRoot] = Null)
      /\ \A z \in L, r \in Sides :
           t.child[r][z] # Null => t.child[r][z] \in L /\ t.parent[t.child[r][z]] = z
      /\ \A z \in L \ {t.mRoot} : t.parent[z] \in L /\ \E r \in Sides : t.child[r][t.parent[z]] = z
  BY DEF Tree, Shape
<1>2. /\ IsTree(u)
      /\ u.mRoot = IF t.mRoot = x THEN c ELSE t.mRoot
      /\ \A z \in Nodes : u.parent[z] = IF z = c THEN p ELSE t.parent[z]
      /\ \A z \in Nodes, r \in Sides :
             u.child[r][z] = IF z = p /\ t.child[r][z] = x THEN c ELSE t.child[r][z]
  BY DEF Replaced
<1>3. c # Null => c \in L /\ c # x /\ t.parent[c] = x /\ lo[x] <= lo[c] /\ hi[c] <= hi[x]
                  /\ lo[x] \in Int /\ lo[c] \in Int /\ hi[x] \in Int /\ hi[c] \in Int
  <2>1. ASSUME c # Null PROVE c \in L /\ c # x /\ t.parent[c] = x
                  /\ lo[x] \in Int /\ lo[c] \in Int /\ hi[x] \in Int /\ hi[c] \in Int
    BY <2>1, Nested
  <2>2. ASSUME c # Null PROVE lo[x] <= lo[c] /\ hi[c] <= hi[x]
    <3>1. CASE s = "left"
      BY <2>2, <3>1, Nested
    <3>2. CASE s = "right"
      BY <2>2, <3>2, Nested
    <3> QED BY <3>1, <3>2, SidesAre
  <2> QED BY <2>1, <2>2
<1>4. (p = Null <=> x = t.mRoot) /\ (p # Null => p \in L /\ p # x /\ \E r \in Sides : t.child[r][p] = x)
  BY ParentOf
<1>5. \A r \in Sides : r # s => t.child[r][x] = Null
  BY SidesAre
<1>6. t.child[s][x] = c
  OBVIOUS
<1> HIDE DEF p
<1>7. u.mRoot \in (L \ {x}) \cup {Null} /\ (u.mRoot # Null => u.parent[u.mRoot] = Null)
  BY <1>1, <1>2, <1>3, <1>4
<1>8. ASSUME NEW z \in L \ {x}, NEW r \in Sides, u.child[r][z] # Null
      PROVE  u.child[r][z] \in L \ {x} /\ u.parent[u.child[r][z]] = z
  <2>1. CASE z = p /\ t.child[r][z] = x
    BY <1>1, <1>2, <1>3, <1>8, <2>1
  <2>2. CASE ~(z = p /\ t.child[r][z] = x)
    <3> DEFINE d == t.child[r][z]
    <3>1. u.child[r][z] = d /\ d # Null /\ d \in L /\ t.parent[d] = z /\ d \in Nodes
      BY <1>1, <1>2, <1>8, <2>2
    <3> HIDE DEF d
    <3>2. d # x
      BY <2>2, <3>1 DEF p, d
    <3>3. d # c
      BY <1>3, <3>1
    <3> QED BY <1>2, <3>1, <3>2, <3>3
  <2> QED BY <2>1, <2>2
<1>9. ASSUME NEW z \in (L \ {x}) \ {u.mRoot}
      PROVE  u.parent[z] \in L \ {x} /\ \E r \in Sides : u.child[r][u.parent[z]] = z
  <2>1. CASE z = c
    <3>1. t.mRoot # x /\ u.parent[z] = p
      BY <1>1, <1>2, <2>1
    <3>2. p \in L /\ p # x /\ p \in Nodes
      BY <1>1, <1>4, <3>1
    <3>3. PICK r \in Sides : t.child[r][p] = x
      BY <1>1, <1>4, <3>2
    <3> QED BY <1>2, <2>1, <3>1, <3>2, <3>3
  <2>2. CASE z # c
    <3>1. z # t.mRoot /\ u.parent[z] = t.parent[z]
      BY <1>1, <1>2, <2>2
    <3>2. PICK r \in Sides : t.child[r][t.parent[z]] = z
      BY <1>1, <3>1
    <3>3. t.parent[z] \in L /\ t.parent[z] # x
      BY <1>1, <1>5, <1>6, <2>2, <3>1, <3>2
    <3>4. u.child[r][t.parent[z]] = z
      BY <1>1, <1>2, <3>2, <3>3
    <3> QED BY <3>1, <3>3, <3>4
  <2> QED BY <2>1, <2>2
<1>10. Shape(u, L \ {x})
  BY <1>1, <1>2, <1>7, <1>8, <1>9 DEF Shape
<1>11. /\ lo \in [Pointers -> Int] /\ at \in [Pointers -> Int] /\ hi \in [Pointers -> Int]
       /\ \A z \in L : lo[z] < at[z] /\ at[z] < hi[z] /\ lo[Null] <= lo[z] /\ hi[z] <= hi[Null]
       /\ \A z \in L : lo[z] \in Int /\ at[z] \in Int /\ hi[z] \in Int
  BY <1>1 DEF Tree, Placed, Pointers
<1>12. ASSUME NEW z \in L \ {x}, u.child["left"][z] # Null
       PROVE  lo[z] <= lo[u.child["left"][z]] /\ hi[u.child["left"][z]] <= at[z]
  <2>1. CASE z = p /\ t.child["left"][z] = x
    <3>1. lo[z] <= lo[x] /\ hi[x] <= at[z]
      BY <1>1, <2>1, SidesAre, Nested
    <3>2. u.child["left"][z] = c
      BY <1>1, <1>2, <2>1, SidesAre
    <3> QED BY <1>3, <1>11, <1>12, <3>1, <3>2
  <2>2. CASE ~(z = p /\ t.child["left"][z] = x)
    <3>1. u.child["left"][z] = t.child["left"][z]
      BY <1>1, <1>2, <2>2, SidesAre
    <3> QED BY <1>12, <3>1, SidesAre, Nested
  <2> QED BY <2>1, <2>2
<1>13. ASSUME NEW z \in L \ {x}, u.child["right"][z] # Null
       PROVE  at[z] <= lo[u.child["right"][z]] /\ hi[u.child["right"][z]] <= hi[z]
  <2>1. CASE z = p /\ t.child["right"][z] = x
    <3>1. at[z] <= lo[x] /\ hi[x] <= hi[z]
      BY <1>1, <2>1, SidesAre, Nested
    <3>2. u.child["right"][z] = c
      BY <1>1, <1>2, <2>1, SidesAre
    <3> QED BY <1>3, <1>11, <1>13, <3>1, <3>2
  <2>2. CASE ~(z = p /\ t.child["right"][z] = x)
    <3>1. u.child["right"][z] = t.child["right"][z]
      BY <1>1, <1>2, <2>2, SidesAre
    <3> QED BY <1>13, <3>1, SidesAre, Nested
  <2> QED BY <2>1, <2>2
<1>14. Placed(u, L \ {x}, lo, at, hi)
  BY <1>11, <1>12, <1>13 DEF Placed
<1> QED BY <1>10, <1>14 DEF Tree

\* The place of a new node: next to the node that becomes its parent.
NewAt(at, y, s, n) ==
    [z \in Pointers |-> IF z # n THEN 2 * at[z]
                        ELSE IF y = Null THEN 1
                        ELSE IF s = "left" THEN 2 * at[y] - 1 ELSE 2 * at[y] + 1]

LEMMA InsertTree ==
    ASSUME NEW t, NEW L, NEW lo, NEW at, NEW hi, Tree(t, L, lo, at, hi), NEW n \in Nodes, n \notin L,
           \A s \in Sides : t.child[s][n] = Null,
           NEW y, NEW s \in Sides, (y = Null /\ t.mRoot = Null) \/ (y \in L /\ t.child[s][y] = Null),
           NEW u, Attached(t, u, y, s, n)
    PROVE  \E lo2, hi2 : Tree(u, L \cup {n}, lo2, NewAt(at, y, s, n), hi2)
<1>1. /\ IsTree(t) /\ L \subseteq Nodes /\ Null \notin Nodes
      /\ t.mRoot \in L \cup {Null} /\ (t.mRoot # Null => t.parent[t.mRoot] = Null)
      /\ \A z \in L, r \in Sides :
           t.child[r][z] # Null => t.child[r][z] \in L /\ t.parent[t.child[r][z]] = z
      /\ \A z \in L \ {t.mRoot} : t.parent[z] \in L /\ \E r \in Sides : t.child[r][t.parent[z]] = z
  BY DEF Tree, Shape
<1>2. /\ IsTree(u)
      /\ u.mRoot = IF y = Null THEN n ELSE t.mRoot
      /\ \A r \in Sides, x \in Nodes : u.child[r][x] = IF r = s /\ x = y THEN n ELSE t.child[r][x]
      /\ \A x \in Nodes : u.parent[x] = IF x = n THEN y ELSE t.parent[x]
  BY DEF Attached
<1>3. y = Null => L = {} /\ t.mRoot = Null
  BY <1>1, RootOf
<1>4. y # Null => y \in L /\ y \in Nodes /\ y # n /\ t.child[s][y] = Null /\ t.mRoot # Null
  BY <1>1, RootOf
<1>5. Shape(u, L \cup {n})
  <2>1. /\ u.mRoot \in L \cup {n} \cup {Null} /\ (u.mRoot # Null => u.parent[u.mRoot] = Null)
        /\ L \cup {n} \subseteq Nodes
    BY <1>1, <1>2, <1>3, <1>4
  <2>2. ASSUME NEW z \in L \cup {n}, NEW r \in Sides, u.child[r][z] # Null
        PROVE  u.child[r][z] \in L \cup {n} /\ u.parent[u.child[r][z]] = z
    <3>1. CASE r = s /\ z = y
      BY <1>1, <1>2, <3>1
    <3>2. CASE ~(r = s /\ z = y)
      <4>1. u.child[r][z] = t.child[r][z] /\ z \in L
        BY <1>1, <1>2, <2>2, <3>2
      <4>2. t.child[r][z] \in L /\ t.parent[t.child[r][z]] = z /\ t.child[r][z] # n
        BY <1>1, <2>2, <4>1
      <4> QED BY <1>1, <1>2, <4>1, <4>2
    <3> QED BY <3>1, <3>2
  <2>3. ASSUME NEW z \in (L \cup {n}) \ {u.mRoot}
        PROVE  u.parent[z] \in L \cup {n} /\ \E r \in Sides : u.child[r][u.parent[z]] = z
    <3>1. CASE z = n
      BY <1>1, <1>2, <1>4, <2>3, <3>1
    <3>2. CASE z # n
      <4>1. z \in L /\ z # t.mRoot
        BY <1>2, <1>3, <2>3, <3>2
      <4>2. PICK r \in Sides : t.child[r][t.parent[z]] = z
        BY <1>1, <4>1
      <4>3. t.parent[z] \in L /\ u.parent[z] = t.parent[z] /\ z # Null
        BY <1>1, <1>2, <3>2, <4>1
      <4>4. u.child[r][t.parent[z]] = z
        BY <1>1, <1>2, <1>4, <4>2, <4>3
      <4> QED BY <4>3, <4>4
    <3> QED BY <3>1, <3>2
  <2> QED BY <1>2, <2>1, <2>2, <2>3 DEF Shape
<1>6. /\ lo \in [Pointers -> Int] /\ at \in [Pointers -> Int] /\ hi \in [Pointers -> Int]
      /\ \A z \in L : lo[z] < at[z] /\ at[z] < hi[z] /\ lo[Null] <= lo[z] /\ hi[z] <= hi[Null]
      /\ \A z \in Pointers : lo[z] \in Int /\ at[z] \in Int /\ hi[z] \in Int
      /\ \A z \in L : z \in Pointers /\ z # n /\ z # Null
      /\ Null \in Pointers /\ n \in Pointers /\ n # Null
  BY <1>1 DEF Tree, Placed, Pointers
<1> DEFINE at2 == NewAt(at, y, s, n)
           m == IF y = Null THEN 1 ELSE IF s = "left" THEN 2 * at[y] - 1 ELSE 2 * at[y] + 1
           lo2 == [z \in Pointers |-> IF z = n THEN m - 1 ELSE IF z = Null /\ y = Null THEN 0 ELSE 2 * lo[z]]
           hi2 == [z \in Pointers |-> IF z = n THEN m + 1 ELSE IF z = Null /\ y = Null THEN 2 ELSE 2 * hi[z]]
<1>7. m \in Int
  <2>1. y # Null => at[y] \in Int
    BY <1>4, <1>6
  <2> QED BY <2>1
<1>8. /\ y = Null => m = 1
      /\ y # Null /\ s = "left" => m = 2 * at[y] - 1
      /\ y # Null /\ s = "right" => m = 2 * at[y] + 1
  BY SidesAre
<1>9. /\ lo2 \in [Pointers -> Int] /\ at2 \in [Pointers -> Int] /\ hi2 \in [Pointers -> Int]
      /\ lo2[n] = m - 1 /\ at2[n] = m /\ hi2[n] = m + 1
      /\ y = Null => lo2[Null] = 0 /\ hi2[Null] = 2
      /\ y # Null => lo2[Null] = 2 * lo[Null] /\ hi2[Null] = 2 * hi[Null]
      /\ \A z \in L : lo2[z] = 2 * lo[z] /\ at2[z] = 2 * at[z] /\ hi2[z] = 2 * hi[z]
  <2>1. \A z \in Pointers : at2[z] = IF z = n THEN m ELSE 2 * at[z]
    BY DEF NewAt
  <2>2. at2 \in [Pointers -> Int]
    <3>1. at2 = [z \in Pointers |-> IF z = n THEN m ELSE 2 * at[z]]
      BY DEF NewAt
    <3> HIDE DEF at2, m
    <3> QED BY <1>6, <1>7, <3>1
  <2> HIDE DEF at2, m
  <2>3. lo2 \in [Pointers -> Int] /\ hi2 \in [Pointers -> Int]
    BY <1>6, <1>7
  <2> QED BY <1>6, <2>1, <2>2, <2>3
<1>10. \A z \in L, r \in Sides : u.child[r][z] = IF r = s /\ z = y THEN n ELSE t.child[r][z]
  BY <1>1, <1>2
<1>11. \A r \in Sides : u.child[r][n] = Null
  BY <1>2, <1>4
<1> HIDE DEF at2, lo2, hi2, m
<1>12. \A z \in L \cup {n} : lo2[z] < at2[z] /\ at2[z] < hi2[z]
  BY <1>6, <1>7, <1>9
<1>13. \A z \in L \cup {n} : lo2[Null] <= lo2[z] /\ hi2[z] <= hi2[Null]
  <2>1. CASE y = Null
    BY <1>3, <1>7, <1>8, <1>9, <2>1
  <2>2. CASE y # Null
    <3>1. lo[Null] <= lo[y] /\ hi[y] <= hi[Null] /\ lo[y] < at[y] /\ at[y] < hi[y]
      BY <1>4, <1>6, <2>2
    <3>2. lo[y] \in Int /\ at[y] \in Int /\ hi[y] \in Int /\ lo[Null] \in Int /\ hi[Null] \in Int
      BY <1>4, <1>6, <2>2
    <3>3. lo2[Null] <= lo2[n] /\ hi2[n] <= hi2[Null]
      BY <1>7, <1>8, <1>9, <2>2, <3>1, <3>2, SidesAre
    <3>4. \A z \in L : lo2[Null] <= lo2[z] /\ hi2[z] <= hi2[Null]
      BY <1>6, <1>9, <2>2
    <3> QED BY <3>3, <3>4
  <2> QED BY <2>1, <2>2
<1>14. ASSUME NEW z \in L \cup {n}, u.child["left"][z] # Null
       PROVE  lo2[z] <= lo2[u.child["left"][z]] /\ hi2[u.child["left"][z]] <= at2[z]
  <2>1. z \in L /\ lo[z] \in Int /\ at[z] \in Int /\ hi[z] \in Int /\ lo[z] < at[z] /\ at[z] < hi[z]
        /\ lo2[z] = 2 * lo[z] /\ at2[z] = 2 * at[z] /\ hi2[z] = 2 * hi[z]
    BY <1>6, <1>9, <1>11, <1>14, SidesAre
  <2>2. CASE s = "left" /\ z = y
    <3>1. y # Null /\ u.child["left"][z] = n /\ m = 2 * at[z] - 1
      BY <1>6, <1>8, <1>10, <2>1, <2>2, SidesAre
    <3> QED BY <1>7, <1>9, <2>1, <3>1
  <2>3. CASE ~(s = "left" /\ z = y)
    <3> DEFINE c == t.child["left"][z]
    <3>1. u.child["left"][z] = c /\ c # Null /\ c \in L
      BY <1>1, <1>10, <1>14, <2>1, <2>3, SidesAre
    <3>2. lo[z] <= lo[c] /\ hi[c] <= at[z] /\ lo[c] \in Int /\ hi[c] \in Int
      BY <2>1, <3>1, SidesAre, Nested
    <3> HIDE DEF c
    <3> QED BY <1>9, <2>1, <3>1, <3>2
  <2> QED BY <2>2, <2>3
<1>15. ASSUME NEW z \in L \cup {n}, u.child["right"][z] # Null
       PROVE  at2[z] <= lo2[u.child["right"][z]] /\ hi2[u.child["right"][z]] <= hi2[z]
  <2>1. z \in L /\ lo[z] \in Int /\ at[z] \in Int /\ hi[z] \in Int /\ lo[z] < at[z] /\ at[z] < hi[z]
        /\ lo2[z] = 2 * lo[z] /\ at2[z] = 2 * at[z] /\ hi2[z] = 2 * hi[z]
    BY <1>6, <1>9, <1>11, <1>15, SidesAre
  <2>2. CASE s = "right" /\ z = y
    <3>1. y # Null /\ u.child["right"][z] = n /\ m = 2 * at[z] + 1
      BY <1>6, <1>8, <1>10, <2>1, <2>2, SidesAre
    <3> QED BY <1>7, <1>9, <2>1, <3>1
  <2>3. CASE ~(s = "right" /\ z = y)
    <3> DEFINE c == t.child["right"][z]
    <3>1. u.child["right"][z] = c /\ c # Null /\ c \in L
      BY <1>1, <1>10, <1>15, <2>1, <2>3, SidesAre
    <3>2. at[z] <= lo[c] /\ hi[c] <= hi[z] /\ lo[c] \in Int /\ hi[c] \in Int
      BY <2>1, <3>1, SidesAre, Nested
    <3> HIDE DEF c
    <3> QED BY <1>9, <2>1, <3>1, <3>2
  <2> QED BY <2>2, <2>3
<1>16. Placed(u, L \cup {n}, lo2, at2, hi2)
  BY <1>9, <1>12, <1>13, <1>14, <1>15 DEF Placed
<1>17. Tree(u, L \cup {n}, lo2, at2, hi2)
  BY <1>5, <1>16 DEF Tree
<1> QED BY <1>17 DEF at2

\* remove() puts m, the successor of x, in the place of x.
Splice(t, x, m) ==
    LET near == t.parent[m] = x
        t1   == Replace(t, x, m)
        t2   == IF near THEN t1
                ELSE Link(Link(t1, t.parent[m], "left", t.child["right"][m]), m, "right", t.child["right"][x])
    IN  Link(t2, m, "left", t.child["left"][x])

Spliced(t, u, x, m) ==
    /\ IsTree(u) /\ u.color = t.color
    /\ u.mRoot = IF t.mRoot = x THEN m ELSE t.mRoot
    /\ \A z \in Nodes :
           u.parent[z] = IF z = m THEN t.parent[x]
                         ELSE IF z = t.child["left"][x] \/ z = t.child["right"][x] THEN m
                         ELSE IF z = t.child["right"][m] /\ t.parent[m] # x THEN t.parent[m]
                         ELSE t.parent[z]
    /\ \A z \in Nodes, s \in Sides :
           u.child[s][z] = IF z = m THEN IF s = "left" THEN t.child["left"][x]
                                         ELSE IF t.parent[m] = x THEN t.child["right"][m]
                                         ELSE t.child["right"][x]
                           ELSE IF z = t.parent[m] /\ z # x /\ s = "left" THEN t.child["right"][m]
                           ELSE IF z = t.parent[x] /\ t.child[s][z] = x THEN m
                           ELSE t.child[s][z]

\* m is in the right subtree of x, and has no left child.
Follows(t, L, lo, at, hi, x, m) ==
    /\ x \in L /\ m \in L /\ \A s \in Sides : t.child[s][x] # Null
    /\ t.child["left"][m] = Null
    /\ at[x] <= lo[m] /\ hi[m] <= hi[x]
    /\ t.parent[m] # x => /\ t.parent[m] \in L /\ t.child["left"][t.parent[m]] = m
                          /\ at[x] <= lo[t.parent[m]] /\ hi[t.parent[m]] <= hi[x]
    /\ t.parent[m] = x => t.child["right"][x] = m

LEMMA SuccessorAround ==
    ASSUME NEW t, NEW L, NEW lo, NEW at, NEW hi, Tree(t, L, lo, at, hi), Loose(t, L),
           NEW x \in L, \A s \in Sides : t.child[s][x] # Null
    PROVE  Follows(t, L, lo, at, hi, x, Minimum(t, t.child["right"][x]))
<1> DEFINE r == t.child["right"][x]
           m == Extreme(t, r, "left")
           q == t.parent[m]
<1>1. /\ r \in L /\ t.parent[r] = x /\ at[x] <= lo[r] /\ hi[r] <= hi[x] /\ x # Null /\ r # Null
      /\ lo[x] \in Int /\ at[x] \in Int /\ hi[x] \in Int /\ lo[r] \in Int /\ hi[r] \in Int
      /\ lo[x] < at[x] /\ at[x] < hi[x]
  BY SidesAre, Nested
<1> HIDE DEF r
<1>2. End(t, L, lo, hi, "left", r, m)
  BY <1>1, ExtremeIs, SidesAre
<1> HIDE DEF m
<1>3. m \in L /\ t.child["left"][m] = Null /\ lo[r] <= lo[m] /\ hi[m] <= hi[r]
      /\ lo[m] \in Int /\ hi[m] \in Int
  BY <1>2 DEF End, Tree, Shape, Placed, Pointers
<1>4. m = r => q = x
  BY <1>1
<1>5. m # r => /\ q \in L /\ t.child["left"][q] = m /\ lo[r] <= lo[q] /\ hi[q] <= hi[r]
               /\ lo[q] \in Int /\ hi[q] \in Int
  BY <1>2 DEF End, Tree, Shape, Placed, Pointers
<1> HIDE DEF q
<1>6. q = x => m = r
  <2>1. SUFFICES ASSUME m # r PROVE q # x
    OBVIOUS
  <2>2. at[x] <= lo[q] /\ lo[q] \in Int
    BY <1>1, <1>5, <2>1
  <2> QED BY <1>1, <2>2
<1>7. at[x] <= lo[m] /\ hi[m] <= hi[x]
  BY <1>1, <1>3
<1>8. q # x => at[x] <= lo[q] /\ hi[q] <= hi[x]
  BY <1>1, <1>4, <1>5
<1>9. Minimum(t, t.child["right"][x]) = m
  BY DEF Minimum, m, r
<1>10. Follows(t, L, lo, at, hi, x, m)
  BY <1>3, <1>4, <1>5, <1>6, <1>7, <1>8 DEF Follows, q, r
<1> QED BY <1>9, <1>10

LEMMA SpliceAround ==
    ASSUME NEW t, NEW L, NEW lo, NEW at, NEW hi, Tree(t, L, lo, at, hi),
           NEW x, NEW m, Follows(t, L, lo, at, hi, x, m)
    PROVE  LET p == t.parent[x]
               q == t.parent[m]
               l == t.child["left"][x]
               r == t.child["right"][x]
               c == t.child["right"][m]
           IN  /\ x \in L /\ m \in L /\ l \in L /\ r \in L /\ x # m /\ p # x /\ p # m
               /\ l # m /\ l # r /\ l # x /\ r # x /\ l # c /\ r # c /\ c # m /\ c # x
               /\ t.parent[l] = x /\ t.parent[r] = x
               /\ c # Null => c \in L /\ t.parent[c] = m
               /\ p # Null => p \in L
               /\ (p = Null) <=> (t.mRoot = x)
               /\ t.mRoot # m
               /\ q # x => q \in L /\ q # m /\ q # p /\ r # m /\ c # q
               /\ q = x => r = m
               /\ q # Null
<1> DEFINE p == t.parent[x]
           q == t.parent[m]
           l == t.child["left"][x]
           r == t.child["right"][x]
           c == t.child["right"][m]
<1>1. /\ x \in L /\ m \in L /\ l # Null /\ r # Null
      /\ at[x] <= lo[m] /\ hi[m] <= hi[x] /\ t.child["left"][m] = Null
  BY SidesAre DEF Follows
<1>2. /\ q # x => q \in L /\ t.child["left"][q] = m /\ at[x] <= lo[q] /\ hi[q] <= hi[x]
      /\ q = x => r = m
  BY DEF Follows
<1>3. \A z \in L : /\ z \in Nodes /\ z # Null /\ lo[z] \in Int /\ at[z] \in Int /\ hi[z] \in Int
                   /\ lo[z] < at[z] /\ at[z] < hi[z]
  BY DEF Tree, Shape, Placed, Pointers
<1>4. /\ l \in L /\ t.parent[l] = x /\ lo[x] <= lo[l] /\ hi[l] <= at[x]
      /\ r \in L /\ t.parent[r] = x /\ at[x] <= lo[r] /\ hi[r] <= hi[x]
  BY <1>1, SidesAre, Nested
<1>5. c # Null => c \in L /\ t.parent[c] = m /\ at[m] <= lo[c] /\ hi[c] <= hi[m]
  BY <1>1, SidesAre, Nested
<1>6. /\ (p = Null) <=> (t.mRoot = x)
      /\ p # Null => p \in L /\ p # x /\ \E s \in Sides : t.child[s][p] = x
      /\ (q = Null) <=> (t.mRoot = m)
      /\ q # Null => q \in L /\ q # m
  BY <1>1, ParentOf
<1>7. p # Null => hi[x] - lo[x] < hi[p] - lo[p]
  <2>1. ASSUME p # Null PROVE hi[x] - lo[x] < hi[p] - lo[p]
    <3>1. PICK s \in Sides : t.child[s][p] = x
      BY <1>6, <2>1
    <3>2. p \in L /\ x # Null
      BY <1>1, <1>3, <1>6, <2>1
    <3> HIDE DEF p
    <3> QED BY <3>1, <3>2, Nested
  <2> QED BY <2>1
<1> HIDE DEF p, q, l, r, c
<1>8. x # m
  BY <1>1, <1>3
<1>9. q # Null
  BY <1>1, <1>2, <1>3
<1>10. p # x /\ p # m
  <2>1. p = Null => p # x /\ p # m
    BY <1>1, <1>3
  <2>2. p # Null => p # m
    <3>1. SUFFICES ASSUME p = m PROVE FALSE
      OBVIOUS
    <3>2. hi[x] - lo[x] < hi[m] - lo[m] /\ lo[m] \in Int /\ hi[m] \in Int /\ lo[x] \in Int
          /\ hi[x] \in Int /\ at[x] \in Int /\ lo[x] < at[x]
      BY <1>1, <1>3, <1>7, <3>1
    <3> QED BY <1>1, <3>2
  <2> QED BY <1>6, <2>1, <2>2
<1>11. l # m /\ l # r /\ l # x /\ r # x
  BY <1>1, <1>3, <1>4
<1>12. l # c /\ r # c /\ c # m /\ c # x
  <2>1. c = Null => c # l /\ c # r /\ c # m /\ c # x
    BY <1>1, <1>3
  <2>2. c # Null => c # l /\ c # r
    BY <1>4, <1>5, <1>8
  <2>3. c # Null => c # m
    BY <1>1, <1>3, <1>5
  <2>4. c # Null => c # x
    BY <1>1, <1>3, <1>5
  <2> QED BY <2>1, <2>2, <2>3, <2>4
<1>13. q # x => q \in L /\ q # m /\ q # p /\ r # m /\ c # q
  <2>1. SUFFICES ASSUME q # x PROVE q \in L /\ q # m /\ q # p /\ r # m /\ c # q
    OBVIOUS
  <2>2. q \in L /\ q # m
    BY <1>6, <1>9
  <2>3. q # p
    <3>1. SUFFICES ASSUME p = q PROVE FALSE
      OBVIOUS
    <3>2. /\ hi[x] - lo[x] < hi[q] - lo[q] /\ lo[q] \in Int /\ hi[q] \in Int /\ lo[x] \in Int
          /\ hi[x] \in Int /\ at[x] \in Int /\ lo[x] < at[x] /\ at[x] <= lo[q] /\ hi[q] <= hi[x]
      BY <1>1, <1>2, <1>3, <1>7, <1>9, <2>1, <2>2, <3>1
    <3> QED BY <3>2
  <2>4. r # m
    BY <1>4, <2>1 DEF q
  <2>5. c # q
    <3>1. SUFFICES ASSUME c = q PROVE FALSE
      OBVIOUS
    <3>2. t.child["left"][c] = m /\ c \in L /\ c # Null
      BY <1>2, <1>9, <2>1, <2>2, <3>1
    <3>3. lo[c] <= lo[m] /\ at[m] <= lo[c]
      BY <1>1, <1>3, <1>5, <3>2, SidesAre, Nested
    <3> QED BY <1>1, <1>3, <3>2, <3>3
  <2> QED BY <2>2, <2>3, <2>4, <2>5
<1>14. t.mRoot # m
  BY <1>6, <1>9
<1> QED BY <1>1, <1>2, <1>4, <1>5, <1>6, <1>8, <1>9, <1>10, <1>11, <1>12, <1>13, <1>14 DEF p, q, l, r, c

LEMMA SpliceEffect ==
    ASSUME NEW t, NEW L, NEW lo, NEW at, NEW hi, Tree(t, L, lo, at, hi),
           NEW x, NEW m, Follows(t, L, lo, at, hi, x, m)
    PROVE  Spliced(t, Splice(t, x, m), x, m)
<1> DEFINE p == t.parent[x]
           q == t.parent[m]
           l == t.child["left"][x]
           r == t.child["right"][x]
           c == t.child["right"][m]
           t1 == Replace(t, x, m)
           v  == Link(t1, q, "left", c)
           w  == Link(v, m, "right", r)
           t2 == IF q = x THEN t1 ELSE w
           u  == Link(t2, m, "left", l)
<1>1. /\ x \in L /\ m \in L /\ l \in L /\ r \in L /\ x # m /\ p # x /\ p # m
      /\ l # m /\ l # r /\ l # x /\ r # x /\ l # c /\ r # c /\ c # m /\ c # x
      /\ (p = Null) <=> (t.mRoot = x)
      /\ t.mRoot # m
      /\ q # x => q \in L /\ q # m /\ q # p /\ r # m /\ c # q
      /\ q = x => r = m
      /\ q # Null
  BY SpliceAround
<1>2. IsTree(t) /\ L \subseteq Nodes /\ Null \notin Nodes /\ HasPlace(t, x)
  BY <1>1, HasPlaceIn DEF Tree, Shape
<1>3. /\ p \in Pointers /\ c \in Pointers /\ l \in Pointers /\ r \in Pointers /\ m \in Pointers
      /\ x \in Nodes /\ m \in Nodes
      /\ q # x => q \in Pointers /\ q \in Nodes
  BY <1>1, <1>2, SidesAre DEF IsTree, Pointers
<1>4. u = Splice(t, x, m)
  BY DEF Splice
<1> HIDE DEF t1
<1>5. Replaced(t, t1, x, m)
  BY <1>2, <1>3, ReplaceEffect DEF t1
<1>6. IsTree(t1)
  BY <1>5 DEF Replaced
<1> HIDE DEF v
<1>7. q # x => Attached(t1, v, q, "left", c)
  BY <1>3, <1>6, SidesAre, LinkEffect DEF v
<1>8. q # x => IsTree(v)
  BY <1>7 DEF Attached
<1> HIDE DEF w
<1>9. q # x => Attached(v, w, m, "right", r)
  BY <1>3, <1>8, SidesAre, LinkEffect DEF w
<1>10. IsTree(t2)
  BY <1>6, <1>9 DEF Attached
<1> HIDE DEF u
<1>11. Attached(t2, u, m, "left", l)
  <2> HIDE DEF t2
  <2> QED BY <1>3, <1>10, SidesAre, LinkEffect DEF u
<1>12. \A z \in Nodes : t1.parent[z] = IF z = m THEN p ELSE t.parent[z]
  BY <1>5 DEF Replaced
<1>13. \A z \in Nodes, s \in Sides :
           t1.child[s][z] = IF z = p /\ t.child[s][z] = x THEN m ELSE t.child[s][z]
  BY <1>5 DEF Replaced
<1>14. t1.color = t.color /\ t1.mRoot = IF t.mRoot = x THEN m ELSE t.mRoot
  BY <1>5 DEF Replaced
<1>15. u.color = t.color /\ u.mRoot = IF t.mRoot = x THEN m ELSE t.mRoot
  <2>1. m # Null
    BY <1>2, <1>3
  <2>2. q # x => w.color = t.color /\ w.mRoot = t1.mRoot
    BY <1>1, <1>7, <1>9, <1>14, <2>1 DEF Attached
  <2> QED BY <1>11, <1>14, <2>1, <2>2 DEF Attached
<1>16. \A z \in Nodes :
           u.parent[z] = IF z = m THEN p
                         ELSE IF z = l \/ z = r THEN m
                         ELSE IF z = c /\ q # x THEN q
                         ELSE t.parent[z]
  <2>1. \A z \in Nodes : u.parent[z] = IF z = l THEN m ELSE t2.parent[z]
    BY <1>11 DEF Attached
  <2>2. CASE q = x
    BY <1>1, <1>12, <2>1, <2>2
  <2>3. CASE q # x
    <3>1. \A z \in Nodes : w.parent[z] = IF z = r THEN m ELSE v.parent[z]
      BY <1>9, <2>3 DEF Attached
    <3>2. \A z \in Nodes : v.parent[z] = IF z = c THEN q ELSE t1.parent[z]
      BY <1>7, <2>3 DEF Attached
    <3> HIDE DEF p, q, l, r, c
    <3> QED BY <1>1, <1>12, <2>1, <2>3, <3>1, <3>2
  <2> QED BY <2>2, <2>3
<1>17. \A z \in Nodes, s \in Sides :
           u.child[s][z] = IF z = m THEN IF s = "left" THEN l ELSE IF q = x THEN c ELSE r
                           ELSE IF z = q /\ z # x /\ s = "left" THEN c
                           ELSE IF z = p /\ t.child[s][z] = x THEN m
                           ELSE t.child[s][z]
  <2>1. \A z \in Nodes, s \in Sides : u.child[s][z] = IF s = "left" /\ z = m THEN l ELSE t2.child[s][z]
    BY <1>11 DEF Attached
  <2>2. CASE q = x
    <3>1. t2 = t1
      BY <2>2
    <3>2. t.child["right"][m] = c
      OBVIOUS
    <3> HIDE DEF p, q, l, r, c, t2
    <3> QED BY <1>1, <1>13, <2>1, <2>2, <3>1, <3>2, SidesAre
  <2>3. CASE q # x
    <3>1. \A z \in Nodes, s \in Sides : w.child[s][z] = IF s = "right" /\ z = m THEN r ELSE v.child[s][z]
      BY <1>9, <2>3 DEF Attached
    <3>2. \A z \in Nodes, s \in Sides : v.child[s][z] = IF s = "left" /\ z = q THEN c ELSE t1.child[s][z]
      BY <1>7, <2>3 DEF Attached
    <3>3. t2 = w
      BY <2>3
    <3> HIDE DEF p, q, l, r, c, t2
    <3> QED BY <1>1, <1>13, <2>1, <2>3, <3>1, <3>2, <3>3, SidesAre
  <2> QED BY <2>2, <2>3
<1>18. Spliced(t, u, x, m)
  BY <1>11, <1>15, <1>16, <1>17 DEF Spliced, Attached
<1> QED BY <1>4, <1>18, Zenon

Moved(bound, x, m) == [bound EXCEPT ![m] = bound[x]]

LEMMA SpliceTree ==
    ASSUME NEW t, NEW L, NEW lo, NEW at, NEW hi, Tree(t, L, lo, at, hi),
           NEW x, NEW m, Follows(t, L, lo, at, hi, x, m), NEW u, Spliced(t, u, x, m)
    PROVE  Tree(u, L \ {x}, Moved(lo, x, m), Moved(at, x, m), Moved(hi, x, m))
<1> DEFINE p == t.parent[x]
           q == t.parent[m]
           l == t.child["left"][x]
           r == t.child["right"][x]
           c == t.child["right"][m]
           M == L \ {x}
           lo2 == Moved(lo, x, m)
           at2 == Moved(at, x, m)
           hi2 == Moved(hi, x, m)
<1>1. /\ x \in L /\ m \in L /\ l \in L /\ r \in L /\ x # m /\ p # x /\ p # m
      /\ l # m /\ l # r /\ l # x /\ r # x /\ l # c /\ r # c /\ c # m /\ c # x
      /\ t.parent[l] = x /\ t.parent[r] = x
      /\ c # Null => c \in L /\ t.parent[c] = m
      /\ p # Null => p \in L
      /\ (p = Null) <=> (t.mRoot = x)
      /\ t.mRoot # m
      /\ q # x => q \in L /\ q # m /\ q # p /\ r # m /\ c # q
      /\ q = x => r = m
      /\ q # Null
  BY SpliceAround
<1>2. /\ IsTree(t) /\ L \subseteq Nodes /\ Null \notin Nodes /\ t.mRoot \in L \cup {Null}
      /\ \A z \in L, s \in Sides :
             t.child[s][z] # Null => t.child[s][z] \in L /\ t.parent[t.child[s][z]] = z
      /\ \A z \in L \ {t.mRoot} : t.parent[z] \in L /\ \E s \in Sides : t.child[s][t.parent[z]] = z
      /\ t.mRoot # Null => t.parent[t.mRoot] = Null
  BY DEF Tree, Shape
<1>3. /\ IsTree(u) /\ u.mRoot = IF t.mRoot = x THEN m ELSE t.mRoot
      /\ \A z \in Nodes :
           u.parent[z] = IF z = m THEN p
                         ELSE IF z = l \/ z = r THEN m
                         ELSE IF z = c /\ q # x THEN q
                         ELSE t.parent[z]
      /\ \A z \in Nodes, s \in Sides :
           u.child[s][z] = IF z = m THEN IF s = "left" THEN l ELSE IF q = x THEN c ELSE r
                           ELSE IF z = q /\ z # x /\ s = "left" THEN c
                           ELSE IF z = p /\ t.child[s][z] = x THEN m
                           ELSE t.child[s][z]
  BY DEF Spliced
<1>4. /\ t.child["left"][m] = Null /\ (q # x => t.child["left"][q] = m)
      /\ at[x] <= lo[m] /\ hi[m] <= hi[x]
  BY DEF Follows
<1>5. /\ \A z \in L : /\ z \in Nodes /\ z # Null /\ lo[z] \in Int /\ at[z] \in Int /\ hi[z] \in Int
                      /\ lo[z] < at[z] /\ at[z] < hi[z] /\ lo[Null] <= lo[z] /\ hi[z] <= hi[Null]
      /\ lo \in [Pointers -> Int] /\ at \in [Pointers -> Int] /\ hi \in [Pointers -> Int]
      /\ \A z \in L : z \in Pointers /\ Null \in Pointers
  BY DEF Tree, Shape, Placed, Pointers
<1>6. /\ t.child["left"][x] = l /\ t.child["right"][x] = r /\ t.child["right"][m] = c
      /\ t.parent[m] = q /\ t.parent[x] = p
  OBVIOUS
<1>7. q # x => t.child["right"][q] # m
  BY <1>1, <1>4, <1>5, SidesAre, ChildrenDiffer
<1>8. /\ lo[x] <= lo[l] /\ hi[l] <= at[x]
      /\ at[x] <= lo[r] /\ hi[r] <= hi[x]
      /\ c # Null => at[m] <= lo[c] /\ hi[c] <= hi[m]
      /\ q # x => lo[q] <= lo[m] /\ hi[m] <= at[q]
  BY <1>1, <1>4, <1>5, SidesAre, Nested
<1>9. /\ lo2 \in [Pointers -> Int] /\ at2 \in [Pointers -> Int] /\ hi2 \in [Pointers -> Int]
      /\ lo2[m] = lo[x] /\ at2[m] = at[x] /\ hi2[m] = hi[x]
      /\ \A z \in Pointers : z # m => lo2[z] = lo[z] /\ at2[z] = at[z] /\ hi2[z] = hi[z]
  BY <1>1, <1>5 DEF Moved
<1> HIDE DEF p, q, l, r, c, lo2, at2, hi2
\* Whatever else a node's child is, it is none of the nodes around.
<1>10. ASSUME NEW z \in M, NEW s \in Sides, z # m, ~(z = q /\ s = "left"),
              ~(z = p /\ t.child[s][z] = x), t.child[s][z] # Null
       PROVE  LET d == t.child[s][z] IN
              d \in L /\ d # x /\ d # m /\ d # l /\ d # r /\ d # c /\ t.parent[d] = z
  <2> DEFINE d == t.child[s][z]
  <2>1. d \in L /\ t.parent[d] = z
    BY <1>2, <1>10
  <2>2. t.child[s][z] = d
    OBVIOUS
  <2> HIDE DEF d
  <2>3. d # x
    BY <1>6, <1>10, <2>1, <2>2
  <2>4. d # m
    BY <1>6, <1>7, <1>10, <2>1, <2>2, SidesAre
  <2>5. d # l /\ d # r
    BY <1>1, <2>1
  <2>6. d # c
    BY <1>1, <1>5, <1>10, <2>1
  <2> QED BY <2>1, <2>3, <2>4, <2>5, <2>6 DEF d
<1>11. u.mRoot \in M \cup {Null} /\ (u.mRoot # Null => u.parent[u.mRoot] = Null)
  <2>1. CASE t.mRoot = x
    BY <1>1, <1>3, <1>5, <2>1
  <2>2. CASE t.mRoot # x
    <3>1. u.mRoot = t.mRoot /\ u.mRoot \in M \cup {Null}
      BY <1>2, <1>3, <2>2
    <3>2. ASSUME t.mRoot # Null PROVE u.parent[t.mRoot] = Null
      <4>1. t.mRoot \in Nodes /\ t.parent[t.mRoot] = Null
        BY <1>2, <3>2
      <4>2. t.mRoot # m /\ t.mRoot # l /\ t.mRoot # r /\ t.mRoot # c
        BY <1>1, <1>5, <3>2, <4>1
      <4> QED BY <1>3, <4>1, <4>2
    <3> QED BY <3>1, <3>2
  <2> QED BY <2>1, <2>2
<1>12. ASSUME NEW z \in M, NEW s \in Sides, u.child[s][z] # Null
       PROVE  u.child[s][z] \in M /\ u.parent[u.child[s][z]] = z
  <2>1. CASE z = m
    <3>1. u.child[s][z] \in {l, r, c} /\ (u.child[s][z] = r => q # x) /\ (u.child[s][z] = c => q = x)
      BY <1>1, <1>3, <1>5, <2>1
    <3>2. u.parent[l] = m /\ (q # x => u.parent[r] = m) /\ (q = x /\ c # Null => u.parent[c] = m)
      BY <1>1, <1>3, <1>5
    <3> QED BY <1>1, <1>12, <2>1, <3>1, <3>2
  <2>2. CASE z # m /\ z = q /\ s = "left"
    BY <1>1, <1>3, <1>5, <1>12, <2>2
  <2>3. CASE z # m /\ ~(z = q /\ s = "left") /\ z = p /\ t.child[s][z] = x
    BY <1>1, <1>3, <1>5, <1>12, <2>3
  <2>4. CASE z # m /\ ~(z = q /\ s = "left") /\ ~(z = p /\ t.child[s][z] = x)
    <3>1. u.child[s][z] = t.child[s][z]
      BY <1>3, <1>5, <2>4
    <3> QED BY <1>3, <1>5, <1>10, <1>12, <2>4, <3>1
  <2> QED BY <2>1, <2>2, <2>3, <2>4
<1>13. ASSUME NEW z \in M \ {u.mRoot}
       PROVE  u.parent[z] \in M /\ \E s \in Sides : u.child[s][u.parent[z]] = z
  <2>1. CASE z = m
    <3>1. p \in L /\ p # x /\ p # Null /\ u.parent[z] = p /\ x # t.mRoot
      BY <1>1, <1>3, <1>5, <1>13, <2>1
    <3>2. PICK s \in Sides : t.child[s][p] = x
      BY <1>1, <1>2, <1>6, <3>1
    <3>3. u.child[s][p] = m
      BY <1>1, <1>3, <1>5, <3>1, <3>2
    <3> QED BY <2>1, <3>1, <3>3
  <2>2. CASE z = l
    BY <1>1, <1>3, <1>5, <2>2, SidesAre
  <2>3. CASE z = r /\ z # m
    BY <1>1, <1>3, <1>5, <2>3, SidesAre
  <2>4. CASE z = c
    BY <1>1, <1>3, <1>5, <2>4, SidesAre
  <2>5. CASE z # m /\ z # l /\ z # r /\ z # c
    <3>1. z # t.mRoot /\ u.parent[z] = t.parent[z]
      BY <1>3, <1>5, <1>13, <2>5
    <3> DEFINE w == t.parent[z]
    <3>2. w \in L
      BY <1>2, <3>1
    <3>3. PICK s \in Sides : t.child[s][w] = z
      BY <1>2, <3>1
    <3> HIDE DEF w
    <3>4. w # x /\ w # m
      BY <1>4, <1>5, <1>6, <2>5, <3>3, SidesAre
    <3>5. ~(w = q /\ w # x /\ s = "left")
      BY <1>4, <2>5, <3>3
    <3>6. u.child[s][w] = z
      BY <1>3, <1>5, <3>2, <3>3, <3>4, <3>5
    <3> QED BY <3>1, <3>2, <3>4, <3>6 DEF w
  <2> QED BY <2>1, <2>2, <2>3, <2>4, <2>5
<1>14. Shape(u, M)
  BY <1>2, <1>3, <1>11, <1>12, <1>13 DEF Shape
<1>15. \A z \in M : /\ lo2[z] < at2[z] /\ at2[z] < hi2[z]
                    /\ lo2[Null] <= lo2[z] /\ hi2[z] <= hi2[Null]
  <2>1. m # Null
    BY <1>1, <1>5
  <2>2. lo2[m] < at2[m] /\ at2[m] < hi2[m] /\ lo2[Null] <= lo2[m] /\ hi2[m] <= hi2[Null]
    BY <1>1, <1>5, <1>9, <2>1
  <2>3. ASSUME NEW z \in M, z # m PROVE lo2[z] < at2[z] /\ at2[z] < hi2[z] /\ lo2[Null] <= lo2[z] /\ hi2[z] <= hi2[Null]
    BY <1>1, <1>5, <1>9, <2>1, <2>3
  <2> QED BY <2>2, <2>3
<1>16. ASSUME NEW z \in M, u.child["left"][z] # Null
       PROVE  lo2[z] <= lo2[u.child["left"][z]] /\ hi2[u.child["left"][z]] <= at2[z]
  <2>1. CASE z = m
    <3>1. u.child["left"][z] = l
      BY <1>1, <1>3, <1>5, <2>1, SidesAre
    <3>2. lo2[l] = lo[l] /\ hi2[l] = hi[l]
      BY <1>1, <1>5, <1>9
    <3> QED BY <1>8, <1>9, <2>1, <3>1, <3>2
  <2>2. CASE z # m /\ z = q
    <3>1. u.child["left"][z] = c
      BY <1>3, <1>5, <2>2, SidesAre
    <3>2. c \in L /\ c # m /\ c # Null /\ z # x
      BY <1>1, <1>16, <3>1
    <3>3. lo2[c] = lo[c] /\ hi2[c] = hi[c] /\ lo2[z] = lo[z] /\ at2[z] = at[z]
      BY <1>5, <1>9, <2>2, <3>2
    <3>4. lo[q] <= lo[m] /\ hi[m] <= at[q] /\ at[m] <= lo[c] /\ hi[c] <= hi[m] /\ lo[m] < at[m]
          /\ lo[q] \in Int /\ lo[m] \in Int /\ at[m] \in Int /\ lo[c] \in Int /\ hi[c] \in Int
          /\ hi[m] \in Int /\ at[q] \in Int
      BY <1>1, <1>5, <1>8, <2>2, <3>2
    <3> QED BY <2>2, <3>1, <3>3, <3>4
  <2>3. CASE z # m /\ z # q /\ z = p /\ t.child["left"][z] = x
    <3>1. u.child["left"][z] = m
      BY <1>3, <1>5, <2>3, SidesAre
    <3>2. lo[z] <= lo[x] /\ hi[x] <= at[z]
      BY <1>1, <1>5, <2>3, SidesAre, Nested
    <3>3. lo2[z] = lo[z] /\ at2[z] = at[z]
      BY <1>5, <1>9, <2>3
    <3> QED BY <1>9, <3>1, <3>2, <3>3
  <2>4. CASE z # m /\ z # q /\ ~(z = p /\ t.child["left"][z] = x)
    <3> DEFINE d == t.child["left"][z]
    <3>1. u.child["left"][z] = d /\ d # Null
      BY <1>3, <1>5, <1>16, <2>4, SidesAre
    <3>2. d \in L /\ d # m
      BY <1>10, <2>4, <3>1, SidesAre
    <3>3. lo[z] <= lo[d] /\ hi[d] <= at[z]
      BY <3>1, SidesAre, Nested
    <3> HIDE DEF d
    <3>4. lo2[z] = lo[z] /\ at2[z] = at[z] /\ lo2[d] = lo[d] /\ hi2[d] = hi[d]
      BY <1>5, <1>9, <2>4, <3>2
    <3> QED BY <3>1, <3>3, <3>4
  <2> QED BY <2>1, <2>2, <2>3, <2>4
<1>17. ASSUME NEW z \in M, u.child["right"][z] # Null
       PROVE  at2[z] <= lo2[u.child["right"][z]] /\ hi2[u.child["right"][z]] <= hi2[z]
  <2>1. CASE z = m /\ q = x
    <3>1. u.child["right"][z] = c
      BY <1>1, <1>3, <1>5, <2>1, SidesAre
    <3>2. c # Null /\ c \in L /\ lo2[c] = lo[c] /\ hi2[c] = hi[c]
      BY <1>1, <1>5, <1>9, <1>17, <3>1
    <3>3. at[x] <= lo[m] /\ lo[m] < at[m] /\ at[m] <= lo[c] /\ hi[c] <= hi[m] /\ hi[m] <= hi[x]
          /\ at[x] \in Int /\ lo[m] \in Int /\ at[m] \in Int /\ lo[c] \in Int
          /\ hi[c] \in Int /\ hi[m] \in Int /\ hi[x] \in Int
      BY <1>1, <1>4, <1>5, <1>8, <3>2
    <3> QED BY <1>9, <2>1, <3>1, <3>2, <3>3
  <2>2. CASE z = m /\ q # x
    <3>1. u.child["right"][z] = r
      BY <1>1, <1>3, <1>5, <2>2, SidesAre
    <3>2. lo2[r] = lo[r] /\ hi2[r] = hi[r]
      BY <1>1, <1>5, <1>9, <2>2
    <3> QED BY <1>8, <1>9, <2>2, <3>1, <3>2
  <2>3. CASE z # m /\ z = p /\ t.child["right"][z] = x
    <3>1. u.child["right"][z] = m
      BY <1>3, <1>5, <2>3, SidesAre
    <3>2. at[z] <= lo[x] /\ hi[x] <= hi[z]
      BY <1>1, <1>5, <2>3, SidesAre, Nested
    <3>3. at2[z] = at[z] /\ hi2[z] = hi[z]
      BY <1>5, <1>9, <2>3
    <3> QED BY <1>9, <3>1, <3>2, <3>3
  <2>4. CASE z # m /\ ~(z = p /\ t.child["right"][z] = x)
    <3> DEFINE d == t.child["right"][z]
    <3>1. u.child["right"][z] = d /\ d # Null
      BY <1>3, <1>5, <1>17, <2>4, SidesAre
    <3>2. d \in L /\ d # m
      BY <1>10, <2>4, <3>1, SidesAre
    <3>3. at[z] <= lo[d] /\ hi[d] <= hi[z]
      BY <3>1, SidesAre, Nested
    <3> HIDE DEF d
    <3>4. at2[z] = at[z] /\ hi2[z] = hi[z] /\ lo2[d] = lo[d] /\ hi2[d] = hi[d]
      BY <1>5, <1>9, <2>4, <3>2
    <3> QED BY <3>1, <3>3, <3>4
  <2> QED BY <2>1, <2>2, <2>3, <2>4
<1>18. Placed(u, M, lo2, at2, hi2)
  BY <1>9, <1>15, <1>16, <1>17 DEF Placed
<1> QED BY <1>14, <1>18 DEF Tree, lo2, at2, hi2

-----------------------------------------------------------------------------
(* What is between two places.                                             *)

LEMMA WalkBounds ==
    ASSUME NEW t, NEW L, NEW lo, NEW at, NEW hi, Tree(t, L, lo, at, hi),
           NEW W, Walks(t, L, lo, at, hi, W), NEW x \in L
    PROVE  /\ x \in Nodes /\ lo[x] \in Int /\ at[x] \in Int /\ hi[x] \in Int
           /\ lo[x] < at[x] /\ at[x] < hi[x]
           /\ In(x, W[x])
           /\ \A y : In(y, W[x]) => /\ y \in L /\ y \in Nodes /\ lo[y] \in Int /\ at[y] \in Int /\ hi[y] \in Int
                                    /\ lo[x] < at[y] /\ at[y] < hi[x] /\ lo[y] < at[y] /\ at[y] < hi[y]
                                    /\ y = x \/ \E s \in Sides : In(y, W[t.child[s][x]])
           /\ \A s \in Sides : \A y : In(y, W[t.child[s][x]]) =>
                  /\ t.child[s][x] # Null /\ t.child[s][x] \in L /\ In(y, W[x])
                  /\ s = "left" => lo[x] < at[y] /\ at[y] < at[x]
                  /\ s = "right" => at[x] < at[y] /\ at[y] < hi[x]
<1>1. \A y \in L : /\ y \in Nodes /\ lo[y] \in Int /\ at[y] \in Int /\ hi[y] \in Int
                   /\ lo[y] < at[y] /\ at[y] < hi[y]
  BY DEF Tree, Shape, Placed, Pointers
<1>2. In(x, W[x])
  BY DEF Walks
<1>3. \A y : In(y, W[x]) => /\ y \in L /\ lo[x] < at[y] /\ at[y] < hi[x]
                            /\ y = x \/ \E s \in Sides : In(y, W[t.child[s][x]])
  <2>1. Run(W[x], L, at, lo[x], hi[x])
    BY DEF Walks
  <2>2. ASSUME NEW y, In(y, W[x]) PROVE y \in L /\ lo[x] < at[y] /\ at[y] < hi[x]
    BY <2>1, <2>2 DEF In, Run
  <2>3. ASSUME NEW y, In(y, W[x]) PROVE y = x \/ \E s \in Sides : In(y, W[t.child[s][x]])
    BY <2>3, SidesAre DEF Walks
  <2> QED BY <2>2, <2>3
<1>4. ASSUME NEW s \in Sides, NEW y, In(y, W[t.child[s][x]])
      PROVE  /\ t.child[s][x] # Null /\ t.child[s][x] \in L /\ In(y, W[x])
             /\ s = "left" => lo[x] < at[y] /\ at[y] < at[x]
             /\ s = "right" => at[x] < at[y] /\ at[y] < hi[x]
  <2>1. t.child[s][x] # Null
    BY <1>4, NothingIn DEF Walks
  <2>2. t.child[s][x] \in L
    BY <2>1 DEF Tree, Shape
  <2>3. In(y, W[x])
    BY <1>4, SidesAre DEF Walks
  <2>4. ASSUME s = "left" PROVE lo[x] < at[y] /\ at[y] < at[x]
    <3>1. Run(W[t.child[s][x]], L, at, lo[x], at[x])
      BY <2>4 DEF Walks
    <3> QED BY <1>4, <3>1 DEF In, Run
  <2>5. ASSUME s = "right" PROVE at[x] < at[y] /\ at[y] < hi[x]
    <3>1. Run(W[t.child[s][x]], L, at, at[x], hi[x])
      BY <2>5 DEF Walks
    <3> QED BY <1>4, <3>1 DEF In, Run
  <2> QED BY <2>1, <2>2, <2>3, <2>4, <2>5
<1> QED BY <1>1, <1>2, <1>3, <1>4

\* A node above another has the wider bounds.
LEMMA WalkNests ==
    ASSUME NEW t, NEW L, NEW lo, NEW at, NEW hi, Tree(t, L, lo, at, hi),
           NEW W, Walks(t, L, lo, at, hi, W)
    PROVE  \A x \in L : \A y : In(y, W[x]) => /\ lo[x] <= lo[y] /\ hi[y] <= hi[x]
                                              /\ y # x => hi[y] <= at[x] \/ at[x] <= lo[y]
<1> DEFINE Good(x) == \A y : In(y, W[x]) => /\ lo[x] <= lo[y] /\ hi[y] <= hi[x]
                                            /\ y # x => hi[y] <= at[x] \/ at[x] <= lo[y]
           Bad == {x \in L : ~Good(x)}
<1>1. Bad = {}
  <2>1. SUFFICES ASSUME Bad # {} PROVE FALSE
    OBVIOUS
  <2>2. PICK x \in Bad : \A s \in Sides :
               t.child[s][x] # Null => t.child[s][x] \in L /\ t.child[s][x] \notin Bad
    <3>1. Bad \subseteq L
      OBVIOUS
    <3> HIDE DEF Bad
    <3> QED BY <2>1, <3>1, LowestBad
  <2>3. x \in L /\ ~Good(x)
    OBVIOUS
  <2>4. ASSUME NEW y, In(y, W[x])
        PROVE  lo[x] <= lo[y] /\ hi[y] <= hi[x] /\ (y # x => hi[y] <= at[x] \/ at[x] <= lo[y])
    <3>1. CASE y = x
      BY <2>3, <3>1, WalkBounds
    <3>2. CASE y # x
      <4> HIDE DEF Good, Bad
      <4>1. PICK s \in Sides : In(y, W[t.child[s][x]])
        BY <2>3, <2>4, <3>2, SidesAre DEF Walks
      <4> DEFINE c == t.child[s][x]
      <4>2. c # Null /\ c \in L /\ In(y, W[c])
        <5>1. In(y, W[c])
          BY <4>1
        <5>2. c # Null
          BY <5>1, NothingIn DEF Walks
        <5>3. c \in L
          BY <2>3, <5>2, Nested
        <5> QED BY <5>1, <5>2, <5>3
      <4>3. Good(c)
        BY <2>2, <4>2 DEF Bad
      <4>4. lo[c] <= lo[y] /\ hi[y] <= hi[c]
        BY <4>2, <4>3 DEF Good
      <4>5. /\ lo[x] \in Int /\ lo[c] \in Int /\ hi[x] \in Int /\ hi[c] \in Int /\ at[x] \in Int
            /\ lo[x] < at[x] /\ at[x] < hi[x]
            /\ s = "left" => lo[x] <= lo[c] /\ hi[c] <= at[x]
            /\ s = "right" => at[x] <= lo[c] /\ hi[c] <= hi[x]
        BY <2>3, <4>2, Nested
      <4>6. lo[y] \in Int /\ hi[y] \in Int
        BY <2>3, <2>4, WalkBounds
      <4> HIDE DEF c
      <4> QED BY <4>4, <4>5, <4>6, SidesAre
    <3> QED BY <3>1, <3>2
  <2> QED BY <2>3, <2>4
<1> QED BY <1>1

\* Of two nodes one is below the other, or they are apart.
LEMMA Laminar ==
    ASSUME NEW t, NEW L, NEW lo, NEW at, NEW hi, Tree(t, L, lo, at, hi), Loose(t, L),
           NEW W, Walks(t, L, lo, at, hi, W), InOrder(t) = W[t.mRoot], NEW x \in L
    PROVE  \A z \in L : In(z, W[x]) \/ In(x, W[z]) \/ hi[x] <= lo[z] \/ hi[z] <= lo[x]
<1> DEFINE Good(z) == In(z, W[x]) \/ In(x, W[z]) \/ hi[x] <= lo[z] \/ hi[z] <= lo[x]
           Bad == {z \in L : ~Good(z)}
<1>1. Bad = {}
  <2>1. SUFFICES ASSUME Bad # {} PROVE FALSE
    OBVIOUS
  <2>2. PICK z \in Bad : z = t.mRoot \/ /\ t.parent[z] \in L /\ t.parent[z] \notin Bad
                                        /\ \E s \in Sides : t.child[s][t.parent[z]] = z
    <3>1. Bad \subseteq L
      OBVIOUS
    <3> HIDE DEF Bad
    <3> QED BY <2>1, <3>1, HighestBad
  <2>3. z \in L /\ ~Good(z)
    OBVIOUS
  <2>4. CASE z = t.mRoot
    <3>1. In(x, InOrder(t))
      BY InOrderIs
    <3> QED BY <2>3, <2>4, <3>1
  <2>5. CASE z # t.mRoot
    <3> DEFINE p == t.parent[z]
    <3>1. p \in L /\ Good(p)
      BY <2>2, <2>5
    <3>2. PICK s \in Sides : t.child[s][p] = z
      BY <2>2, <2>5
    <3>3. z # Null
      BY <2>3, ParentOf
    <3> HIDE DEF p, Bad
    <3>4. /\ lo[p] \in Int /\ lo[z] \in Int /\ hi[p] \in Int /\ hi[z] \in Int /\ at[p] \in Int
          /\ lo[p] < at[p] /\ at[p] < hi[p] /\ lo[z] < at[z] /\ at[z] < hi[z]
          /\ s = "left" => lo[p] <= lo[z] /\ hi[z] <= at[p]
          /\ s = "right" => at[p] <= lo[z] /\ hi[z] <= hi[p]
      BY <3>1, <3>2, <3>3, Nested
    <3>5. lo[x] \in Int /\ hi[x] \in Int
      BY WalkBounds
    <3>6. In(z, W[p])
      BY <2>3, <3>1, <3>2, WalkBounds
    <3>7. CASE In(p, W[x])
      BY <2>3, <3>1, <3>2, <3>3, <3>7, WalkIsClosed
    <3>8. CASE In(x, W[p])
      <4>1. CASE x = p
        BY <2>3, <3>6, <4>1
      <4>2. CASE x # p
        <5>1. PICK r \in Sides : In(x, W[t.child[r][p]])
          BY <3>1, <3>8, <4>2, WalkBounds
        <5>2. CASE r = s
          BY <2>3, <3>2, <5>1, <5>2
        <5>3. CASE r # s
          <6> DEFINE c == t.child[r][p]
          <6>1. c \in L /\ c # Null /\ In(x, W[c])
            BY <3>1, <5>1, WalkBounds
          <6>2. /\ lo[c] \in Int /\ hi[c] \in Int
                /\ r = "left" => lo[p] <= lo[c] /\ hi[c] <= at[p]
                /\ r = "right" => at[p] <= lo[c] /\ hi[c] <= hi[p]
            BY <3>1, <6>1, Nested
          <6>3. lo[c] <= lo[x] /\ hi[x] <= hi[c]
            BY <6>1, WalkNests
          <6> HIDE DEF c
          <6>4. hi[x] <= lo[z] \/ hi[z] <= lo[x]
            BY <3>4, <3>5, <5>3, <6>2, <6>3, SidesAre
          <6> QED BY <2>3, <6>4
        <5> QED BY <5>2, <5>3
      <4> QED BY <4>1, <4>2
    <3>9. CASE hi[x] <= lo[p] \/ hi[p] <= lo[x]
      <4>1. hi[x] <= lo[z] \/ hi[z] <= lo[x]
        BY <3>4, <3>5, <3>9, SidesAre
      <4> QED BY <2>3, <4>1
    <3> QED BY <3>1, <3>7, <3>8, <3>9
  <2> QED BY <2>4, <2>5
<1> QED BY <1>1

\* What has its place within the bounds of a node is below it.
LEMMA Inside ==
    ASSUME NEW t, NEW L, NEW lo, NEW at, NEW hi, Tree(t, L, lo, at, hi), Loose(t, L),
           NEW W, Walks(t, L, lo, at, hi, W), InOrder(t) = W[t.mRoot],
           NEW x \in L, NEW z \in L, lo[x] < at[z], at[z] < hi[x]
    PROVE  In(z, W[x])
<1>1. /\ lo[x] \in Int /\ at[x] \in Int /\ hi[x] \in Int /\ lo[z] \in Int /\ at[z] \in Int /\ hi[z] \in Int
      /\ lo[x] < at[x] /\ at[x] < hi[x] /\ lo[z] < at[z] /\ at[z] < hi[z]
  BY WalkBounds
<1>2. ~(hi[x] <= lo[z]) /\ ~(hi[z] <= lo[x])
  BY <1>1
<1>3. ASSUME In(x, W[z]) PROVE In(z, W[x])
  <2>1. CASE x = z
    BY <1>3, <2>1
  <2>2. CASE x # z
    <3>1. hi[x] <= at[z] \/ at[z] <= lo[x]
      BY <1>3, <2>2, WalkNests
    <3> QED BY <1>1, <3>1
  <2> QED BY <2>1, <2>2
<1> QED BY <1>2, <1>3, Laminar

\* minimum() is the first of the nodes below, maximum() the last.
LEMMA ExtremeOf ==
    ASSUME NEW t, NEW L, NEW lo, NEW at, NEW hi, Tree(t, L, lo, at, hi), Loose(t, L),
           NEW W, Walks(t, L, lo, at, hi, W), NEW s \in Sides, NEW r \in L
    PROVE  /\ In(Extreme(t, r, s), W[r])
           /\ \A z : In(z, W[r]) => IF s = "left" THEN at[Extreme(t, r, s)] <= at[z]
                                    ELSE at[z] <= at[Extreme(t, r, s)]
<1>0. IsTree(t) /\ L \subseteq Nodes /\ Null \notin Nodes
  BY DEF Tree, Shape
<1>1. PICK rank, N : Descends(t, rank, N)
  BY DownRank
<1>2. PICK f : /\ \A y \in Nodes : f[y] = IF t.child[s][y] = Null THEN y ELSE f[t.child[s][y]]
               /\ \A x : Extreme(t, x, s) = IF x = Null THEN Null ELSE f[x]
  BY <1>0, <1>1, ExtremeIsDefined
<1> DEFINE Good(x) == /\ In(f[x], W[x])
                      /\ \A z : In(z, W[x]) => IF s = "left" THEN at[f[x]] <= at[z] ELSE at[z] <= at[f[x]]
           Bad == {x \in L : ~Good(x)}
<1>3. Bad = {}
  <2>1. SUFFICES ASSUME Bad # {} PROVE FALSE
    OBVIOUS
  <2>2. PICK x \in Bad : \A q \in Sides :
               t.child[q][x] # Null => t.child[q][x] \in L /\ t.child[q][x] \notin Bad
    <3>1. Bad \subseteq L
      OBVIOUS
    <3> HIDE DEF Bad
    <3> QED BY <2>1, <3>1, LowestBad
  <2>3. x \in L /\ x \in Nodes /\ ~Good(x)
    BY <1>0
  <2> DEFINE c == t.child[s][x]
  <2>4. c # Null => c \in L /\ Good(c)
    BY <2>2
  <2>5. c = Null => f[x] = x
    BY <1>2, <2>3
  <2>6. c # Null => f[x] = f[c]
    BY <1>2, <2>3
  <2>7. c # Null => /\ In(f[c], W[c])
                    /\ \A z : In(z, W[c]) => IF s = "left" THEN at[f[c]] <= at[z] ELSE at[z] <= at[f[c]]
    BY <2>4
  <2>8. Good(x) <=> /\ In(f[x], W[x])
                    /\ \A z : In(z, W[x]) => IF s = "left" THEN at[f[x]] <= at[z] ELSE at[z] <= at[f[x]]
    OBVIOUS
  <2>9. c = t.child[s][x]
    OBVIOUS
  <2> HIDE DEF Good, Bad, c
  <2>10. \A z : In(z, W[x]) => /\ z = x \/ In(z, W[c]) \/ In(z, W[t.child[Other(s)][x]])
                               /\ at[z] \in Int
    <3>1. \A z : In(z, W[x]) => z = x \/ In(z, W[c]) \/ In(z, W[t.child[Other(s)][x]])
      BY <2>3, <2>9, SidesAre DEF Walks
    <3>2. \A z : In(z, W[x]) => at[z] \in Int
      BY <2>3, WalkBounds
    <3> QED BY <3>1, <3>2
  <2>11. at[x] \in Int /\ In(x, W[x])
    BY <2>3, WalkBounds
  <2>12. \A z : In(z, W[c]) => /\ c # Null /\ at[z] \in Int /\ In(z, W[x])
                               /\ IF s = "left" THEN at[z] < at[x] ELSE at[x] < at[z]
    <3>1. SUFFICES ASSUME NEW z, In(z, W[c])
                   PROVE  c # Null /\ at[z] \in Int /\ In(z, W[x]) /\ IF s = "left" THEN at[z] < at[x] ELSE at[x] < at[z]
      OBVIOUS
    <3>2. c # Null /\ In(z, W[x]) /\ (s = "left" => at[z] < at[x]) /\ (s = "right" => at[x] < at[z])
      BY <2>3, <2>9, <3>1, WalkBounds
    <3> QED BY <2>10, <3>2, SidesAre
  <2>13. \A z : In(z, W[t.child[Other(s)][x]]) => IF s = "left" THEN at[x] < at[z] ELSE at[z] < at[x]
    <3>1. SUFFICES ASSUME NEW z, In(z, W[t.child[Other(s)][x]])
                   PROVE  IF s = "left" THEN at[x] < at[z] ELSE at[z] < at[x]
      OBVIOUS
    <3>2. Other(s) \in Sides /\ (s = "left" => Other(s) = "right") /\ (s = "right" => Other(s) = "left")
      BY SidesAre
    <3>3. /\ Other(s) = "left" => at[z] < at[x]
          /\ Other(s) = "right" => at[x] < at[z]
      BY <2>3, <3>1, <3>2, WalkBounds
    <3> QED BY <3>2, <3>3, SidesAre
  <2>14. CASE c = Null
    <3>1. \A z : ~In(z, W[c])
      BY <2>12, <2>14
    <3> QED BY <2>3, <2>5, <2>8, <2>10, <2>11, <2>13, <2>14, <3>1
  <2>15. CASE c # Null
    <3>1. In(f[x], W[c]) /\ In(f[x], W[x])
      BY <2>6, <2>7, <2>12, <2>15
    <3>2. at[f[x]] \in Int /\ IF s = "left" THEN at[f[x]] < at[x] ELSE at[x] < at[f[x]]
      BY <2>12, <3>1
    <3>3. ASSUME NEW z, In(z, W[x])
          PROVE  IF s = "left" THEN at[f[x]] <= at[z] ELSE at[z] <= at[f[x]]
      <4>1. CASE z = x
        BY <2>11, <3>2, <4>1
      <4>2. CASE In(z, W[c])
        BY <2>6, <2>7, <2>15, <4>2
      <4>3. CASE In(z, W[t.child[Other(s)][x]])
        BY <2>10, <2>11, <2>13, <3>2, <3>3, <4>3
      <4> QED BY <2>10, <3>3, <4>1, <4>2, <4>3
    <3> QED BY <2>3, <2>8, <3>1, <3>3
  <2> QED BY <2>14, <2>15
<1>4. r # Null
  BY <1>0
<1>5. Good(r)
  BY <1>3
<1> QED BY <1>2, <1>4, <1>5

\* The keys stand in the order of the places.
Sorted(L, at) == \A x \in L, y \in L : at[x] < at[y] => Key[x] <= Key[y]

LEMMA KeyIs == \A x \in Nodes : Key[x] \in Int
OBVIOUS

\* A new key k stands after a node at m's place or before it.
Before(k, m, at, z) == IF Below(k, m) = "left" THEN at[z] < at[m] ELSE at[z] <= at[m]

LEMMA LeafOrder ==
    ASSUME NEW t, NEW L, NEW lo, NEW at, NEW hi, Tree(t, L, lo, at, hi), Loose(t, L), Sorted(L, at),
           NEW k \in Int, t.mRoot # Null
    PROVE  \A z \in L : IF Before(k, Leaf(t, k), at, z) THEN Key[z] <= k ELSE k <= Key[z]
<1>0. IsTree(t) /\ L \subseteq Nodes /\ Null \notin Nodes /\ t.mRoot \in L
  BY DEF Tree, Shape
<1>1. PICK rank, N : Descends(t, rank, N)
  BY DownRank
<1>2. PICK f : /\ \A y \in Nodes : f[y] = IF t.child[Below(k, y)][y] = Null THEN y
                                          ELSE f[t.child[Below(k, y)][y]]
               /\ Leaf(t, k) = IF t.mRoot = Null THEN Null ELSE f[t.mRoot]
  BY <1>0, <1>1, LeafIsDefined
<1>3. PICK W : Walks(t, L, lo, at, hi, W) /\ InOrder(t) = W[t.mRoot]
  BY WalkIs
<1> DEFINE Good(x) == /\ In(f[x], W[x])
                      /\ \A z : In(z, W[x]) => IF Before(k, f[x], at, z) THEN Key[z] <= k ELSE k <= Key[z]
           Bad == {x \in L : ~Good(x)}
<1>4. Bad = {}
  <2>1. SUFFICES ASSUME Bad # {} PROVE FALSE
    OBVIOUS
  <2>2. PICK x \in Bad : \A q \in Sides :
               t.child[q][x] # Null => t.child[q][x] \in L /\ t.child[q][x] \notin Bad
    <3>1. Bad \subseteq L
      OBVIOUS
    <3> HIDE DEF Bad
    <3> QED BY <2>1, <3>1, LowestBad
  <2> DEFINE s == Below(k, x)
             c == t.child[s][x]
  <2>3. x \in L /\ x \in Nodes /\ ~Good(x) /\ s \in Sides
        /\ (s = "left" <=> k < Key[x]) /\ (s = "right" <=> Key[x] <= k) /\ Key[x] \in Int
    BY <1>0, BelowIs
  <2>4. c # Null => c \in L /\ Good(c)
    BY <2>2, <2>3
  <2>5. c = Null => f[x] = x
    BY <1>2, <2>3
  <2>6. c # Null => f[x] = f[c]
    BY <1>2, <2>3
  <2>7. c # Null => /\ In(f[c], W[c])
                    /\ \A z : In(z, W[c]) => IF Before(k, f[c], at, z) THEN Key[z] <= k ELSE k <= Key[z]
    BY <2>4
  <2>8. Good(x) <=> /\ In(f[x], W[x])
                    /\ \A z : In(z, W[x]) => IF Before(k, f[x], at, z) THEN Key[z] <= k ELSE k <= Key[z]
    OBVIOUS
  <2>9. c = t.child[s][x] /\ s = Below(k, x)
    OBVIOUS
  <2> HIDE DEF Good, Bad, c, s
  <2>10. \A z : In(z, W[x]) => /\ z = x \/ In(z, W[c]) \/ In(z, W[t.child[Other(s)][x]])
                               /\ at[z] \in Int /\ z \in L /\ Key[z] \in Int
    <3>1. \A z : In(z, W[x]) => z = x \/ In(z, W[c]) \/ In(z, W[t.child[Other(s)][x]])
      BY <1>3, <2>3, <2>9, SidesAre DEF Walks
    <3>2. \A z : In(z, W[x]) => at[z] \in Int /\ z \in L /\ z \in Nodes
      BY <1>3, <2>3, WalkBounds
    <3> QED BY <3>1, <3>2
  <2>11. at[x] \in Int /\ In(x, W[x])
    BY <1>3, <2>3, WalkBounds
  <2>12. \A z : In(z, W[c]) => /\ c # Null /\ In(z, W[x])
                               /\ IF s = "left" THEN at[z] < at[x] ELSE at[x] < at[z]
    <3>1. SUFFICES ASSUME NEW z, In(z, W[c])
                   PROVE  c # Null /\ In(z, W[x]) /\ IF s = "left" THEN at[z] < at[x] ELSE at[x] < at[z]
      OBVIOUS
    <3>2. c # Null /\ In(z, W[x]) /\ (s = "left" => at[z] < at[x]) /\ (s = "right" => at[x] < at[z])
      BY <1>3, <2>3, <2>9, <3>1, WalkBounds
    <3> QED BY <2>3, <3>2, SidesAre
  <2>13. \A z : In(z, W[t.child[Other(s)][x]]) =>
             /\ In(z, W[x])
             /\ IF s = "left" THEN at[x] < at[z] /\ k <= Key[z] ELSE at[z] < at[x] /\ Key[z] <= k
    <3>1. SUFFICES ASSUME NEW z, In(z, W[t.child[Other(s)][x]])
                   PROVE  /\ In(z, W[x])
                          /\ IF s = "left" THEN at[x] < at[z] /\ k <= Key[z] ELSE at[z] < at[x] /\ Key[z] <= k
      OBVIOUS
    <3>2. Other(s) \in Sides /\ (s = "left" => Other(s) = "right") /\ (s = "right" => Other(s) = "left")
      BY <2>3, SidesAre
    <3>3. /\ In(z, W[x])
          /\ Other(s) = "left" => at[z] < at[x]
          /\ Other(s) = "right" => at[x] < at[z]
      BY <1>3, <2>3, <3>1, <3>2, WalkBounds
    <3>4. z \in L /\ Key[z] \in Int
      BY <2>10, <3>3
    <3>5. /\ at[z] < at[x] => Key[z] <= Key[x]
          /\ at[x] < at[z] => Key[x] <= Key[z]
      BY <2>3, <3>4 DEF Sorted
    <3> QED BY <2>3, <3>2, <3>3, <3>4, <3>5, SidesAre
  <2>14. CASE c = Null
    <3>1. \A z : ~In(z, W[c])
      BY <2>12, <2>14
    <3>2. f[x] = x
      BY <2>5, <2>14
    <3>3. ASSUME NEW z, In(z, W[x])
          PROVE  IF Before(k, x, at, z) THEN Key[z] <= k ELSE k <= Key[z]
      <4>1. CASE z = x
        BY <2>3, <2>9, <2>11, <4>1, SidesAre DEF Before
      <4>2. CASE In(z, W[t.child[Other(s)][x]])
        BY <2>3, <2>9, <2>10, <2>11, <2>13, <3>3, <4>2, SidesAre DEF Before
      <4> QED BY <2>10, <3>1, <3>3, <4>1, <4>2
    <3> QED BY <2>3, <2>8, <2>11, <3>2, <3>3
  <2>15. CASE c # Null
    <3>1. In(f[x], W[c]) /\ In(f[x], W[x])
      BY <2>6, <2>7, <2>12, <2>15
    <3>2. /\ at[f[x]] \in Int /\ f[x] \in L /\ f[x] \in Nodes
          /\ IF s = "left" THEN at[f[x]] < at[x] ELSE at[x] < at[f[x]]
      BY <1>0, <2>10, <2>12, <3>1
    <3>3. ASSUME NEW z, In(z, W[x])
          PROVE  IF Before(k, f[x], at, z) THEN Key[z] <= k ELSE k <= Key[z]
      <4>1. CASE z = x
        BY <2>3, <2>11, <3>2, <4>1, SidesAre DEF Before
      <4>2. CASE In(z, W[c])
        BY <2>6, <2>7, <2>15, <4>2
      <4>3. CASE In(z, W[t.child[Other(s)][x]])
        <5>1. at[z] \in Int /\ Key[z] \in Int
          BY <2>10, <3>3
        <5> QED BY <2>3, <2>11, <2>13, <3>2, <4>3, <5>1, SidesAre DEF Before
      <4> QED BY <2>10, <3>3, <4>1, <4>2, <4>3
    <3> QED BY <2>3, <2>8, <3>1, <3>3
  <2> QED BY <2>14, <2>15
<1>5. Good(t.mRoot)
  BY <1>0, <1>4
<1>6. \A z \in L : In(z, W[t.mRoot])
  BY <1>3, InOrderIs
<1> QED BY <1>2, <1>5, <1>6

LEMMA InsertSorted ==
    ASSUME NEW L, L \subseteq Nodes, NEW at \in [Pointers -> Int], Sorted(L, at),
           NEW n \in Nodes, n \notin L, NEW y, NEW s, s = Below(Key[n], y) \/ y = Null,
           \/ y = Null /\ L = {}
           \/ y \in L /\ \A z \in L : IF Before(Key[n], y, at, z) THEN Key[z] <= Key[n] ELSE Key[n] <= Key[z]
    PROVE  Sorted(L \cup {n}, NewAt(at, y, s, n))
<1> DEFINE at2 == NewAt(at, y, s, n)
<1>1. /\ \A z \in L : z \in Pointers /\ z # n /\ at[z] \in Int /\ Key[z] \in Int
      /\ n \in Pointers /\ Key[n] \in Int
  BY DEF Pointers
<1>2. CASE y = Null /\ L = {}
  BY <1>1, <1>2 DEF Sorted
<1>3. CASE y \in L /\ \A z \in L : IF Before(Key[n], y, at, z) THEN Key[z] <= Key[n] ELSE Key[n] <= Key[z]
  <2>1. y # Null /\ s = Below(Key[n], y) /\ (s = "left" \/ s = "right")
    BY <1>3 DEF Below
  <2>2. /\ \A z \in L : at2[z] = 2 * at[z]
        /\ at2[n] = IF s = "left" THEN 2 * at[y] - 1 ELSE 2 * at[y] + 1
    BY <1>1, <2>1 DEF NewAt
  <2>3. at[y] \in Int
    BY <1>1, <1>3
  <2> HIDE DEF at2
  <2>4. \A z \in L : Before(Key[n], y, at, z) <=> IF s = "left" THEN at[z] < at[y] ELSE at[z] <= at[y]
    BY <2>1 DEF Before
  <2>5. \A z \in L : /\ at2[z] < at2[n] => Key[z] <= Key[n]
                     /\ at2[n] < at2[z] => Key[n] <= Key[z]
    <3>1. SUFFICES ASSUME NEW z \in L
                   PROVE  /\ at2[z] < at2[n] => Key[z] <= Key[n]
                          /\ at2[n] < at2[z] => Key[n] <= Key[z]
      OBVIOUS
    <3>2. at[z] \in Int /\ at2[z] = 2 * at[z]
      BY <1>1, <2>2
    <3>3. CASE s = "left"
      <4>1. (at2[z] < at2[n] => at[z] < at[y]) /\ (at2[n] < at2[z] => ~(at[z] < at[y]))
        BY <2>2, <2>3, <3>2, <3>3
      <4> QED BY <1>3, <2>4, <3>3, <4>1
    <3>4. CASE s = "right"
      <4>1. (at2[z] < at2[n] => at[z] <= at[y]) /\ (at2[n] < at2[z] => ~(at[z] <= at[y]))
        BY <2>2, <2>3, <3>2, <3>4
      <4> QED BY <1>3, <2>4, <3>4, <4>1
    <3> QED BY <2>1, <3>3, <3>4
  <2>6. \A x \in L, z \in L : at2[x] < at2[z] => Key[x] <= Key[z]
    BY <1>1, <2>2 DEF Sorted
  <2>7. at2[n] \in Int
    BY <2>2, <2>3
  <2> QED BY <2>5, <2>6, <2>7, <1>1 DEF Sorted, at2
<1> QED BY <1>2, <1>3

\* The extreme of a subtree is the neighbour of the node above it.
LEMMA NextPlace ==
    ASSUME NEW t, NEW L, NEW lo, NEW at, NEW hi, Tree(t, L, lo, at, hi), Loose(t, L),
           NEW x \in L, NEW s \in Sides, t.child[s][x] # Null,
           NEW m, m = Extreme(t, t.child[s][x], Other(s))
    PROVE  /\ m \in L /\ m # x
           /\ s = "right" => at[x] < at[m] /\ \A z \in L : at[x] < at[z] => at[m] <= at[z]
           /\ s = "left" => at[m] < at[x] /\ \A z \in L : at[z] < at[x] => at[z] <= at[m]
<1>1. PICK W : Walks(t, L, lo, at, hi, W) /\ InOrder(t) = W[t.mRoot]
  BY WalkIs
<1> DEFINE c == t.child[s][x]
<1>2. c \in L /\ Other(s) \in Sides /\ t.child[s][x] = c
  BY SidesAre DEF Tree, Shape
<1>3. /\ \A y \in L : at[y] \in Int /\ lo[y] \in Int /\ hi[y] \in Int
      /\ lo[x] < at[x] /\ at[x] < hi[x]
  BY DEF Tree, Shape, Placed, Pointers
<1> HIDE DEF c
<1>4. /\ In(m, W[c])
      /\ \A z : In(z, W[c]) => IF Other(s) = "left" THEN at[m] <= at[z] ELSE at[z] <= at[m]
  BY <1>1, <1>2, ExtremeOf
<1>5. /\ m \in L
      /\ s = "left" => lo[x] < at[m] /\ at[m] < at[x]
      /\ s = "right" => at[x] < at[m] /\ at[m] < hi[x]
  <2>1. In(m, W[x]) /\ (s = "left" => lo[x] < at[m] /\ at[m] < at[x])
        /\ (s = "right" => at[x] < at[m] /\ at[m] < hi[x])
    BY <1>1, <1>2, <1>4, WalkBounds
  <2> QED BY <1>1, <2>1, WalkBounds
<1>6. ASSUME NEW z \in L, lo[x] < at[z], at[z] < hi[x], z # x
      PROVE  In(z, W[x]) /\ \E r \in Sides : In(z, W[t.child[r][x]])
  <2>1. In(z, W[x])
    BY <1>1, <1>6, Inside
  <2> QED BY <1>1, <1>6, <2>1, SidesAre DEF Walks
<1>7. ASSUME s = "right", NEW z \in L, at[x] < at[z] PROVE at[m] <= at[z]
  <2>1. SUFFICES ASSUME at[z] < at[m] PROVE FALSE
    BY <1>3, <1>5
  <2>2. lo[x] < at[z] /\ at[z] < hi[x] /\ z # x
    BY <1>3, <1>5, <1>7, <2>1
  <2>3. PICK r \in Sides : In(z, W[t.child[r][x]])
    BY <1>6, <2>2
  <2>4. r = "right"
    <3>1. r = "left" => at[z] < at[x]
      BY <1>1, <2>3, WalkBounds
    <3> QED BY <1>3, <1>7, <3>1, SidesAre
  <2>5. In(z, W[c]) /\ Other(s) = "left"
    BY <1>2, <1>7, <2>3, <2>4, SidesAre
  <2> QED BY <1>3, <1>4, <1>5, <2>1, <2>5
<1>8. ASSUME s = "left", NEW z \in L, at[z] < at[x] PROVE at[z] <= at[m]
  <2>1. SUFFICES ASSUME at[m] < at[z] PROVE FALSE
    BY <1>3, <1>5
  <2>2. lo[x] < at[z] /\ at[z] < hi[x] /\ z # x
    BY <1>3, <1>5, <1>8, <2>1
  <2>3. PICK r \in Sides : In(z, W[t.child[r][x]])
    BY <1>6, <2>2
  <2>4. r = "left"
    <3>1. r = "right" => at[x] < at[z]
      BY <1>1, <2>3, WalkBounds
    <3> QED BY <1>3, <1>8, <3>1, SidesAre
  <2>5. In(z, W[c]) /\ Other(s) # "left"
    BY <1>2, <1>8, <2>3, <2>4, SidesAre
  <2> QED BY <1>3, <1>4, <1>5, <2>1, <2>5
<1>9. m # x
  BY <1>3, <1>5, SidesAre
<1> QED BY <1>5, <1>7, <1>8, <1>9

LEMMA SpliceSorted ==
    ASSUME NEW t, NEW L, NEW lo, NEW at, NEW hi, Tree(t, L, lo, at, hi), Loose(t, L), Sorted(L, at),
           NEW x \in L, t.child["right"][x] # Null, NEW m, m = Minimum(t, t.child["right"][x])
    PROVE  Sorted(L \ {x}, Moved(at, x, m))
<1>1. m \in L /\ m # x /\ at[x] < at[m] /\ \A z \in L : at[x] < at[z] => at[m] <= at[z]
  BY SidesAre, NextPlace DEF Minimum
<1>2. L \subseteq Nodes /\ at \in [Pointers -> Int] /\ \A z \in L : at[z] \in Int /\ Key[z] \in Int
  BY DEF Tree, Shape, Placed, Pointers
<1>3. /\ Moved(at, x, m)[m] = at[x]
      /\ \A z \in L : z # m => Moved(at, x, m)[z] = at[z]
  BY <1>1, <1>2 DEF Moved, Pointers
<1>4. ASSUME NEW y \in L \ {x}, NEW z \in L \ {x}, Moved(at, x, m)[y] < Moved(at, x, m)[z]
      PROVE  Key[y] <= Key[z]
  <2>1. CASE y = m
    <3>1. z # m /\ at[x] < at[z]
      BY <1>1, <1>2, <1>3, <1>4, <2>1
    <3>2. at[m] < at[z] \/ at[m] = at[z]
      BY <1>1, <1>2, <3>1
    <3>3. z # m => at[m] # at[z]
      \* two nodes do not share a place
      <4>1. PICK W : Walks(t, L, lo, at, hi, W) /\ InOrder(t) = W[t.mRoot]
        BY WalkIs
      <4>2. ASSUME z # m, at[m] = at[z] PROVE FALSE
        <5>1. lo[m] < at[z] /\ at[z] < hi[m] /\ lo[z] < at[m] /\ at[m] < hi[z]
          BY <1>1, <4>2 DEF Tree, Placed
        <5>2. In(z, W[m])
          BY <1>1, <4>1, <5>1, Inside
        <5>3. hi[z] <= at[m] \/ at[m] <= lo[z]
          BY <1>1, <4>1, <4>2, <5>2, WalkNests
        <5>4. lo[z] \in Int /\ hi[z] \in Int /\ at[m] \in Int
          BY <1>1, <1>2 DEF Tree, Placed, Pointers
        <5> QED BY <5>1, <5>3, <5>4
      <4> QED BY <4>2
    <3> QED BY <1>1, <2>1, <3>1, <3>2, <3>3 DEF Sorted
  <2>2. CASE y # m /\ z = m
    <3>1. at[y] < at[x]
      BY <1>3, <1>4, <2>2
    <3>2. at[y] < at[m]
      BY <1>1, <1>2, <3>1
    <3> QED BY <1>1, <2>2, <3>2 DEF Sorted
  <2>3. CASE y # m /\ z # m
    BY <1>3, <1>4, <2>3 DEF Sorted
  <2> QED BY <2>1, <2>2, <2>3
<1> QED BY <1>4 DEF Sorted

\* search() finds a node with the key, if there is one.
LEMMA SearchIs ==
    ASSUME NEW t, NEW L, NEW lo, NEW at, NEW hi, Tree(t, L, lo, at, hi), Loose(t, L), Sorted(L, at),
           NEW k \in Int
    PROVE  /\ Search(t, k) \in L \cup {Null}
           /\ Search(t, k) # Null => Key[Search(t, k)] = k
           /\ Search(t, k) = Null => \A z \in L : Key[z] # k
<1>0. IsTree(t) /\ L \subseteq Nodes /\ Null \notin Nodes /\ t.mRoot \in L \cup {Null}
  BY DEF Tree, Shape
<1>1. PICK rank, N : Descends(t, rank, N)
  BY DownRank
<1>2. PICK f : /\ \A x \in Pointers : f[x] = IF x = Null \/ Key[x] = k THEN x
                                             ELSE f[t.child[IF k < Key[x] THEN "left" ELSE "right"][x]]
               /\ Search(t, k) = f[t.mRoot]
  BY <1>0, <1>1, SearchIsDefined
<1>3. PICK W : Walks(t, L, lo, at, hi, W) /\ InOrder(t) = W[t.mRoot]
  BY WalkIs
<1>4. f[Null] = Null
  BY <1>2 DEF Pointers
<1> DEFINE Good(x) == /\ f[x] \in L \cup {Null}
                      /\ f[x] # Null => Key[f[x]] = k
                      /\ f[x] = Null => \A z : In(z, W[x]) => Key[z] # k
           Bad == {x \in L : ~Good(x)}
<1>5. Good(Null)
  BY <1>3, <1>4, NothingIn DEF Walks
<1>6. Bad = {}
  <2>1. SUFFICES ASSUME Bad # {} PROVE FALSE
    OBVIOUS
  <2>2. PICK x \in Bad : \A q \in Sides :
               t.child[q][x] # Null => t.child[q][x] \in L /\ t.child[q][x] \notin Bad
    <3>1. Bad \subseteq L
      OBVIOUS
    <3> HIDE DEF Bad
    <3> QED BY <2>1, <3>1, LowestBad
  <2> DEFINE s == IF k < Key[x] THEN "left" ELSE "right"
             c == t.child[s][x]
  <2>3. x \in L /\ x \in Nodes /\ x \in Pointers /\ x # Null /\ ~Good(x) /\ Key[x] \in Int
    BY <1>0 DEF Pointers
  <2>4. s \in Sides /\ Good(c)
    BY <1>5, <2>2, SidesAre
  <2>5. f[x] = IF Key[x] = k THEN x ELSE f[c]
    BY <1>2, <2>3
  <2>6. Good(x) <=> /\ f[x] \in L \cup {Null}
                    /\ f[x] # Null => Key[f[x]] = k
                    /\ f[x] = Null => \A z : In(z, W[x]) => Key[z] # k
    OBVIOUS
  <2>7. /\ f[c] \in L \cup {Null}
        /\ f[c] # Null => Key[f[c]] = k
        /\ f[c] = Null => \A z : In(z, W[c]) => Key[z] # k
    BY <2>4
  <2>8. c = t.child[s][x] /\ s = IF k < Key[x] THEN "left" ELSE "right"
    OBVIOUS
  <2> HIDE DEF Good, Bad, c, s
  <2>9. CASE Key[x] = k
    BY <2>3, <2>5, <2>6, <2>9
  <2>10. CASE Key[x] # k
    <3>1. ASSUME f[x] = Null, NEW z, In(z, W[x]) PROVE Key[z] # k
      <4>1. z = x \/ In(z, W[c]) \/ In(z, W[t.child[Other(s)][x]])
        BY <1>3, <2>3, <2>4, <2>8, <3>1, SidesAre DEF Walks
      <4>2. CASE z = x
        BY <2>10, <4>2
      <4>3. CASE In(z, W[c])
        BY <2>5, <2>7, <2>10, <3>1, <4>3
      <4>4. CASE In(z, W[t.child[Other(s)][x]])
        <5>1. Other(s) \in Sides /\ (s = "left" => Other(s) = "right") /\ (s = "right" => Other(s) = "left")
          BY <2>4, SidesAre
        <5>2. /\ Other(s) = "left" => at[z] < at[x]
              /\ Other(s) = "right" => at[x] < at[z]
          BY <1>3, <2>3, <4>4, <5>1, WalkBounds
        <5>3. z \in L /\ z \in Nodes /\ Key[z] \in Int
          BY <1>3, <2>3, <3>1, WalkBounds
        <5>4. /\ at[z] < at[x] => Key[z] <= Key[x]
              /\ at[x] < at[z] => Key[x] <= Key[z]
          BY <2>3, <5>3 DEF Sorted
        <5> QED BY <2>3, <2>4, <2>8, <2>10, <5>1, <5>2, <5>3, <5>4, SidesAre
      <4> QED BY <4>1, <4>2, <4>3, <4>4
    <3> QED BY <2>3, <2>5, <2>6, <2>7, <2>10, <3>1
  <2> QED BY <2>9, <2>10
<1>7. Good(t.mRoot)
  BY <1>0, <1>5, <1>6
<1>8. \A z \in L : In(z, W[t.mRoot])
  BY <1>3, InOrderIs
<1> QED BY <1>2, <1>7, <1>8

-----------------------------------------------------------------------------
(* Colors and black heights.                                               *)

\* u is t in other colors.
Recolored(t, u) ==
    IsTree(t) /\ IsTree(u) /\ u.mRoot = t.mRoot /\ u.parent = t.parent /\ u.child = t.child

\* The pointers of the nodes out of the tree stay as they are.
Outside(t, u, L) ==
    \A z \in Nodes \ L : u.parent[z] = t.parent[z] /\ \A s \in Sides : u.child[s][z] = t.child[s][z]

Ordered(t, L, at) == \E lo, hi : Tree(t, L, lo, at, hi)

\* H counts the black nodes on every way down, where the way from p to side s
\* is one short.
Balanced(t, L, H, p, s) ==
    /\ H \in [Pointers -> Nat] /\ H[Null] = 0
    /\ \A x \in L, r \in Sides :
           H[x] = H[t.child[r][x]] + (IF x = p /\ r = s THEN 1 ELSE 0)
                                   + (IF t.color[x] = "RED" THEN 0 ELSE 1)

\* No red node has a red parent or is the root, but for those of E.
RedRule(t, L, E) ==
    \A x \in L : t.color[x] = "RED" =>
        x \in E \/ /\ x # t.mRoot
                   /\ t.parent[x] \in Nodes => t.color[t.parent[x]] = "BLACK"

LEMMA PaintRecolors ==
    ASSUME NEW t, IsTree(t), NEW x \in Nodes, NEW c \in {"RED", "BLACK"}
    PROVE  /\ Recolored(t, Paint(t, x, c))
           /\ \A y \in Nodes : Paint(t, x, c).color[y] = IF y = x THEN c ELSE t.color[y]
<1>1. Painted(t, Paint(t, x, c), x, c)
  BY PaintEffect
<1> QED BY <1>1 DEF Painted, Recolored

LEMMA RecolorKeeps ==
    ASSUME NEW t, NEW u, Recolored(t, u), NEW L
    PROVE  /\ \A lo, at, hi : Tree(t, L, lo, at, hi) => Tree(u, L, lo, at, hi)
           /\ \A at : Ordered(t, L, at) => Ordered(u, L, at)
           /\ Outside(t, u, L)
           /\ Loose(t, L) => Loose(u, L)
<1>1. IsTree(u) /\ u.mRoot = t.mRoot /\ u.parent = t.parent /\ u.child = t.child
  BY DEF Recolored
<1>2. Shape(t, L) => Shape(u, L)
  BY <1>1 DEF Shape
<1>3. \A lo, at, hi : Tree(t, L, lo, at, hi) => Tree(u, L, lo, at, hi)
  BY <1>1, <1>2 DEF Tree, Placed
<1>4. Outside(t, u, L) /\ (Loose(t, L) => Loose(u, L))
  BY <1>1 DEF Outside, Loose
<1> QED BY <1>3, <1>4 DEF Ordered

LEMMA RotateKeeps ==
    ASSUME NEW t, NEW L, NEW at, Ordered(t, L, at), NEW x \in L, NEW s \in Sides,
           NEW y, y = t.child[Other(s)][x], y # Null
    PROVE  /\ Rotated(t, RotateTo(t, x, s), x, y, s)
           /\ Ordered(RotateTo(t, x, s), L, at)
           /\ Outside(t, RotateTo(t, x, s), L)
           /\ x \in Nodes /\ y \in Nodes /\ y \in L /\ x # y
<1>1. PICK lo, hi : Tree(t, L, lo, at, hi)
  BY DEF Ordered
<1>2. /\ y \in L /\ t.parent[y] = x /\ x # y /\ t.parent[x] # x /\ t.parent[x] # y
      /\ t.child[s][y] # x /\ t.child[s][y] # y
      /\ t.child[s][y] # Null => t.child[s][y] \in L
      /\ x \in Nodes /\ y \in Nodes /\ HasPlace(t, x) /\ IsTree(t)
  BY <1>1, RotateAround
<1>3. PICK u : u = RotateTo(t, x, s)
  OBVIOUS
<1>4. u = Rotate(t, x, s)
  BY <1>3, SidesAre DEF RotateTo, LeftRotate, RightRotate
<1>5. Rotated(t, u, x, y, s)
  BY <1>2, <1>4, RotateEffect
<1>6. \E lo2, hi2 : Tree(u, L, lo2, at, hi2)
  BY <1>1, <1>5, RotateTree
<1>7. t.parent[x] # Null => t.parent[x] \in L
  BY <1>1, ParentOf
<1>8. Outside(t, u, L)
  <2>1. L \subseteq Nodes /\ Null \notin Nodes
    BY <1>1 DEF Tree, Shape
  <2>2. ASSUME NEW z \in Nodes \ L
        PROVE u.parent[z] = t.parent[z] /\ \A r \in Sides : u.child[r][z] = t.child[r][z]
    <3>1. z # x /\ z # y /\ z # t.child[s][y] /\ z # t.parent[x]
      BY <1>2, <1>7, <2>1
    <3> QED BY <1>5, <3>1 DEF Rotated
  <2> QED BY <2>2 DEF Outside
<1> QED BY <1>2, <1>3, <1>5, <1>6, <1>8 DEF Ordered

\* What a rotation has around it: the subtrees below keep their order.
AroundIn(parent, child, mRoot, u, L, x, y, s, o) ==
    /\ o \in Sides /\ o # s /\ \A r \in Sides : r = s \/ r = o
    /\ L \subseteq Nodes /\ Null \notin Nodes /\ x # y /\ y \in L
    /\ parent[y] = x /\ parent[x] # x /\ parent[x] # y
    /\ u.child[s][x] = child[s][x] /\ u.child[o][x] = child[s][y]
    /\ u.child[s][y] = x /\ u.child[o][y] = child[o][y]
    /\ \A d \in {child[s][x], child[s][y], child[o][y]} : d # x /\ d # y /\ d \in L \cup {Null}
    /\ \A z \in L \ {x, y}, r \in Sides :
           \/ child[r][z] = x /\ u.child[r][z] = y
           \/ /\ child[r][z] # x /\ child[r][z] # y
              /\ u.child[r][z] = child[r][z] /\ u.child[r][z] \in L \cup {Null}
    /\ u.parent[x] = y /\ u.parent[y] = parent[x]
    /\ (u.mRoot = y) <=> (mRoot = x)
    /\ u.mRoot # x
    /\ \A z \in L \ {x, y} :
           /\ (u.mRoot = z) <=> (mRoot = z)
           /\ z = child[s][y] => u.parent[z] = x
           /\ z # child[s][y] => u.parent[z] = parent[z]
           /\ parent[z] = x => z = child[s][x]
           /\ parent[z] = y => z = child[s][y] \/ z = child[o][y]

Around(t, u, L, x, y, s, o) == AroundIn(t.parent, t.child, t.mRoot, u, L, x, y, s, o)

LEMMA Turned ==
    ASSUME NEW t, NEW L, NEW at, Ordered(t, L, at), NEW x \in L, NEW s \in Sides,
           NEW y, y = t.child[Other(s)][x], y # Null, NEW u, Rotated(t, u, x, y, s),
           NEW o, o = Other(s)
    PROVE  Around(t, u, L, x, y, s, o)
<1>1. PICK lo, hi : Tree(t, L, lo, at, hi)
  BY DEF Ordered
<1>2. /\ y \in L /\ t.parent[y] = x /\ x # y /\ t.parent[x] # x /\ t.parent[x] # y
      /\ t.child[s][y] # x /\ t.child[s][y] # y
      /\ x \in Nodes /\ y \in Nodes
  BY <1>1, RotateAround
<1>3. o \in Sides /\ o # s /\ \A r \in Sides : r = s \/ r = o
  BY SidesAre
<1>4. /\ L \subseteq Nodes /\ Null \notin Nodes
      /\ \A z \in L, r \in Sides :
           t.child[r][z] # Null => t.child[r][z] \in L /\ t.parent[t.child[r][z]] = z
      /\ \A z \in L \ {t.mRoot} : t.parent[z] \in L /\ \E r \in Sides : t.child[r][t.parent[z]] = z
      /\ t.mRoot # Null => t.parent[t.mRoot] = Null
      /\ t.mRoot \in L \cup {Null}
  BY <1>1 DEF Tree, Shape
<1>5. /\ \A z \in Nodes, r \in Sides :
           u.child[r][z] = IF z = x /\ r = o THEN t.child[s][y]
                           ELSE IF z = y /\ r = s THEN x
                           ELSE IF z = t.parent[x] /\ t.child[r][z] = x THEN y
                           ELSE t.child[r][z]
      /\ u.mRoot = IF t.mRoot = x THEN y ELSE t.mRoot
      /\ \A z \in Nodes :
           u.parent[z] = IF z = x THEN y ELSE IF z = y THEN t.parent[x]
                         ELSE IF z = t.child[s][y] THEN x ELSE t.parent[z]
  BY DEF Rotated
<1>6. t.child[o][x] = y
  OBVIOUS
<1>7. t.child[s][x] # y
  BY <1>1, <1>6, SidesAre, ChildrenDiffer
<1>8. \A z \in L, r \in Sides : t.child[r][z] # z
  BY <1>1, <1>4, Nested
<1>9. \A d \in {t.child[s][x], t.child[s][y], t.child[o][y]} : d # x /\ d # y /\ d \in L \cup {Null}
  <2>1. t.child[s][x] # x /\ t.child[s][x] \in L \cup {Null}
    BY <1>4, <1>8
  <2>2. t.child[s][y] \in L \cup {Null}
    BY <1>2, <1>4
  <2>3. t.child[o][y] # y /\ t.child[o][y] \in L \cup {Null}
    BY <1>2, <1>3, <1>4, <1>8
  <2>4. t.child[o][y] # x
    BY <1>2, <1>3, <1>4
  <2> QED BY <1>2, <1>7, <2>1, <2>2, <2>3, <2>4
<1>10. /\ u.child[s][x] = t.child[s][x] /\ u.child[o][x] = t.child[s][y]
       /\ u.child[s][y] = x /\ u.child[o][y] = t.child[o][y]
  BY <1>2, <1>3, <1>5, <1>9
<1>11. \A z \in L \ {x, y}, r \in Sides :
                  \/ t.child[r][z] = x /\ u.child[r][z] = y
                  \/ /\ t.child[r][z] # x /\ t.child[r][z] # y
                     /\ u.child[r][z] = t.child[r][z] /\ u.child[r][z] \in L \cup {Null}
  BY <1>2, <1>4, <1>5
<1>12. u.parent[x] = y /\ u.parent[y] = t.parent[x]
  BY <1>2, <1>5
<1>13. ((u.mRoot = y) <=> (t.mRoot = x)) /\ u.mRoot # x
  BY <1>2, <1>4, <1>5
<1>14. ASSUME NEW z \in L \ {x, y}
       PROVE /\ (u.mRoot = z) <=> (t.mRoot = z)
             /\ z = t.child[s][y] => u.parent[z] = x
             /\ z # t.child[s][y] => u.parent[z] = t.parent[z]
             /\ t.parent[z] = x => z = t.child[s][x]
             /\ t.parent[z] = y => z = t.child[s][y] \/ z = t.child[o][y]
  <2>1. (u.mRoot = z) <=> (t.mRoot = z)
    BY <1>5
  <2>2. /\ z = t.child[s][y] => u.parent[z] = x
        /\ z # t.child[s][y] => u.parent[z] = t.parent[z]
    BY <1>4, <1>5
  <2>3. t.parent[z] # Null => \E r \in Sides : t.child[r][t.parent[z]] = z
    BY <1>1, <1>4, ParentOf
  <2>4. /\ t.parent[z] = x => z = t.child[s][x]
        /\ t.parent[z] = y => z = t.child[s][y] \/ z = t.child[o][y]
    BY <1>2, <1>3, <1>4, <1>6, <2>3
  <2> QED BY <2>1, <2>2, <2>4
<1> QED BY <1>2, <1>3, <1>4, <1>9, <1>10, <1>11, <1>12, <1>13, <1>14 DEF Around, AroundIn

LEMMA TurnedAfter ==
    ASSUME NEW t, NEW L, NEW at, Ordered(t, L, at), NEW x \in L, NEW s \in Sides,
           NEW y, y = t.child[Other(s)][x], y # Null, NEW v, Recolored(t, v),
           NEW u, Rotated(v, u, x, y, s), NEW o, o = Other(s)
    PROVE  Around(t, u, L, x, y, s, o)
<1>1. Ordered(v, L, at) /\ v.child = t.child /\ v.parent = t.parent /\ v.mRoot = t.mRoot
  BY RecolorKeeps DEF Recolored
<1>2. Around(v, u, L, x, y, s, o)
  BY <1>1, Turned
<1> QED BY <1>1, <1>2 DEF Around

\* A red child that a rotation puts in its parent's place, with its color,
\* leaves the parent red and the ways down as long as they are.
LEMMA SwapHeights ==
    ASSUME NEW t, NEW L, NEW at, Ordered(t, L, at), NEW x \in L, NEW s \in Sides,
           NEW y, y = t.child[Other(s)][x], y # Null, t.color[y] = "RED",
           NEW v, Recolored(t, v), v.color[y] = t.color[x], v.color[x] = "RED",
           \A z \in L \ {x, y} : v.color[z] = t.color[z],
           NEW u, Rotated(v, u, x, y, s),
           NEW H, NEW p, NEW q \in Sides, Balanced(t, L, H, p, q),
           p # y, p = x => q = s, p \in L => t.child[q][p] # x
    PROVE  Balanced(u, L, [H EXCEPT ![x] = H[y], ![y] = H[x]], p, q)
<1> DEFINE o == Other(s)
           a == t.child[s][x]
           b == t.child[s][y]
           g == t.child[o][y]
           H2 == [H EXCEPT ![x] = H[y], ![y] = H[x]]
           short(z, r) == IF z = p /\ r = q THEN 1 ELSE 0
           one(z) == IF t.color[z] = "RED" THEN 0 ELSE 1
<1>1. Ordered(v, L, at) /\ v.child = t.child /\ v.parent = t.parent /\ v.mRoot = t.mRoot
  BY RecolorKeeps DEF Recolored
<1>2. /\ o \in Sides /\ o # s /\ \A r \in Sides : r = s \/ r = o
      /\ L \subseteq Nodes /\ Null \notin Nodes /\ x # y /\ y \in L
      /\ u.child[s][x] = a /\ u.child[o][x] = b
      /\ u.child[s][y] = x /\ u.child[o][y] = g
      /\ \A d \in {a, b, g} : d # x /\ d # y /\ d \in L \cup {Null}
      /\ \A z \in L \ {x, y}, r \in Sides :
             \/ t.child[r][z] = x /\ u.child[r][z] = y
             \/ /\ t.child[r][z] # x /\ t.child[r][z] # y
                /\ u.child[r][z] = t.child[r][z] /\ u.child[r][z] \in L \cup {Null}
  <2>1. Around(t, u, L, x, y, s, o)
    BY TurnedAfter
  <2> QED BY <2>1 DEF Around, AroundIn
<1>3. u.color = v.color /\ t.child[o][x] = y
  BY DEF Rotated
<1>4. /\ H \in [Pointers -> Nat] /\ H[Null] = 0
      /\ \A z \in L, r \in Sides : H[z] = H[t.child[r][z]] + short(z, r) + one(z)
      /\ \A z \in L \cup {Null} : z \in Pointers /\ H[z] \in Nat
  BY <1>2 DEF Balanced, Pointers
<1>5. \A z, r : short(z, r) \in Nat /\ one(z) \in Nat
  OBVIOUS
<1>6. short(y, s) = 0 /\ short(y, o) = 0 /\ short(x, o) = 0 /\ one(y) = 0
  BY <1>2
<1>7. \A z \in L, r \in Sides : t.child[r][z] = x => short(z, r) = 0
  OBVIOUS
<1>8. /\ H2 \in [Pointers -> Nat] /\ H2[x] = H[y] /\ H2[y] = H[x]
      /\ \A z \in L \cup {Null} : z # x /\ z # y => H2[z] = H[z]
      /\ H2[Null] = 0
  <2>1. x \in Pointers /\ y \in Pointers /\ Null \in Pointers /\ x # Null /\ y # Null /\ x # y
    BY <1>2 DEF Pointers
  <2> QED BY <1>4, <2>1
<1>9. /\ a \in L \cup {Null} /\ b \in L \cup {Null} /\ g \in L \cup {Null}
      /\ a # x /\ a # y /\ b # x /\ b # y /\ g # x /\ g # y
  BY <1>2
<1>10. t.child[s][x] = a /\ t.child[s][y] = b /\ t.child[o][y] = g
  OBVIOUS
<1>11. \A z \in L, r \in Sides :
          (IF u.color[z] = "RED" THEN 0 ELSE 1) = IF z = x THEN 0 ELSE IF z = y THEN one(x) ELSE one(z)
  BY <1>2, <1>3
<1> HIDE DEF o, a, b, g, H2, short, one
<1>12. /\ H[x] = H[a] + short(x, s) + one(x)
       /\ H[x] = H[y] + one(x)
       /\ H[y] = H[b] /\ H[y] = H[g]
  <2>1. /\ H[x] = H[a] + short(x, s) + one(x)
        /\ H[x] = H[y] + short(x, o) + one(x)
        /\ H[y] = H[b] + short(y, s) + one(y)
        /\ H[y] = H[g] + short(y, o) + one(y)
    BY <1>2, <1>3, <1>4, <1>10
  <2> QED BY <1>2, <1>4, <1>5, <1>6, <1>9, <2>1
<1>13. ASSUME NEW z \in L, NEW r \in Sides
       PROVE  H2[z] = H2[u.child[r][z]] + short(z, r)
                      + (IF z = x THEN 0 ELSE IF z = y THEN one(x) ELSE one(z))
  <2>1. CASE z = x /\ r = s
    <3>1. H2[z] = H[y] /\ u.child[r][z] = a /\ H2[a] = H[a] /\ H[a] \in Nat /\ H[y] \in Nat
      BY <1>2, <1>4, <1>8, <1>9, <2>1
    <3>2. H[y] = H[a] + short(x, s)
      BY <1>4, <1>5, <1>12, <3>1
    <3> QED BY <1>5, <2>1, <3>1, <3>2
  <2>2. CASE z = x /\ r = o
    <3>1. H2[z] = H[y] /\ u.child[r][z] = b /\ H2[b] = H[b] /\ H[b] \in Nat
      BY <1>2, <1>4, <1>8, <1>9, <2>2
    <3>2. z # y /\ short(z, r) = 0
      BY <1>2, <1>6, <2>2
    <3>3. (IF z = x THEN 0 ELSE IF z = y THEN one(x) ELSE one(z)) = 0
      BY <2>2
    <3>4. H2[z] = H[b] /\ H2[u.child[r][z]] = H[b]
      BY <1>12, <3>1
    <3>5. H[b] = H[b] + 0 + 0
      BY <3>1
    <3> QED BY <3>2, <3>3, <3>4, <3>5, Zenon
  <2>3. CASE z = y /\ r = s
    <3>1. H2[z] = H[x] /\ u.child[r][z] = x /\ H2[x] = H[y] /\ H[y] \in Nat /\ z # x
      BY <1>2, <1>4, <1>8, <2>3
    <3> QED BY <1>5, <1>6, <1>12, <2>3, <3>1
  <2>4. CASE z = y /\ r = o
    <3>1. H2[z] = H[x] /\ u.child[r][z] = g /\ H2[g] = H[g] /\ H[g] \in Nat /\ z # x
      BY <1>2, <1>4, <1>8, <1>9, <2>4
    <3> QED BY <1>5, <1>6, <1>12, <2>4, <3>1
  <2>5. CASE z # x /\ z # y
    <3>1. H[z] = H[t.child[r][z]] + short(z, r) + one(z) /\ H2[z] = H[z]
      BY <1>4, <1>8, <2>5
    <3>2. H2[u.child[r][z]] = H[t.child[r][z]]
      BY <1>2, <1>8, <2>5
    <3> QED BY <2>5, <3>1, <3>2
  <2> QED BY <1>2, <2>1, <2>2, <2>3, <2>4, <2>5
<1>14. Balanced(u, L, H2, p, q)
  BY <1>8, <1>11, <1>13 DEF Balanced, short
<1> QED BY <1>14 DEF H2

\* The red rule after a rotation that lets a black parent change its color with
\* its red child.
LEMMA SwapColors ==
    ASSUME NEW t, NEW L, NEW at, Ordered(t, L, at), NEW x \in L, NEW s \in Sides,
           NEW y, y = t.child[Other(s)][x], y # Null, t.color[y] = "RED", t.color[x] = "BLACK",
           NEW v, Recolored(t, v), v.color[y] = "BLACK", v.color[x] = "RED",
           \A z \in L \ {x, y} : v.color[z] = t.color[z],
           NEW u, Rotated(v, u, x, y, s),
           t.child[s][x] # Null => t.color[t.child[s][x]] = "BLACK",
           t.child[s][y] # Null => t.color[t.child[s][y]] = "BLACK",
           NEW E, RedRule(t, L, E)
    PROVE  RedRule(u, L, {z \in E : z # y /\ t.parent[z] # y})
<1> DEFINE o == Other(s)
           a == t.child[s][x]
           b == t.child[s][y]
           g == t.child[o][y]
<1>1. Ordered(v, L, at) /\ v.child = t.child /\ v.parent = t.parent /\ v.mRoot = t.mRoot
  BY RecolorKeeps DEF Recolored
<1>2. /\ L \subseteq Nodes /\ Null \notin Nodes /\ x # y /\ y \in L
      /\ u.parent[x] = y /\ u.mRoot # x
      /\ \A z \in L \ {x, y} :
             /\ (u.mRoot = z) <=> (t.mRoot = z)
             /\ z = b => u.parent[z] = x
             /\ z # b => u.parent[z] = t.parent[z]
             /\ t.parent[z] = x => z = a
             /\ t.parent[z] = y => z = b \/ z = g
  <2>1. Around(t, u, L, x, y, s, o)
    BY TurnedAfter
  <2>2. /\ L \subseteq Nodes /\ Null \notin Nodes /\ x # y /\ y \in L
        /\ u.parent[x] = y /\ u.mRoot # x
    BY <2>1 DEF Around, AroundIn
  <2>3. ASSUME NEW z \in L \ {x, y}
        PROVE  /\ (u.mRoot = z) <=> (t.mRoot = z)
               /\ z = b => u.parent[z] = x
               /\ z # b => u.parent[z] = t.parent[z]
               /\ t.parent[z] = x => z = a
               /\ t.parent[z] = y => z = b \/ z = g
    BY <2>1 DEF Around, AroundIn
  <2> QED BY <2>2, <2>3
<1>3. u.color = v.color
  BY DEF Rotated
<1>4. \A z \in L \ {x, y} : u.color[z] = t.color[z]
  BY <1>3
<1>5. u.color[x] = "RED" /\ u.color[y] = "BLACK"
  BY <1>3
<1>6. t.mRoot # Null => t.parent[t.mRoot] = Null
  BY DEF Ordered, Tree, Shape
<1> HIDE DEF o, a, b, g
<1>7. (a # Null => t.color[a] = "BLACK") /\ (b # Null => t.color[b] = "BLACK")
  BY DEF a, b
<1>8. ASSUME NEW z \in L, u.color[z] = "RED"
      PROVE  \/ z \in {w \in E : w # y /\ t.parent[w] # y}
             \/ z # u.mRoot /\ (u.parent[z] \in Nodes => u.color[u.parent[z]] = "BLACK")
  <2>1. CASE z = x
    BY <1>2, <1>5, <2>1
  <2>2. CASE z # x
    <3>1. z # y /\ t.color[z] = "RED" /\ z # Null
      BY <1>2, <1>4, <1>5, <1>8, <2>2
    <3>2. z # a /\ z # b
      BY <1>7, <3>1
    <3>3. u.parent[z] = t.parent[z] /\ t.parent[z] # x
      BY <1>2, <2>2, <3>1, <3>2
    <3>4. CASE t.parent[z] = y
      <4>1. z # t.mRoot
        BY <1>2, <1>6, <3>1, <3>4
      <4> QED BY <1>2, <1>5, <2>2, <3>1, <3>3, <3>4, <4>1
    <3>5. CASE t.parent[z] # y /\ z \in E
      BY <3>1, <3>5
    <3>6. CASE t.parent[z] # y /\ z \notin E
      <4>1. z # t.mRoot /\ (t.parent[z] \in Nodes => t.color[t.parent[z]] = "BLACK")
        BY <3>1, <3>6 DEF RedRule
      <4>2. t.parent[z] \in Nodes => t.parent[z] \in L
        <5>1. PICK lo, hi : Tree(t, L, lo, at, hi)
          BY DEF Ordered
        <5> QED BY <1>2, <5>1, ParentOf
      <4> QED BY <1>2, <1>4, <2>2, <3>1, <3>3, <3>6, <4>1, <4>2
    <3> QED BY <3>4, <3>5, <3>6
  <2> QED BY <2>1, <2>2
<1> QED BY <1>8 DEF RedRule

\* The red rule after a rotation of two red nodes: the one that goes down is
\* the one that now has a red parent.
LEMMA TurnColors ==
    ASSUME NEW t, NEW L, NEW at, Ordered(t, L, at), NEW x \in L, NEW s \in Sides,
           NEW y, y = t.child[Other(s)][x], y # Null, t.color[y] = "RED", t.color[x] = "RED",
           NEW u, Rotated(t, u, x, y, s), RedRule(t, L, {y})
    PROVE  RedRule(u, L, {x})
<1> DEFINE o == Other(s)
           a == t.child[s][x]
           b == t.child[s][y]
           g == t.child[o][y]
<1>2. /\ L \subseteq Nodes /\ Null \notin Nodes /\ x # y /\ y \in L
      /\ u.parent[y] = t.parent[x] /\ t.parent[x] # x /\ t.parent[x] # y
      /\ (u.mRoot = y) <=> (t.mRoot = x)
      /\ \A z \in L \ {x, y} :
             /\ (u.mRoot = z) <=> (t.mRoot = z)
             /\ z = b => u.parent[z] = x
             /\ z # b => u.parent[z] = t.parent[z]
             /\ t.parent[z] = x => z = a
             /\ t.parent[z] = y => z = b \/ z = g
  BY Turned DEF Around, AroundIn
<1>3. u.color = t.color
  BY DEF Rotated
<1>4. PICK lo, hi : Tree(t, L, lo, at, hi)
  BY DEF Ordered
<1>5. t.parent[y] = x /\ (b # Null => b \in L /\ t.parent[b] = y)
  BY <1>4, RotateAround
<1>6. \A z \in L : t.color[z] = "RED" /\ z # y =>
          z # t.mRoot /\ (t.parent[z] \in Nodes => t.color[t.parent[z]] = "BLACK")
  BY DEF RedRule
<1> HIDE DEF o, a, b, g
<1>7. ASSUME NEW z \in L, u.color[z] = "RED", z # x
      PROVE  z # u.mRoot /\ (u.parent[z] \in Nodes => u.color[u.parent[z]] = "BLACK")
  <2>1. CASE z = y
    BY <1>2, <1>3, <1>6, <2>1
  <2>2. CASE z # y
    <3>1. z # t.mRoot /\ (t.parent[z] \in Nodes => t.color[t.parent[z]] = "BLACK")
      BY <1>3, <1>6, <1>7, <2>2
    <3>2. z # b
      BY <1>2, <1>5, <3>1
    <3> QED BY <1>2, <1>3, <1>7, <2>2, <3>1, <3>2
  <2> QED BY <2>1, <2>2
<1> QED BY <1>7 DEF RedRule

-----------------------------------------------------------------------------
(* The iterations of insertFixUp().                                        *)

\* n is red, and may have a red parent or be the root.
Rising(t, L, n) ==
    /\ n \in L /\ t.color[n] = "RED" /\ RedRule(t, L, {n})
    /\ \E H : Balanced(t, L, H, Null, "left")

\* Two paints in a row.
LEMMA PaintTwo ==
    ASSUME NEW t, IsTree(t), NEW x \in Nodes, NEW c \in {"RED", "BLACK"},
           NEW y \in Nodes, NEW d \in {"RED", "BLACK"}
    PROVE  /\ Recolored(t, Paint(Paint(t, x, c), y, d))
           /\ \A z \in Nodes : Paint(Paint(t, x, c), y, d).color[z] =
                  IF z = y THEN d ELSE IF z = x THEN c ELSE t.color[z]
<1>1. PICK v : v = Paint(t, x, c)
  OBVIOUS
<1>2. Recolored(t, v) /\ \A z \in Nodes : v.color[z] = IF z = x THEN c ELSE t.color[z]
  BY <1>1, PaintRecolors
<1>3. IsTree(v)
  BY <1>2 DEF Recolored
<1>4. PICK u : u = Paint(v, y, d)
  OBVIOUS
<1>5. Recolored(v, u) /\ \A z \in Nodes : u.color[z] = IF z = y THEN d ELSE v.color[z]
  BY <1>3, <1>4, PaintRecolors
<1>6. Recolored(t, u) /\ \A z \in Nodes : u.color[z] = IF z = y THEN d ELSE IF z = x THEN c ELSE t.color[z]
  BY <1>2, <1>5 DEF Recolored
<1> QED BY <1>1, <1>4, <1>6

LEMMA InsertAround ==
    ASSUME NEW t, NEW L, NEW at, Ordered(t, L, at), NEW n, Rising(t, L, n), Red(t, t.parent[n])
    PROVE  LET p == t.parent[n]
               g == t.parent[p]
               s == SideOf(t, p)
           IN  /\ p \in L /\ g \in L /\ n \in Nodes /\ p \in Nodes /\ g \in Nodes /\ n # p /\ p # g /\ n # g
               /\ s \in Sides /\ Other(s) \in Sides /\ t.child[s][g] = p /\ t.child[Other(s)][g] # p
               /\ t.child[Other(s)][g] \in L \cup {Null}
               /\ t.color[p] = "RED" /\ t.color[g] = "BLACK" /\ n # t.mRoot /\ p # t.mRoot
               /\ \E r \in Sides : t.child[r][p] = n /\ t.child[Other(r)][p] # n
               /\ p # Null /\ g # Null /\ n # Null
<1> DEFINE p == t.parent[n]
           g == t.parent[p]
           s == SideOf(t, p)
<1>1. PICK lo, hi : Tree(t, L, lo, at, hi)
  BY DEF Ordered
<1>2. n \in L /\ L \subseteq Nodes /\ Null \notin Nodes /\ IsTree(t)
  BY <1>1 DEF Rising, Tree, Shape
<1>3. p # Null /\ t.color[p] = "RED"
  BY DEF Red
<1>4. /\ p \in L /\ p # n /\ n # t.mRoot
      /\ \E r \in Sides : t.child[r][p] = n /\ t.child[Other(r)][p] # n
  BY <1>1, <1>2, <1>3, ParentOf
<1> HIDE DEF p
<1>5. p # t.mRoot /\ (g \in Nodes => t.color[g] = "BLACK")
  BY <1>3, <1>4 DEF Rising, RedRule
<1>6. g # Null
  BY <1>1, <1>4, <1>5, ParentOf
<1>7. /\ g \in L /\ g # p
      /\ \E r \in Sides : t.child[r][g] = p /\ t.child[Other(r)][g] # p
  BY <1>1, <1>4, <1>6, ParentOf
<1> HIDE DEF g
<1>8. s \in Sides /\ t.child[s][g] = p /\ t.child[Other(s)][g] # p
  <2>1. PICK r \in Sides : t.child[r][g] = p /\ t.child[Other(r)][g] # p
    BY <1>7
  <2>2. s = r
    BY <2>1, SidesAre DEF SideOf, g
  <2> QED BY <2>1, <2>2
<1> HIDE DEF s
<1>9. Other(s) \in Sides /\ t.child[Other(s)][g] \in L \cup {Null}
  BY <1>1, <1>7, <1>8, SidesAre DEF Tree, Shape
<1>10. n # g
  BY <1>2, <1>5, <1>7 DEF Rising
<1> QED BY <1>2, <1>3, <1>4, <1>5, <1>6, <1>7, <1>8, <1>9, <1>10 DEF p, g, s

LEMMA InsertRecolorKeeps ==
    ASSUME NEW L, NEW at, Ordered(tree, L, at), Rising(tree, L, node), Violating,
           InsertRecolor(SideOf(tree, tree.parent[node]))
    PROVE  Ordered(tree', L, at) /\ Rising(tree', L, node') /\ Outside(tree, tree', L)
<1> DEFINE p == tree.parent[node]
           g == tree.parent[p]
           s == SideOf(tree, p)
           y == tree.child[Other(s)][g]
<1>1. /\ p \in L /\ g \in L /\ node \in Nodes /\ p \in Nodes /\ g \in Nodes /\ node # p /\ p # g /\ node # g
      /\ s \in Sides /\ Other(s) \in Sides /\ tree.child[s][g] = p /\ y # p
      /\ y \in L \cup {Null}
      /\ tree.color[p] = "RED" /\ tree.color[g] = "BLACK" /\ p # tree.mRoot /\ node # tree.mRoot
      /\ p # Null /\ g # Null
  BY InsertAround, SMTT(30) DEF Violating
<1>2. /\ y # Null /\ tree.color[y] = "RED" /\ node' = g
      /\ tree' = Paint(Paint(Paint(tree, y, "BLACK"), p, "BLACK"), g, "RED")
  BY DEF InsertRecolor, Uncle, GParent, Red
<1>3. /\ y \in L /\ L \subseteq Nodes /\ Null \notin Nodes /\ IsTree(tree)
      /\ \A z \in L, r \in Sides :
           tree.child[r][z] # Null => tree.child[r][z] \in L /\ tree.parent[tree.child[r][z]] = z
      /\ tree.parent[p] = g
      /\ (tree.mRoot # Null => tree.parent[tree.mRoot] = Null)
      /\ \A z \in L \ {tree.mRoot} : tree.parent[z] \in L /\ \E r \in Sides : tree.child[r][tree.parent[z]] = z
  BY <1>1, <1>2 DEF Ordered, Tree, Shape
<1>4. tree.child[Other(s)][g] = y /\ tree.parent[node] = p
  OBVIOUS
<1>5. \A r \in Sides : r = s \/ r = Other(s)
  BY <1>1, SidesAre
<1> HIDE DEF p, g, s, y
<1>6. tree.parent[y] = g /\ y # g
  BY <1>1, <1>2, <1>3, <1>4
<1>7. /\ Recolored(tree, tree')
      /\ \A z \in Nodes : tree'.color[z] = IF z = g THEN "RED" ELSE IF z = p \/ z = y THEN "BLACK"
                                           ELSE tree.color[z]
  <2>1. PICK v : v = Paint(Paint(tree, y, "BLACK"), p, "BLACK")
    OBVIOUS
  <2>2. Recolored(tree, v) /\ \A z \in Nodes : v.color[z] = IF z = p THEN "BLACK"
                                          ELSE IF z = y THEN "BLACK" ELSE tree.color[z]
    BY <1>1, <1>3, <2>1, PaintTwo
  <2>3. IsTree(v) /\ tree' = Paint(v, g, "RED")
    BY <1>2, <2>1, <2>2 DEF Recolored
  <2>4. Recolored(v, tree') /\ \A z \in Nodes : tree'.color[z] = IF z = g THEN "RED" ELSE v.color[z]
    BY <1>1, <2>3, PaintRecolors
  <2> QED BY <2>2, <2>4 DEF Recolored
<1>8. Ordered(tree', L, at) /\ Outside(tree, tree', L)
  BY <1>7, RecolorKeeps
<1>9. /\ tree'.mRoot = tree.mRoot /\ tree'.parent = tree.parent /\ tree'.child = tree.child
  BY <1>7 DEF Recolored
<1>10. RedRule(tree', L, {g})
  <2>1. ASSUME NEW z \in L, tree'.color[z] = "RED", z # g
        PROVE z # tree'.mRoot /\ (tree'.parent[z] \in Nodes => tree'.color[tree'.parent[z]] = "BLACK")
    <3>1. z # p /\ z # y /\ tree.color[z] = "RED"
      BY <1>3, <1>7, <2>1
    <3>2. CASE z = node
      BY <1>1, <1>4, <1>7, <1>9, <3>2
    <3>3. CASE z # node
      <4>1. z # tree.mRoot /\ (tree.parent[z] \in Nodes => tree.color[tree.parent[z]] = "BLACK")
        BY <3>1, <3>3 DEF Rising, RedRule
      <4>2. tree.parent[z] # g
        BY <1>3, <1>4, <1>5, <3>1, <4>1, <1>1
      <4> QED BY <1>7, <1>9, <4>1, <4>2
    <3> QED BY <3>2, <3>3
  <2> QED BY <2>1 DEF RedRule
<1>11. \E H : Balanced(tree', L, H, Null, "left")
  <2>1. PICK H : Balanced(tree, L, H, Null, "left")
    BY DEF Rising
  <2> DEFINE H2 == [H EXCEPT ![p] = H[p] + 1, ![y] = H[y] + 1]
  <2>2. /\ H \in [Pointers -> Nat] /\ H[Null] = 0 /\ p \in Pointers /\ y \in Pointers
        /\ \A z \in L \cup {Null} : z \in Pointers /\ H[z] \in Nat
    BY <1>1, <1>3, <2>1 DEF Balanced, Pointers
  <2>3. \A z \in L, r \in Sides : H[z] = H[tree.child[r][z]] + (IF tree.color[z] = "RED" THEN 0 ELSE 1)
    <3>1. ASSUME NEW z \in L, NEW r \in Sides
          PROVE H[z] = H[tree.child[r][z]] + (IF tree.color[z] = "RED" THEN 0 ELSE 1)
      <4>1. z # Null /\ tree.child[r][z] \in L \cup {Null} /\ H[tree.child[r][z]] \in Nat
        BY <1>3, <2>2
      <4>2. H[z] = H[tree.child[r][z]] + 0 + (IF tree.color[z] = "RED" THEN 0 ELSE 1)
        BY <2>1, <4>1 DEF Balanced
      <4> QED BY <4>1, <4>2
    <3> QED BY <3>1
  <2>4. /\ H2 \in [Pointers -> Nat] /\ H2[p] = H[p] + 1 /\ H2[y] = H[y] + 1 /\ H2[Null] = 0
        /\ \A z \in L \cup {Null} : z # p /\ z # y => H2[z] = H[z]
    BY <1>1, <1>3, <2>2
  <2> HIDE DEF H2
  <2>5. ASSUME NEW z \in L, NEW r \in Sides
        PROVE H2[z] = H2[tree.child[r][z]] + 0 + (IF tree'.color[z] = "RED" THEN 0 ELSE 1)
    <3> DEFINE c == tree.child[r][z]
    <3>0. c \in L \cup {Null} /\ H[c] \in Nat /\ H[z] \in Nat
      BY <1>3, <2>2
    <3>1. CASE z = g
      <4>1. c = p \/ c = y
        BY <1>1, <1>4, <1>5, <3>1
      <4>2. H2[c] = H[c] + 1 /\ H2[z] = H[z] /\ H[z] = H[c] + 1
        BY <1>1, <1>6, <2>3, <2>4, <3>1, <4>1
      <4> QED BY <1>3, <1>7, <3>0, <3>1, <4>2
    <3>2. CASE z = p \/ z = y
      <4>1. c # p /\ c # y
        BY <1>1, <1>3, <1>6, <3>2
      <4>2. H2[c] = H[c] /\ H2[z] = H[z] + 1 /\ H[z] = H[c]
        BY <1>1, <1>2, <2>3, <2>4, <3>0, <3>2, <4>1
      <4> QED BY <1>1, <1>3, <1>6, <1>7, <3>0, <3>2, <4>2
    <3>3. CASE z # g /\ z # p /\ z # y
      <4>1. c # p /\ c # y
        BY <1>1, <1>2, <1>3, <1>6, <3>3
      <4>2. H2[c] = H[c] /\ H2[z] = H[z]
        BY <2>4, <3>0, <3>3, <4>1
      <4>3. H[z] = H[c] + (IF tree.color[z] = "RED" THEN 0 ELSE 1) /\ tree'.color[z] = tree.color[z]
        BY <1>3, <1>7, <2>3, <3>3
      <4> QED BY <3>0, <4>2, <4>3
    <3> QED BY <3>1, <3>2, <3>3
  <2>6. Balanced(tree', L, H2, Null, "left")
    BY <1>3, <1>9, <2>4, <2>5 DEF Balanced
  <2> QED BY <2>6
<1>12. Rising(tree', L, node')
  BY <1>1, <1>2, <1>7, <1>10, <1>11 DEF Rising
<1> QED BY <1>8, <1>12

\* The second rotation: p is red on side s of a black g, and so is n below it.
LEMMA RaiseOuter ==
    ASSUME NEW t, NEW L, NEW at, Ordered(t, L, at), NEW n, Rising(t, L, n),
           NEW p \in L, NEW g \in L, p = t.parent[n], p # g, NEW s \in Sides,
           t.child[s][g] = p, t.child[s][p] = n, t.color[p] = "RED", t.color[g] = "BLACK",
           t.child[Other(s)][g] # Null => t.color[t.child[Other(s)][g]] = "BLACK",
           NEW u, u = RotateTo(Paint(Paint(t, p, "BLACK"), g, "RED"), g, Other(s))
    PROVE  Ordered(u, L, at) /\ Rising(u, L, n) /\ Outside(t, u, L)
<1>1. PICK lo, hi : Tree(t, L, lo, at, hi)
  BY DEF Ordered
<1>2. /\ L \subseteq Nodes /\ Null \notin Nodes /\ IsTree(t) /\ p \in Nodes /\ g \in Nodes
      /\ n \in L /\ n \in Nodes /\ t.color[n] = "RED" /\ RedRule(t, L, {n})
      /\ p # Null
  BY <1>1 DEF Tree, Shape, Rising
<1>3. /\ n # p /\ n # g
  BY <1>1, <1>2, ParentOf
<1>4. PICK o : o = Other(s)
  OBVIOUS
<1>5. o \in Sides /\ Other(o) = s /\ o # s
  BY <1>4, SidesAre
<1>6. PICK v : v = Paint(Paint(t, p, "BLACK"), g, "RED")
  OBVIOUS
<1>7. /\ Recolored(t, v)
      /\ \A z \in Nodes : v.color[z] = IF z = g THEN "RED" ELSE IF z = p THEN "BLACK" ELSE t.color[z]
  BY <1>2, <1>6, PaintTwo
<1>8. Ordered(v, L, at) /\ Outside(t, v, L) /\ v.child = t.child
  BY <1>7, RecolorKeeps DEF Recolored
<1>9. p = v.child[Other(o)][g] /\ p = t.child[Other(o)][g] /\ u = RotateTo(v, g, o)
  BY <1>4, <1>5, <1>6, <1>8
<1>10. Rotated(v, u, g, p, o) /\ Ordered(u, L, at) /\ Outside(v, u, L)
  BY <1>2, <1>5, <1>8, <1>9, RotateKeeps
<1>11. /\ v.color[p] = t.color[g] /\ v.color[g] = "RED" /\ v.color[p] = "BLACK"
       /\ \A z \in L \ {g, p} : v.color[z] = t.color[z]
  BY <1>2, <1>7
<1>12. t.child[o][p] # Null => t.color[t.child[o][p]] = "BLACK"
  <2>1. SUFFICES ASSUME t.child[o][p] # Null
                 PROVE  t.color[t.child[o][p]] = "BLACK"
    OBVIOUS
  <2>2. t.child[o][p] \in L /\ t.parent[t.child[o][p]] = p
    BY <1>1, <1>5, <2>1, Nested
  <2>3. t.child[o][p] # n
    BY <1>1, <1>2, <1>4, ChildrenDiffer
  <2>4. t.color[t.child[o][p]] \in {"RED", "BLACK"}
    BY <1>2, <2>2 DEF IsTree
  <2> QED BY <1>2, <2>2, <2>3, <2>4 DEF RedRule
<1>13. RedRule(u, L, {z \in {n} : z # p /\ t.parent[z] # p})
  BY <1>2, <1>4, <1>5, <1>7, <1>9, <1>10, <1>11, <1>12, SwapColors
<1>14. RedRule(u, L, {n})
  BY <1>13 DEF RedRule
<1>15. \E H : Balanced(u, L, H, Null, "left")
  <2>1. PICK H : Balanced(t, L, H, Null, "left")
    BY DEF Rising
  <2>2. Null # p /\ Null # g /\ Null \notin L /\ "left" \in Sides
    BY <1>2, SidesAre
  <2>3. Balanced(u, L, [H EXCEPT ![g] = H[p], ![p] = H[g]], Null, "left")
    BY <1>2, <1>5, <1>7, <1>9, <1>10, <1>11, <2>1, <2>2, SwapHeights
  <2> QED BY <2>3
<1>16. u.color[n] = "RED"
  BY <1>2, <1>3, <1>7, <1>10 DEF Rotated
<1>17. Outside(t, u, L)
  BY <1>8, <1>10 DEF Outside
<1> QED BY <1>2, <1>10, <1>14, <1>15, <1>16, <1>17 DEF Rising

\* The first rotation: n is on the inner side of its red parent p.
LEMMA RaiseInner ==
    ASSUME NEW t, NEW L, NEW at, Ordered(t, L, at), NEW n, Rising(t, L, n),
           NEW p \in L, NEW g \in L, p = t.parent[n], p # g, n # g, NEW s \in Sides,
           t.child[s][g] = p, t.child[Other(s)][g] # p, t.child[Other(s)][p] = n,
           t.parent[p] = g, t.color[p] = "RED", n # p,
           NEW u, u = RotateTo(t, p, s)
    PROVE  /\ Ordered(u, L, at) /\ Rising(u, L, p) /\ Outside(t, u, L) /\ u.color = t.color
           /\ u.parent[p] = n /\ u.child[s][g] = n /\ u.child[s][n] = p
           /\ u.child[Other(s)][g] = t.child[Other(s)][g]
<1>1. PICK lo, hi : Tree(t, L, lo, at, hi)
  BY DEF Ordered
<1>2. /\ L \subseteq Nodes /\ Null \notin Nodes /\ IsTree(t) /\ p \in Nodes /\ g \in Nodes
      /\ n \in L /\ n \in Nodes /\ t.color[n] = "RED" /\ RedRule(t, L, {n})
      /\ p # Null /\ n # Null
  BY <1>1 DEF Tree, Shape, Rising
<1>3. n = t.child[Other(s)][p]
  OBVIOUS
<1>4. Rotated(t, u, p, n, s) /\ Ordered(u, L, at) /\ Outside(t, u, L)
  BY <1>2, <1>3, RotateKeeps
<1>5. RedRule(u, L, {p})
  BY <1>2, <1>3, <1>4, TurnColors
<1>6. Recolored(t, t)
  BY <1>2 DEF Recolored
<1>7. \E H : Balanced(u, L, H, Null, "left")
  <2>1. PICK H : Balanced(t, L, H, Null, "left")
    BY DEF Rising
  <2>2. Null # p /\ Null # n /\ Null \notin L /\ "left" \in Sides
    BY <1>2, SidesAre
  <2>3. t.color[n] = t.color[p] /\ \A z \in L \ {p, n} : t.color[z] = t.color[z]
    BY <1>2
  <2>4. Balanced(u, L, [H EXCEPT ![p] = H[n], ![n] = H[p]], Null, "left")
    BY <1>2, <1>3, <1>4, <1>6, <2>1, <2>2, <2>3, SwapHeights
  <2> QED BY <2>4
<1>8. /\ u.color = t.color /\ u.parent[p] = n /\ u.child[s][g] = n /\ u.child[s][n] = p
      /\ u.child[Other(s)][g] = t.child[Other(s)][g]
  BY <1>2, <1>4, SidesAre DEF Rotated
<1> QED BY <1>2, <1>4, <1>5, <1>7, <1>8 DEF Rising

LEMMA InsertRotateKeeps ==
    ASSUME NEW L, NEW at, Ordered(tree, L, at), Rising(tree, L, node), Violating,
           InsertRotate(SideOf(tree, tree.parent[node]))
    PROVE  Ordered(tree', L, at) /\ Rising(tree', L, node') /\ Outside(tree, tree', L)
<1> DEFINE p == tree.parent[node]
           g == tree.parent[p]
           s == SideOf(tree, p)
           y == tree.child[Other(s)][g]
           inner == tree.child[Other(s)][p] = node
           t == IF inner THEN RotateTo(tree, p, s) ELSE tree
           top == IF inner THEN node ELSE p
<1>1. /\ p \in L /\ g \in L /\ node \in Nodes /\ p \in Nodes /\ g \in Nodes /\ node # p /\ p # g /\ node # g
      /\ s \in Sides /\ Other(s) \in Sides /\ tree.child[s][g] = p /\ y # p
      /\ y \in L \cup {Null}
      /\ tree.color[p] = "RED" /\ tree.color[g] = "BLACK"
      /\ \E r \in Sides : tree.child[r][p] = node /\ tree.child[Other(r)][p] # node
      /\ p # Null /\ g # Null
  BY InsertAround, SMTT(30) DEF Violating
<1>2. /\ tree' = RotateTo(Paint(Paint(t, top, "BLACK"), g, "RED"), g, Other(s))
      /\ node' = IF inner THEN p ELSE node
      /\ y # Null => tree.color[y] # "RED"
  BY DEF InsertRotate, Uncle, GParent, Black, Red
<1>3. tree.child[Other(s)][g] = y /\ tree.parent[node] = p /\ tree.parent[p] = g
  OBVIOUS
<1>4. /\ inner <=> tree.child[Other(s)][p] = node
      /\ inner => t = RotateTo(tree, p, s) /\ top = node
      /\ ~inner => t = tree /\ top = p
  OBVIOUS
<1>5. L \subseteq Nodes /\ IsTree(tree) /\ tree.color[node] = "RED" /\ node \in L
  BY DEF Ordered, Tree, Shape, Rising
<1>6. y # Null => tree.color[y] = "BLACK"
  BY <1>1, <1>2, <1>5 DEF IsTree
<1> HIDE DEF p, g, s, y, inner, t, top
<1>7. CASE ~inner
  <2>1. tree.child[s][p] = node
    BY <1>1, <1>4, <1>7, SidesAre
  <2> QED BY <1>1, <1>2, <1>3, <1>4, <1>6, <1>7, <2>1, RaiseOuter
<1>8. CASE inner
  <2>1. /\ Ordered(t, L, at) /\ Rising(t, L, p) /\ Outside(tree, t, L) /\ t.color = tree.color
        /\ t.parent[p] = node /\ t.child[s][g] = node /\ t.child[s][node] = p
        /\ t.child[Other(s)][g] = y
    BY <1>1, <1>3, <1>4, <1>8, RaiseInner
  <2>2. tree' = RotateTo(Paint(Paint(t, node, "BLACK"), g, "RED"), g, Other(s)) /\ node' = p
    BY <1>2, <1>4, <1>8
  <2>3. /\ t.color[node] = "RED" /\ t.color[g] = "BLACK"
        /\ t.child[Other(s)][g] # Null => t.color[t.child[Other(s)][g]] = "BLACK"
    BY <1>1, <1>5, <1>6, <2>1
  <2>4. Ordered(tree', L, at) /\ Rising(tree', L, p) /\ Outside(t, tree', L)
    BY <1>1, <1>5, <2>1, <2>2, <2>3, RaiseOuter
  <2> QED BY <2>1, <2>2, <2>4 DEF Outside
<1> QED BY <1>7, <1>8

LEMMA InsertFixUpKeeps ==
    ASSUME NEW L, NEW at, Ordered(tree, L, at), Rising(tree, L, node), InsertFixUp
    PROVE  Ordered(tree', L, at) /\ Rising(tree', L, node') /\ Outside(tree, tree', L)
BY InsertRecolorKeeps, InsertRotateKeeps, Zenon DEF InsertFixUp

-----------------------------------------------------------------------------
(* The iterations of removeFixUp().                                        *)

\* The ways from p to side s, where the black n is, are one black node short.
Lacking(t, L, n, p, s) ==
    /\ p \in L /\ s \in Sides /\ n = t.child[s][p]
    /\ n # Null => t.color[n] = "BLACK"
    /\ RedRule(t, L, {}) /\ \E H : Balanced(t, L, H, p, s)

\* Where removeFixUp() looks for n below p.
Toward(t, p, n) == IF t.child["left"][p] = n THEN "left" ELSE "right"

\* n may be red, and so may its children then; what is short is the way to it.
Mending(t, L, n, p) ==
    /\ n \in L \cup {Null} /\ p \in Pointers
    /\ RedRule(t, L, {n} \cup {x \in L : Red(t, n) /\ t.parent[x] = n})
    /\ n = t.mRoot => \E H : Balanced(t, L, H, Null, "left")
    /\ n # t.mRoot => /\ p \in L /\ t.child[Toward(t, p, n)][p] = n
                      /\ \E H : Balanced(t, L, H, p, Toward(t, p, n))

\* The same where no red node has a red parent.
LEMMA SwapKeepsRule ==
    ASSUME NEW t, NEW L, NEW at, Ordered(t, L, at), NEW x \in L, NEW s \in Sides,
           NEW y, y = t.child[Other(s)][x], y # Null, t.color[y] = "RED", t.color[x] = "BLACK",
           NEW v, Recolored(t, v), v.color[y] = "BLACK", v.color[x] = "RED",
           \A z \in L \ {x, y} : v.color[z] = t.color[z],
           NEW u, Rotated(v, u, x, y, s),
           t.child[s][x] # Null => t.color[t.child[s][x]] = "BLACK",
           t.child[s][y] # Null => t.color[t.child[s][y]] = "BLACK",
           RedRule(t, L, {})
    PROVE  RedRule(u, L, {})
<1>1. RedRule(u, L, {z \in {} : z # y /\ t.parent[z] # y})
  BY SwapColors
<1> QED BY <1>1 DEF RedRule

\* w is the sibling of what is short.
Sibling(t, L, n, p, s, o, w) ==
    /\ o = Other(s) /\ o \in Sides /\ o # s /\ Other(o) = s /\ \A r \in Sides : r = s \/ r = o
    /\ L \subseteq Nodes /\ Null \notin Nodes /\ IsTree(t)
    /\ w = t.child[o][p] /\ w \in L /\ w # p /\ t.parent[w] = p /\ t.parent[p] # w /\ t.parent[p] # p
    /\ n \in L \cup {Null} /\ n # w /\ n # p /\ (n # Null => t.parent[n] = p)
    /\ t.mRoot # w /\ (t.mRoot # Null => t.parent[t.mRoot] = Null)
    /\ \A r \in Sides : LET c == t.child[r][w]
                        IN  c # Null => /\ c \in L /\ t.parent[c] = w /\ c # p /\ c # w /\ c # n
                                        /\ \A q \in Sides : t.child[q][c] # p /\ t.child[q][c] # c
    /\ t.child[s][w] # Null => t.child[s][w] # t.child[o][w]

LEMMA SiblingIs ==
    ASSUME NEW t, NEW L, NEW at, Ordered(t, L, at), NEW n, NEW p, NEW s, Lacking(t, L, n, p, s)
    PROVE  Sibling(t, L, n, p, s, Other(s), t.child[Other(s)][p])
<1>1. PICK lo, hi : Tree(t, L, lo, at, hi)
  BY DEF Ordered
<1>2. PICK w, o : o = Other(s) /\ w = t.child[o][p]
  OBVIOUS
<1>3. /\ p \in L /\ s \in Sides /\ n = t.child[s][p]
      /\ o \in Sides /\ o # s /\ Other(o) = s /\ \A r \in Sides : r = s \/ r = o
      /\ L \subseteq Nodes /\ Null \notin Nodes /\ IsTree(t) /\ Null \notin L
      /\ t.mRoot # Null => t.parent[t.mRoot] = Null
      /\ \A x \in L, r \in Sides : t.child[r][x] \in L \cup {Null}
      /\ \A x \in L : x \in Pointers
      /\ Null \in Pointers
  BY <1>1, <1>2, SidesAre DEF Lacking, Tree, Shape, Pointers
<1>4. w # Null
  <2>1. PICK H : Balanced(t, L, H, p, s)
    BY DEF Lacking
  <2> DEFINE one == IF t.color[p] = "RED" THEN 0 ELSE 1
  <2>2. H[p] = H[n] + 1 + one /\ H[p] = H[w] + 0 + one
    <3>1. H[p] = H[t.child[s][p]] + (IF p = p /\ s = s THEN 1 ELSE 0) + one
      BY <1>3, <2>1 DEF Balanced
    <3>2. H[p] = H[t.child[o][p]] + (IF p = p /\ o = s THEN 1 ELSE 0) + one
      BY <1>3, <2>1 DEF Balanced
    <3> QED BY <1>2, <1>3, <3>1, <3>2
  <2>3. one \in Nat
    OBVIOUS
  <2> HIDE DEF one
  <2>4. n \in Pointers /\ w \in Pointers /\ H[n] \in Nat /\ H[w] \in Nat /\ H[Null] = 0
    BY <1>2, <1>3, <2>1 DEF Balanced
  <2>5. H[w] >= 1
    BY <2>2, <2>3, <2>4
  <2> QED BY <2>4, <2>5
<1>5. w \in L /\ w # p /\ t.parent[w] = p /\ t.parent[p] # w /\ t.parent[p] # p
  BY <1>1, <1>2, <1>3, <1>4, RotateAround
<1>6. n # w
  BY <1>1, <1>2, <1>3, <1>4, ChildrenDiffer
<1>7. n # Null => t.parent[n] = p /\ n # p
  BY <1>1, <1>3, Nested
<1>8. ASSUME NEW r \in Sides, NEW c, c = t.child[r][w], c # Null
      PROVE  /\ c \in L /\ t.parent[c] = w /\ c # p /\ c # w /\ c # n
             /\ \A q \in Sides : t.child[q][c] # p /\ t.child[q][c] # c
  <2>1. c \in L /\ t.parent[c] = w /\ hi[c] - lo[c] < hi[w] - lo[w] /\ lo[c] \in Int /\ hi[c] \in Int
    BY <1>1, <1>5, <1>8, Nested
  <2>2. hi[w] - lo[w] < hi[p] - lo[p] /\ lo[w] \in Int /\ hi[w] \in Int /\ lo[p] \in Int /\ hi[p] \in Int
    BY <1>1, <1>2, <1>3, <1>4, Nested
  <2>3. c # p /\ c # w /\ c # n
    BY <1>5, <1>7, <1>8, <2>1
  <2>4. \A q \in Sides : t.child[q][c] # p /\ t.child[q][c] # c
    <3>1. ASSUME NEW q \in Sides, NEW d, d = t.child[q][c], d # Null PROVE d # p /\ d # c
      <4>1. hi[d] - lo[d] < hi[c] - lo[c] /\ lo[d] \in Int /\ hi[d] \in Int
        BY <1>1, <2>1, <3>1, Nested
      <4> QED BY <2>1, <2>2, <4>1
    <3> QED BY <1>3, <1>8, <2>1, <3>1
  <2> QED BY <2>1, <2>3, <2>4
<1>9. t.mRoot # w
  BY <1>3, <1>5
<1>10. t.child[s][w] # Null => t.child[s][w] # t.child[o][w]
  BY <1>1, <1>2, <1>3, <1>5, ChildrenDiffer
<1>11. Sibling(t, L, n, p, s, o, w)
  <2>1. /\ o = Other(s) /\ o \in Sides /\ o # s /\ Other(o) = s /\ \A r \in Sides : r = s \/ r = o
        /\ L \subseteq Nodes /\ Null \notin Nodes /\ IsTree(t)
    BY <1>2, <1>3
  <2>2. w = t.child[o][p] /\ w \in L /\ w # p /\ t.parent[w] = p /\ t.parent[p] # w /\ t.parent[p] # p
    BY <1>2, <1>5
  <2>3. n \in L \cup {Null} /\ n # w /\ n # p /\ (n # Null => t.parent[n] = p)
    BY <1>3, <1>6, <1>7
  <2>4. t.mRoot # w /\ (t.mRoot # Null => t.parent[t.mRoot] = Null)
    BY <1>3, <1>9
  <2>5. \A r \in Sides : LET c == t.child[r][w]
                         IN  c # Null => /\ c \in L /\ t.parent[c] = w /\ c # p /\ c # w /\ c # n
                                         /\ \A q \in Sides : t.child[q][c] # p /\ t.child[q][c] # c
    BY <1>8
  <2> QED BY ONLY <2>1, <2>2, <2>3, <2>4, <2>5, <1>10 DEF Sibling
<1> QED BY <1>2, <1>11

\* Case 1: a red sibling changes its color with p and goes up.
LEMMA MendRed ==
    ASSUME NEW t, NEW L, NEW at, Ordered(t, L, at), NEW n, NEW p, NEW s, Lacking(t, L, n, p, s),
           NEW o, NEW w, Sibling(t, L, n, p, s, o, w), t.color[w] = "RED",
           NEW u, u = RotateTo(Paint(Paint(t, w, "BLACK"), p, "RED"), p, s)
    PROVE  /\ Ordered(u, L, at) /\ Lacking(u, L, n, p, s) /\ Outside(t, u, L)
           /\ Black(u, u.child[o][p])
<1>3. /\ o \in Sides /\ o # s /\ Other(o) = s /\ \A r \in Sides : r = s \/ r = o
      /\ L \subseteq Nodes /\ Null \notin Nodes /\ IsTree(t)
      /\ o = Other(s) /\ t.child[o][p] = w /\ w \in L /\ w # p /\ t.parent[w] = p /\ t.parent[p] # p
      /\ n \in L \cup {Null} /\ n # w /\ n # p
      /\ \A r \in Sides : t.child[r][w] # Null =>
             /\ t.child[r][w] \in L /\ t.parent[t.child[r][w]] = w /\ t.child[r][w] # p
             /\ t.child[r][w] # w
  BY DEF Sibling
<1>4. /\ p \in L /\ s \in Sides /\ n = t.child[s][p]
      /\ n # Null => t.color[n] = "BLACK"
      /\ RedRule(t, L, {})
  BY DEF Lacking
<1>5. t.color[p] = "BLACK"
  BY <1>3, <1>4 DEF RedRule
<1>6. \A r \in Sides : t.child[r][w] # Null => t.color[t.child[r][w]] = "BLACK"
  <2>1. ASSUME NEW r \in Sides, NEW c, c = t.child[r][w], c # Null PROVE t.color[c] = "BLACK"
    <3>1. c \in L /\ t.parent[c] = w /\ t.color[c] \in {"RED", "BLACK"}
      BY <1>3, <2>1 DEF IsTree
    <3> QED BY <1>3, <1>4, <3>1 DEF RedRule
  <2> QED BY <2>1
<1>7. PICK v : v = Paint(Paint(t, w, "BLACK"), p, "RED")
  OBVIOUS
<1>8. /\ Recolored(t, v)
      /\ \A z \in Nodes : v.color[z] = IF z = p THEN "RED" ELSE IF z = w THEN "BLACK" ELSE t.color[z]
  BY <1>3, <1>4, <1>7, PaintTwo
<1>9. Ordered(v, L, at) /\ Outside(t, v, L) /\ v.child = t.child
  BY <1>8, RecolorKeeps DEF Recolored
<1>10. w # Null /\ w = v.child[Other(s)][p] /\ u = RotateTo(v, p, s)
  BY <1>3, <1>7, <1>9
<1>11. Rotated(v, u, p, w, s) /\ Ordered(u, L, at) /\ Outside(v, u, L)
  BY <1>4, <1>9, <1>10, RotateKeeps
<1>12. /\ v.color[w] = t.color[p] /\ v.color[p] = "RED" /\ v.color[w] = "BLACK"
       /\ \A z \in L \ {p, w} : v.color[z] = t.color[z]
  BY <1>3, <1>4, <1>5, <1>8
<1>13. /\ w = t.child[Other(s)][p] /\ w # Null
       /\ t.child[s][p] # Null => t.color[t.child[s][p]] = "BLACK"
       /\ t.child[s][w] # Null => t.color[t.child[s][w]] = "BLACK"
  BY <1>3, <1>4, <1>6
<1>14. RedRule(u, L, {})
  BY <1>4, <1>5, <1>8, <1>11, <1>12, <1>13, SwapKeepsRule
<1>15. \E H : Balanced(u, L, H, p, s)
  <2>1. PICK H : Balanced(t, L, H, p, s)
    BY DEF Lacking
  <2>2. p # w /\ (p = p => s = s) /\ (p \in L => t.child[s][p] # p)
    BY <1>3, <1>4
  <2>3. Balanced(u, L, [H EXCEPT ![p] = H[w], ![w] = H[p]], p, s)
    BY <1>4, <1>8, <1>11, <1>12, <1>13, <2>1, <2>2, SwapHeights
  <2> QED BY <2>3
<1>16. u.child[s][p] = n /\ u.child[o][p] = t.child[s][w] /\ u.color = v.color
  <2>1. /\ u.color = v.color
        /\ \A r \in Sides :
             u.child[r][p] = IF r = o THEN v.child[s][w] ELSE v.child[r][p]
    BY <1>3, <1>4, <1>9, <1>11 DEF Rotated
  <2> QED BY <1>3, <1>4, <1>9, <2>1
<1>17. n # Null => u.color[n] = "BLACK"
  BY <1>3, <1>4, <1>12, <1>16
<1>18. Black(u, u.child[o][p])
  <2>1. SUFFICES ASSUME t.child[s][w] # Null PROVE u.color[t.child[s][w]] = "BLACK"
    BY <1>16 DEF Black, Red
  <2> QED BY <1>3, <1>4, <1>6, <1>12, <1>16, <2>1
<1>19. Lacking(u, L, n, p, s)
  BY <1>4, <1>14, <1>15, <1>16, <1>17 DEF Lacking
<1>20. Outside(t, u, L)
  BY <1>9, <1>11 DEF Outside
<1> QED BY <1>11, <1>18, <1>19, <1>20

\* Case 3: a red child on the near side changes its color with the sibling and
\* goes up.
LEMMA MendNear ==
    ASSUME NEW t, NEW L, NEW at, Ordered(t, L, at), NEW n, NEW p, NEW s, Lacking(t, L, n, p, s),
           NEW o, NEW w, Sibling(t, L, n, p, s, o, w), Black(t, w),
           Black(t, t.child[o][w]), NEW y, y = t.child[s][w], Red(t, y),
           NEW u, u = RotateTo(Paint(Paint(t, y, "BLACK"), w, "RED"), w, o)
    PROVE  /\ Ordered(u, L, at) /\ Lacking(u, L, n, p, s) /\ Outside(t, u, L)
           /\ Black(u, u.child[o][p]) /\ Red(u, u.child[o][u.child[o][p]])
<1>3. /\ o \in Sides /\ o # s /\ Other(o) = s /\ \A r \in Sides : r = s \/ r = o
      /\ L \subseteq Nodes /\ Null \notin Nodes /\ IsTree(t)
      /\ w \in L /\ w # p /\ t.parent[w] = p /\ t.child[o][p] = w
      /\ n \in L \cup {Null} /\ n # w /\ n # p
      /\ \A r \in Sides : t.child[r][w] # Null =>
             /\ t.child[r][w] \in L /\ t.parent[t.child[r][w]] = w
             /\ t.child[r][w] # p /\ t.child[r][w] # w /\ t.child[r][w] # n
  BY DEF Sibling
<1>4. /\ p \in L /\ s \in Sides /\ n = t.child[s][p]
      /\ n # Null => t.color[n] = "BLACK"
      /\ RedRule(t, L, {})
  BY DEF Lacking
<1>5. y # Null /\ t.color[y] = "RED" /\ y \in L /\ y # p /\ y # w /\ y # n /\ t.parent[y] = w
  BY <1>3, <1>4 DEF Red
<1>6. t.color[w] = "BLACK"
  BY <1>3, <1>4, <1>5 DEF RedRule
<1>7. t.child[o][w] # Null => t.color[t.child[o][w]] = "BLACK"
  <2>1. t.child[o][w] # Null => t.child[o][w] \in L
    BY <1>3
  <2> QED BY <1>3, <2>1 DEF Black, Red, IsTree
<1>8. t.child[o][y] # Null => t.color[t.child[o][y]] = "BLACK"
  <2>1. SUFFICES ASSUME NEW c, c = t.child[o][y], c # Null PROVE t.color[c] = "BLACK"
    OBVIOUS
  <2>2. c \in L /\ t.parent[c] = y
    BY <1>3, <1>5, <2>1 DEF Ordered, Tree, Shape
  <2>3. t.color[c] \in {"RED", "BLACK"}
    BY <1>3, <2>2 DEF IsTree
  <2> QED BY <1>3, <1>4, <1>5, <2>2, <2>3 DEF RedRule
<1>9. PICK v : v = Paint(Paint(t, y, "BLACK"), w, "RED")
  OBVIOUS
<1>10. /\ Recolored(t, v)
       /\ \A z \in Nodes : v.color[z] = IF z = w THEN "RED" ELSE IF z = y THEN "BLACK" ELSE t.color[z]
  BY <1>3, <1>5, <1>9, PaintTwo
<1>11. Ordered(v, L, at) /\ Outside(t, v, L) /\ v.child = t.child /\ v.parent = t.parent
  BY <1>10, RecolorKeeps DEF Recolored
<1>12. y = v.child[Other(o)][w] /\ y = t.child[Other(o)][w] /\ u = RotateTo(v, w, o)
  BY <1>3, <1>9, <1>11
<1>13. Rotated(v, u, w, y, o) /\ Ordered(u, L, at) /\ Outside(v, u, L)
  BY <1>3, <1>5, <1>11, <1>12, RotateKeeps
<1>14. /\ v.color[y] = t.color[w] /\ v.color[w] = "RED" /\ v.color[y] = "BLACK"
       /\ \A z \in L \ {w, y} : v.color[z] = t.color[z]
  BY <1>3, <1>5, <1>6, <1>10
<1>16. RedRule(u, L, {})
  BY <1>3, <1>4, <1>5, <1>6, <1>7, <1>8, <1>10, <1>12, <1>13, <1>14, SwapKeepsRule
<1>17. \E H : Balanced(u, L, H, p, s)
  <2>1. PICK H : Balanced(t, L, H, p, s)
    BY DEF Lacking
  <2>2. p # y /\ (p = w => s = o) /\ (p \in L => t.child[s][p] # w)
    BY <1>3, <1>4, <1>5
  <2>3. Balanced(u, L, [H EXCEPT ![w] = H[y], ![y] = H[w]], p, s)
    BY <1>3, <1>4, <1>5, <1>10, <1>12, <1>13, <1>14, <2>1, <2>2, SwapHeights
  <2> QED BY <2>3
<1>18. u.child[s][p] = n /\ u.child[o][p] = y /\ u.child[o][y] = w /\ u.color = v.color
  BY <1>3, <1>4, <1>5, <1>11, <1>13, SMTT(30) DEF Rotated
<1>19. n # Null => u.color[n] = "BLACK"
  BY <1>3, <1>4, <1>5, <1>14, <1>18, SMTT(30)
<1>20. Black(u, y) /\ Red(u, w)
  BY <1>3, <1>14, <1>18 DEF Black, Red
<1>21. Lacking(u, L, n, p, s)
  BY <1>4, <1>16, <1>17, <1>18, <1>19 DEF Lacking
<1>22. Outside(t, u, L)
  BY <1>11, <1>13 DEF Outside
<1>23. Black(u, u.child[o][p]) /\ Red(u, u.child[o][u.child[o][p]])
  BY <1>18, <1>20
<1> QED BY <1>13, <1>21, <1>22, <1>23

\* Case 2: the sibling has no red child, and becomes red.
LEMMA MendUp ==
    ASSUME NEW t, NEW L, NEW at, Ordered(t, L, at), NEW n, NEW p, NEW s, Lacking(t, L, n, p, s),
           NEW o, NEW w, Sibling(t, L, n, p, s, o, w), Black(t, w),
           \A r \in Sides : Black(t, t.child[r][w]),
           NEW u, u = Paint(t, w, "RED")
    PROVE  Ordered(u, L, at) /\ Mending(u, L, p, t.parent[p]) /\ Outside(t, u, L)
<1> DEFINE q == t.parent[p]
           k == Toward(t, q, p)
           one(z) == IF t.color[z] = "RED" THEN 0 ELSE 1
<1>1. PICK lo, hi : Tree(t, L, lo, at, hi)
  BY DEF Ordered
<1>2. /\ o \in Sides /\ o # s /\ \A r \in Sides : r = s \/ r = o
      /\ L \subseteq Nodes /\ Null \notin Nodes /\ IsTree(t)
      /\ t.child[o][p] = w /\ w \in L /\ w # p /\ t.parent[w] = p /\ q # w /\ q # p
      /\ n \in L \cup {Null} /\ n # w /\ n # p
      /\ t.mRoot # w
      /\ \A r \in Sides : t.child[r][w] # Null =>
             /\ t.child[r][w] \in L /\ t.parent[t.child[r][w]] = w
             /\ t.child[r][w] # p /\ t.child[r][w] # w
  BY DEF Sibling
<1>3. /\ p \in L /\ s \in Sides /\ t.child[s][p] = n
      /\ n # Null => t.color[n] = "BLACK"
      /\ RedRule(t, L, {})
  BY DEF Lacking
<1>4. /\ Recolored(t, u)
      /\ \A z \in Nodes : u.color[z] = IF z = w THEN "RED" ELSE t.color[z]
  BY <1>2, PaintRecolors
<1>5. Ordered(u, L, at) /\ Outside(t, u, L)
  BY <1>4, RecolorKeeps
<1>6. IsTree(u) /\ u.mRoot = t.mRoot /\ u.parent = t.parent /\ u.child = t.child
  BY <1>4 DEF Recolored
<1>7. /\ \A z \in L, r \in Sides :
           t.child[r][z] # Null => t.child[r][z] \in L /\ t.parent[t.child[r][z]] = z
      /\ \A z \in L \ {t.mRoot} : t.parent[z] \in L /\ \E r \in Sides : t.child[r][t.parent[z]] = z
      /\ t.mRoot # Null => t.parent[t.mRoot] = Null
  BY <1>1 DEF Tree, Shape
<1>8. (q = Null) <=> (p = t.mRoot)
  BY <1>1, <1>3, ParentOf
<1>9. p # t.mRoot => q \in L /\ k \in Sides /\ t.child[k][q] = p /\ t.child[Other(k)][q] # p
  <2>1. SUFFICES ASSUME p # t.mRoot
                 PROVE  q \in L /\ k \in Sides /\ t.child[k][q] = p /\ t.child[Other(k)][q] # p
    OBVIOUS
  <2>2. q \in L /\ \E r \in Sides : t.child[r][q] = p /\ t.child[Other(r)][q] # p
    BY <1>1, <1>3, <1>8, <2>1, ParentOf
  <2>3. PICK r \in Sides : t.child[r][q] = p /\ t.child[Other(r)][q] # p
    BY <2>2
  <2>4. k = r
    BY <2>3, SidesAre DEF Toward
  <2> QED BY <2>2, <2>3, <2>4
<1>10. \A z : one(z) \in Nat
  OBVIOUS
<1>11. one(w) = 1
  BY <1>2 DEF Black, Red
<1> HIDE DEF q, k, one
<1>12. RedRule(u, L, {p} \cup {x \in L : Red(u, p) /\ u.parent[x] = p})
  <2>1. ASSUME NEW z \in L, u.color[z] = "RED", z # p, ~(Red(u, p) /\ u.parent[z] = p)
        PROVE  z # u.mRoot /\ (u.parent[z] \in Nodes => u.color[u.parent[z]] = "BLACK")
    <3>1. CASE z = w
      <4>1. u.parent[z] = p /\ z # u.mRoot
        BY <1>2, <1>6, <3>1
      <4>2. p \in Nodes /\ p # Null /\ u.color[p] \in {"RED", "BLACK"}
        BY <1>2, <1>3, <1>6 DEF IsTree
      <4> QED BY <2>1, <4>1, <4>2 DEF Red
    <3>2. CASE z # w
      <4>1. t.color[z] = "RED" /\ z # Null
        BY <1>2, <1>4, <2>1, <3>2
      <4>2. z # t.mRoot /\ (t.parent[z] \in Nodes => t.color[t.parent[z]] = "BLACK")
        BY <1>3, <4>1 DEF RedRule
      <4>3. t.parent[z] # w
        <5>1. SUFFICES ASSUME t.parent[z] = w PROVE FALSE
          OBVIOUS
        <5>2. PICK r \in Sides : t.child[r][w] = z
          BY <1>7, <4>2, <5>1
        <5> QED BY <4>1, <5>2 DEF Black, Red
      <4> QED BY <1>4, <1>6, <4>2, <4>3
    <3> QED BY <3>1, <3>2
  <2> QED BY <2>1 DEF RedRule
<1>13. PICK H : Balanced(t, L, H, p, s)
  BY DEF Lacking
<1> DEFINE H2 == [H EXCEPT ![w] = H[w] - 1, ![p] = H[p] - 1]
<1>14. /\ H \in [Pointers -> Nat] /\ H[Null] = 0 /\ Null \notin L
       /\ \A z \in L \cup {Null} : z \in Pointers /\ H[z] \in Nat
       /\ \A z \in L, r \in Sides : z # p => H[z] = H[t.child[r][z]] + 0 + one(z)
       /\ H[p] = H[n] + 1 + one(p)
       /\ H[p] = H[w] + 0 + one(p)
  <2>1. /\ H \in [Pointers -> Nat] /\ H[Null] = 0 /\ Null \notin L
        /\ \A z \in L \cup {Null} : z \in Pointers
    BY <1>2, <1>13 DEF Balanced, Pointers
  <2>2. \A z \in L, r \in Sides : H[z] = H[t.child[r][z]] + (IF z = p /\ r = s THEN 1 ELSE 0) + one(z)
    BY <1>13 DEF Balanced, one
  <2>3. \A z \in L, r \in Sides : z # p => H[z] = H[t.child[r][z]] + 0 + one(z)
    BY <2>2
  <2>4. H[p] = H[t.child[s][p]] + 1 + one(p) /\ H[p] = H[t.child[o][p]] + 0 + one(p)
    BY <1>2, <1>3, <2>2
  <2> QED BY <1>2, <1>3, <2>1, <2>3, <2>4
<1>15. H[w] = H[n] + 1 /\ H[n] \in Nat /\ H[w] \in Nat /\ H[p] \in Nat /\ H[p] >= 1
  BY <1>2, <1>3, <1>10, <1>14
<1>16. /\ H2 \in [Pointers -> Nat] /\ H2[w] = H[w] - 1 /\ H2[p] = H[p] - 1 /\ H2[Null] = 0
       /\ \A z \in L \cup {Null} : z # w /\ z # p => H2[z] = H[z]
  BY <1>2, <1>3, <1>14, <1>15
<1> HIDE DEF H2
<1>17. ASSUME NEW z \in L, NEW r \in Sides, ~(z = q /\ t.child[r][z] = p)
       PROVE  H2[z] = H2[t.child[r][z]] + 0 + (IF u.color[z] = "RED" THEN 0 ELSE 1)
  <2> DEFINE c == t.child[r][z]
             two == IF u.color[z] = "RED" THEN 0 ELSE 1
  <2>1. c \in L \cup {Null} /\ H[c] \in Nat /\ H[z] \in Nat
    BY <1>7, <1>14
  <2>2. (z = w => two = 0) /\ (z # w => two = one(z))
    BY <1>2, <1>4 DEF one
  <2>3. c = t.child[r][z]
    OBVIOUS
  <2> HIDE DEF c, two
  <2>4. CASE z = w
    <3>1. H2[c] = H[c] /\ H2[z] = H[z] - 1 /\ H[z] = H[c] + 0 + one(z)
      BY <1>2, <1>14, <1>16, <2>1, <2>3, <2>4
    <3>2. H2[z] = H2[c] + 0 + two
      BY <1>11, <2>1, <2>2, <2>4, <3>1
    <3> QED BY <2>3, <3>2 DEF two
  <2>5. CASE z = p
    <3>1. H2[z] = H[p] - 1 /\ two = one(p) /\ H2[n] = H[n] /\ H2[w] = H[n]
      BY <1>2, <1>15, <1>16, <2>2, <2>5
    <3>2. c = n \/ c = w
      BY <1>2, <1>3, <2>3, <2>5
    <3>3. H2[c] = H[n]
      BY <3>1, <3>2
    <3>4. H2[z] = H2[c] + 0 + two
      BY <1>10, <1>14, <1>15, <3>1, <3>3
    <3> QED BY <2>3, <3>4 DEF two
  <2>6. CASE z # w /\ z # p
    <3>1. c # w /\ c # p
      BY <1>2, <1>7, <1>17, <2>3, <2>6, <1>14, <1>3 DEF q
    <3>2. H2[c] = H[c] /\ H2[z] = H[z] /\ H[z] = H[c] + 0 + one(z) /\ two = one(z)
      BY <1>14, <1>16, <2>1, <2>2, <2>3, <2>6, <3>1
    <3> QED BY <2>3, <3>2 DEF two
  <2> QED BY <2>4, <2>5, <2>6
<1>18. ASSUME NEW r \in Sides, q \in L, t.child[r][q] = p
       PROVE  H2[q] = H2[p] + 1 + (IF u.color[q] = "RED" THEN 0 ELSE 1)
  <2>1. H2[q] = H[q] /\ H[q] = H[p] + 0 + one(q) /\ H2[p] = H[p] - 1
    BY <1>2, <1>14, <1>16, <1>18
  <2>2. (IF u.color[q] = "RED" THEN 0 ELSE 1) = one(q)
    BY <1>2, <1>4, <1>18 DEF one
  <2>3. H[p] - 1 + 1 + one(q) = H[p] + 0 + one(q)
    BY <1>10, <1>15
  <2> QED BY <2>1, <2>2, <2>3
<1>19. p = u.mRoot => \E G : Balanced(u, L, G, Null, "left")
  <2>1. SUFFICES ASSUME p = u.mRoot PROVE Balanced(u, L, H2, Null, "left")
    OBVIOUS
  <2>2. q \notin L
    BY <1>6, <1>8, <1>14, <2>1
  <2> QED BY <1>6, <1>14, <1>16, <1>17, <2>2 DEF Balanced
<1>20. p # u.mRoot => q \in L /\ u.child[k][q] = p /\ \E G : Balanced(u, L, G, q, k)
  <2>1. SUFFICES ASSUME p # u.mRoot PROVE q \in L /\ u.child[k][q] = p /\ Balanced(u, L, H2, q, k)
    OBVIOUS
  <2>2. q \in L /\ k \in Sides /\ t.child[k][q] = p /\ t.child[Other(k)][q] # p
    BY <1>6, <1>9, <2>1
  <2>3. \A r \in Sides : t.child[r][q] = p <=> r = k
    BY <2>2, SidesAre
  <2>4. ASSUME NEW z \in L, NEW r \in Sides
        PROVE  H2[z] = H2[u.child[r][z]] + (IF z = q /\ r = k THEN 1 ELSE 0)
                                         + (IF u.color[z] = "RED" THEN 0 ELSE 1)
    <3>1. CASE z = q /\ r = k
      BY <1>6, <1>18, <2>2, <3>1
    <3>2. CASE ~(z = q /\ r = k)
      <4>1. H2[z] = H2[t.child[r][z]] + 0 + (IF u.color[z] = "RED" THEN 0 ELSE 1)
        BY <1>17, <2>3, <3>2
      <4> QED BY <1>6, <3>2, <4>1
    <3> QED BY <3>1, <3>2
  <2>5. Balanced(u, L, H2, q, k)
    BY <1>16, <2>4 DEF Balanced
  <2> QED BY <1>6, <2>2, <2>5
<1>21. Toward(u, q, p) = k
  BY <1>6 DEF Toward, k
<1>22. Mending(u, L, p, q)
  <2>1. q \in Pointers
    BY <1>2, <1>3 DEF IsTree, q
  <2> QED BY <1>3, <1>12, <1>19, <1>20, <1>21, <2>1 DEF Mending
<1> QED BY <1>5, <1>22 DEF q

\* Case 4: a red child on the far side becomes black, p goes down as a black node,
\* and the sibling comes to its place with its color.
LEMMA MendFar ==
    ASSUME NEW t, NEW L, NEW at, Ordered(t, L, at), NEW n, NEW p, NEW s, Lacking(t, L, n, p, s),
           NEW o, NEW w, Sibling(t, L, n, p, s, o, w), Black(t, w),
           NEW f, f = t.child[o][w], Red(t, f),
           NEW v, Recolored(t, v),
           \A z \in Nodes : v.color[z] = IF z = w THEN t.color[p]
                                         ELSE IF z = p \/ z = f THEN "BLACK" ELSE t.color[z],
           NEW u, u = RotateTo(v, p, s)
    PROVE  /\ Ordered(u, L, at) /\ Outside(t, u, L) /\ RedRule(u, L, {})
           /\ \E H : Balanced(u, L, H, Null, "left")
<1> DEFINE q == t.parent[p]
           b == t.child[s][w]
           one(z) == IF t.color[z] = "RED" THEN 0 ELSE 1
           two(z) == IF u.color[z] = "RED" THEN 0 ELSE 1
<1>1. PICK lo, hi : Tree(t, L, lo, at, hi)
  BY DEF Ordered
<1>2. /\ o \in Sides /\ o # s /\ o = Other(s) /\ \A r \in Sides : r = s \/ r = o
      /\ L \subseteq Nodes /\ Null \notin Nodes /\ IsTree(t)
      /\ t.child[o][p] = w /\ w \in L /\ w # p /\ w # Null /\ t.parent[w] = p
      /\ n \in L \cup {Null} /\ n # w /\ n # p
      /\ \A r \in Sides : t.child[r][w] # Null =>
             /\ t.child[r][w] \in L /\ t.parent[t.child[r][w]] = w
             /\ t.child[r][w] # p /\ t.child[r][w] # w /\ t.child[r][w] # n
             /\ \A k \in Sides : t.child[k][t.child[r][w]] # p
      /\ b # Null => b # f
  BY DEF Sibling
<1>3. /\ p \in L /\ s \in Sides /\ t.child[s][p] = n
      /\ n # Null => t.color[n] = "BLACK"
      /\ RedRule(t, L, {})
  BY DEF Lacking
<1>4. /\ f \in L /\ f # Null /\ t.color[f] = "RED" /\ t.parent[f] = w /\ f # p /\ f # w /\ f # n /\ f # b
      /\ \A k \in Sides : t.child[k][f] # p
  BY <1>2 DEF Red
<1>5. b \in L \cup {Null} /\ b # w /\ b # p
  BY <1>2, <1>3
<1>6. /\ \A z \in L, r \in Sides :
           t.child[r][z] # Null => t.child[r][z] \in L /\ t.parent[t.child[r][z]] = z
      /\ \A z \in L \ {t.mRoot} : t.parent[z] \in L /\ \E r \in Sides : t.child[r][t.parent[z]] = z
      /\ t.mRoot # Null => t.parent[t.mRoot] = Null
  BY <1>1 DEF Tree, Shape
<1>7. Ordered(v, L, at) /\ Outside(t, v, L) /\ v.child = t.child /\ v.parent = t.parent /\ v.mRoot = t.mRoot
  BY RecolorKeeps DEF Recolored
<1>8. w = v.child[Other(s)][p]
  BY <1>2, <1>7
<1>9. Rotated(v, u, p, w, s) /\ Ordered(u, L, at) /\ Outside(v, u, L)
  BY <1>2, <1>3, <1>7, <1>8, RotateKeeps
<1>10. Outside(t, u, L)
  BY <1>7, <1>9 DEF Outside
<1>11. Around(v, u, L, p, w, s, o)
  BY <1>2, <1>3, <1>7, <1>8, <1>9, Turned
<1>12. /\ u.child[s][p] = n /\ u.child[o][p] = b /\ u.child[s][w] = p /\ u.child[o][w] = f
       /\ \A z \in L \ {p, w}, r \in Sides :
             \/ t.child[r][z] = p /\ u.child[r][z] = w
             \/ /\ t.child[r][z] # p /\ t.child[r][z] # w
                /\ u.child[r][z] = t.child[r][z] /\ u.child[r][z] \in L \cup {Null}
       /\ u.parent[p] = w /\ u.parent[w] = q
       /\ (u.mRoot = w) <=> (t.mRoot = p)
       /\ u.mRoot # p
       /\ \A z \in L \ {p, w} :
             /\ (u.mRoot = z) <=> (t.mRoot = z)
             /\ z = b => u.parent[z] = p
             /\ z # b => u.parent[z] = t.parent[z]
             /\ t.parent[z] = p => z = n
             /\ t.parent[z] = w => z = b \/ z = f
  BY <1>3, <1>7, <1>11 DEF Around, AroundIn
<1>13. \A z \in Nodes : u.color[z] = IF z = w THEN t.color[p]
                                     ELSE IF z = p \/ z = f THEN "BLACK" ELSE t.color[z]
  BY <1>9 DEF Rotated
<1>14. p # t.mRoot => q \in L /\ q # p /\ q # w
  BY <1>1, <1>2, <1>3, ParentOf DEF Sibling
<1>15. p = t.mRoot => q = Null
  BY <1>1, <1>3, ParentOf
<1>16. (\A z : one(z) \in Nat) /\ one(w) = 1 /\ one(f) = 0 /\ two(w) = one(p) /\ two(p) = 1 /\ two(f) = 1
  BY <1>2, <1>3, <1>4, <1>13 DEF Black, Red
<1>17. \A z \in L \ {p, w, f} : u.color[z] = t.color[z] /\ two(z) = one(z)
  BY <1>2, <1>13
<1>18. u.color[w] = t.color[p] /\ u.color[p] = "BLACK" /\ u.color[f] = "BLACK"
  BY <1>2, <1>3, <1>4, <1>13
<1> HIDE DEF q, b, one, two
<1>19. RedRule(u, L, {})
  <2>1. \A z \in L : t.color[z] = "RED" =>
            z # t.mRoot /\ (t.parent[z] \in Nodes => t.color[t.parent[z]] = "BLACK")
    BY <1>3 DEF RedRule
  <2>2. ASSUME NEW z \in L, u.color[z] = "RED"
        PROVE  z # u.mRoot /\ (u.parent[z] \in Nodes => u.color[u.parent[z]] = "BLACK")
    <3>1. z # p /\ z # f
      BY <1>18, <2>2
    <3>2. CASE z = w
      <4>1. t.color[p] = "RED"
        BY <1>18, <2>2, <3>2
      <4>2. p # t.mRoot /\ (q \in Nodes => t.color[q] = "BLACK")
        BY <1>3, <2>1, <4>1 DEF q
      <4>3. q \in L /\ q # p /\ q # w /\ t.color[q] = "BLACK"
        BY <1>2, <1>14, <4>2
      <4>4. u.color[q] = "BLACK"
        BY <1>17, <1>18, <4>3
      <4> QED BY <1>12, <3>2, <4>2, <4>4
    <3>3. CASE z # w
      <4>1. t.color[z] = "RED" /\ z # Null
        BY <1>2, <1>17, <2>2, <3>1, <3>3
      <4>2. z # t.mRoot /\ (t.parent[z] \in Nodes => t.color[t.parent[z]] = "BLACK")
        BY <2>1, <4>1
      <4>3. z # u.mRoot
        BY <1>12, <3>1, <3>3, <4>2
      <4>4. CASE z = b
        BY <1>12, <1>18, <3>1, <3>3, <4>3, <4>4
      <4>5. CASE z # b
        <5>1. u.parent[z] = t.parent[z] /\ t.parent[z] # p /\ t.parent[z] # w
          BY <1>3, <1>12, <3>1, <3>3, <4>1, <4>5
        <5>2. t.parent[z] \in L
          BY <1>6, <4>2
        <5>3. u.color[t.parent[z]] = "BLACK"
          BY <1>2, <1>17, <1>18, <4>2, <5>1, <5>2
        <5> QED BY <4>3, <5>1, <5>3
      <4> QED BY <4>4, <4>5
    <3> QED BY <3>2, <3>3
  <2> QED BY <2>2 DEF RedRule
<1>20. PICK H : Balanced(t, L, H, p, s)
  BY DEF Lacking
<1> DEFINE H2 == [H EXCEPT ![w] = H[p], ![p] = H[w], ![f] = H[f] + 1]
<1>21. /\ H \in [Pointers -> Nat] /\ H[Null] = 0 /\ Null \notin L
       /\ \A z \in L \cup {Null} : z \in Pointers /\ H[z] \in Nat
       /\ \A z \in L, r \in Sides : z # p => H[z] = H[t.child[r][z]] + one(z)
       /\ H[p] = H[n] + 1 + one(p)
       /\ H[p] = H[w] + one(p)
  <2>1. /\ H \in [Pointers -> Nat] /\ H[Null] = 0 /\ Null \notin L
        /\ \A z \in L \cup {Null} : z \in Pointers /\ H[z] \in Nat
    BY <1>2, <1>20 DEF Balanced, Pointers
  <2>2. \A z \in L, r \in Sides : H[z] = H[t.child[r][z]] + (IF z = p /\ r = s THEN 1 ELSE 0) + one(z)
    BY <1>20 DEF Balanced, one
  <2>3. ASSUME NEW z \in L, NEW r \in Sides, z # p PROVE H[z] = H[t.child[r][z]] + one(z)
    <3>1. H[z] = H[t.child[r][z]] + 0 + one(z)
      BY <2>2, <2>3
    <3>2. t.child[r][z] \in L \cup {Null}
      BY <1>6
    <3> QED BY <2>1, <3>1, <3>2
  <2>4. H[p] = H[t.child[s][p]] + 1 + one(p) /\ H[p] = H[t.child[o][p]] + 0 + one(p)
    BY <1>2, <1>3, <2>2
  <2>5. H[p] = H[w] + one(p)
    BY <1>2, <2>1, <2>4
  <2> QED BY <1>3, <2>1, <2>3, <2>4, <2>5
<1>22. /\ H[w] = H[n] + 1 /\ H[n] \in Nat /\ H[w] \in Nat /\ H[p] \in Nat /\ H[f] \in Nat
       /\ H[w] = H[b] + 1 /\ H[w] = H[f] + 1 /\ H[b] \in Nat
  <2>1. H[w] = H[b] + one(w) /\ H[w] = H[f] + one(w)
    BY <1>2, <1>3, <1>21 DEF b
  <2> QED BY <1>2, <1>3, <1>4, <1>5, <1>16, <1>21, <2>1
<1>23. /\ H2 \in [Pointers -> Nat] /\ H2[w] = H[p] /\ H2[p] = H[w] /\ H2[f] = H[f] + 1 /\ H2[Null] = 0
       /\ \A z \in L \cup {Null} : z # w /\ z # p /\ z # f => H2[z] = H[z]
  BY <1>2, <1>3, <1>4, <1>21, <1>22, SMTT(30)
<1> HIDE DEF H2
<1>24. ASSUME NEW z \in L, NEW r \in Sides
       PROVE  H2[z] = H2[u.child[r][z]] + 0 + two(z)
  <2>1. CASE z = p
    <3>1. H2[u.child[r][z]] = H[n] \/ H2[u.child[r][z]] = H[b]
      BY <1>2, <1>3, <1>4, <1>5, <1>12, <1>21, <1>23, <2>1, SMTT(30)
    <3>2. H[n] + 1 = H[b] + 1 /\ H2[z] = H[w] /\ two(z) = 1
      BY <1>16, <1>22, <1>23, <2>1
    <3>3. H2[u.child[r][z]] = H[n]
      BY <1>22, <3>1, <3>2
    <3> QED BY <1>22, <3>2, <3>3
  <2>2. CASE z = w
    <3>1. H2[u.child[r][z]] = H[w]
      BY <1>2, <1>12, <1>22, <1>23, <2>2
    <3>2. H2[z] = H[w] + one(p) /\ two(z) = one(p)
      BY <1>16, <1>21, <1>23, <2>2
    <3> QED BY <1>16, <1>22, <3>1, <3>2
  <2>3. CASE z = f
    <3>1. /\ t.child[r][z] # p /\ t.child[r][z] # w /\ t.child[r][z] # f
          /\ u.child[r][z] = t.child[r][z] /\ u.child[r][z] \in L \cup {Null}
      <4>1. t.child[r][z] # f
        <5>1. t.child[r][f] # Null => t.parent[t.child[r][f]] = f
          BY <1>4, <1>6
        <5> QED BY <1>4, <2>3, <5>1
      <4> QED BY <1>4, <1>12, <2>3, <4>1
    <3>2. H[z] = H[t.child[r][z]] + 0 /\ H2[t.child[r][z]] = H[t.child[r][z]] /\ H[t.child[r][z]] \in Nat
      BY <1>4, <1>16, <1>21, <1>23, <2>3, <3>1, SMTT(30)
    <3>3. H2[z] = H[z] + 1 /\ two(z) = 1
      BY <1>16, <1>23, <2>3
    <3> QED BY <3>1, <3>2, <3>3
  <2>4. CASE z # p /\ z # w /\ z # f
    <3>1. H2[z] = H[z] /\ H[z] = H[t.child[r][z]] + one(z) /\ two(z) = one(z)
      BY <1>17, <1>21, <1>23, <2>4
    <3>2. t.child[r][z] # f
      BY <1>4, <1>6, <2>4
    <3>3. H2[u.child[r][z]] = H[t.child[r][z]] /\ H[t.child[r][z]] \in Nat
      <4>1. CASE t.child[r][z] = p /\ u.child[r][z] = w
        BY <1>22, <1>23, <4>1
      <4>2. CASE /\ t.child[r][z] # p /\ t.child[r][z] # w
                 /\ u.child[r][z] = t.child[r][z] /\ u.child[r][z] \in L \cup {Null}
        BY <1>21, <1>23, <3>2, <4>2
      <4> QED BY <1>12, <2>4, <4>1, <4>2
    <3> QED BY <1>16, <3>1, <3>3
  <2> QED BY <2>1, <2>2, <2>3, <2>4
<1>25. Balanced(u, L, H2, Null, "left")
  <2>1. ASSUME NEW z \in L, NEW r \in Sides
        PROVE  H2[z] = H2[u.child[r][z]] + (IF z = Null /\ r = "left" THEN 1 ELSE 0)
                                         + (IF u.color[z] = "RED" THEN 0 ELSE 1)
    <3>1. (IF z = Null /\ r = "left" THEN 1 ELSE 0) = 0
      BY <1>21
    <3> QED BY <1>24, <3>1 DEF two
  <2> QED BY <1>23, <2>1 DEF Balanced
<1> QED BY <1>9, <1>10, <1>19, <1>25

LEMMA RemoveRepairKeeps ==
    ASSUME NEW t, NEW L, NEW at, Ordered(t, L, at), NEW n, NEW s, Lacking(t, L, n, par, s),
           Black(t, t.child[Other(s)][par]), RemoveRepair(t, s)
    PROVE  Ordered(tree', L, at) /\ Mending(tree', L, node', par') /\ Outside(t, tree', L)
<1>1. PICK o, w : o = Other(s) /\ w = t.child[o][par]
  OBVIOUS
<1>2. Sibling(t, L, n, par, s, o, w) /\ Black(t, w)
  BY <1>1, SiblingIs
<1>3. PICK far, near : far = t.child[o][w] /\ near = t.child[s][w]
  OBVIOUS
<1>4. CASE Black(t, near) /\ Black(t, far)
  <2>1. tree' = Paint(t, w, "RED") /\ node' = par /\ par' = t.parent[par]
    BY <1>1, <1>3, <1>4 DEF RemoveRepair
  <2>2. \A r \in Sides : Black(t, t.child[r][w])
    BY <1>2, <1>3, <1>4 DEF Sibling
  <2> QED BY <1>2, <2>1, <2>2, MendUp
<1>5. CASE ~(Black(t, near) /\ Black(t, far))
  <2>1. PICK t1 : t1 = IF Red(t, far) THEN t
                       ELSE RotateTo(Paint(Paint(t, near, "BLACK"), w, "RED"), w, o)
    OBVIOUS
  <2>2. PICK sib : sib = t1.child[o][par]
    OBVIOUS
  <2>3. PICK t2 : t2 = Paint(Paint(t1, sib, t1.color[par]), par, "BLACK")
    OBVIOUS
  <2>4. PICK f : f = t2.child[o][sib]
    OBVIOUS
  <2>5. PICK v : v = Paint(t2, f, "BLACK")
    OBVIOUS
  <2>6. tree' = RotateTo(v, par, s) /\ node' = tree'.mRoot
    BY <1>1, <1>3, <1>5, <2>1, <2>2, <2>3, <2>4, <2>5 DEF RemoveRepair
  <2>7. /\ Ordered(t1, L, at) /\ Lacking(t1, L, n, par, s) /\ Outside(t, t1, L)
        /\ Black(t1, sib) /\ Red(t1, t1.child[o][sib])
    <3>1. CASE Red(t, far)
      BY <1>2, <1>3, <1>1, <2>1, <2>2, <3>1 DEF Outside
    <3>2. CASE ~Red(t, far)
      <4>1. Black(t, far) /\ Red(t, near)
        BY <1>5, <3>2 DEF Black
      <4>2. t1 = RotateTo(Paint(Paint(t, near, "BLACK"), w, "RED"), w, o)
        BY <2>1, <3>2
      <4> QED BY <1>2, <1>3, <2>2, <4>1, <4>2, MendNear
    <3> QED BY <3>1, <3>2
  <2>8. Sibling(t1, L, n, par, s, o, sib)
    BY <1>1, <2>2, <2>7, SiblingIs
  <2>9. /\ L \subseteq Nodes /\ IsTree(t1) /\ sib \in L /\ par \in L
        /\ t1.child[o][sib] # Null => t1.child[o][sib] \in L
        /\ sib # par
    BY <2>7, <2>8 DEF Sibling, Lacking
  <2>10. t1.color[par] \in {"RED", "BLACK"} /\ t1.child[o][sib] \in L /\ t1.child[o][sib] # sib
    BY <2>7, <2>8, <2>9 DEF IsTree, Red, Sibling
  <2>11. /\ Recolored(t1, t2)
         /\ \A z \in Nodes : t2.color[z] = IF z = par THEN "BLACK"
                                           ELSE IF z = sib THEN t1.color[par] ELSE t1.color[z]
    BY <2>3, <2>9, <2>10, PaintTwo
  <2>12. f = t1.child[o][sib] /\ IsTree(t2) /\ f \in Nodes
    BY <2>4, <2>9, <2>10, <2>11 DEF Recolored
  <2>13. Recolored(t2, v) /\ \A z \in Nodes : v.color[z] = IF z = f THEN "BLACK" ELSE t2.color[z]
    BY <2>5, <2>12, PaintRecolors
  <2>14. Recolored(t1, v)
    BY <2>11, <2>13 DEF Recolored
  <2>15. \A z \in Nodes : v.color[z] = IF z = sib THEN t1.color[par]
                                       ELSE IF z = par \/ z = f THEN "BLACK" ELSE t1.color[z]
    BY <2>9, <2>10, <2>11, <2>12, <2>13
  <2>16. Red(t1, f)
    BY <2>7, <2>12
  <2>17. /\ Ordered(tree', L, at) /\ Outside(t1, tree', L) /\ RedRule(tree', L, {})
         /\ \E H : Balanced(tree', L, H, Null, "left")
    BY <2>6, <2>7, <2>8, <2>12, <2>14, <2>15, <2>16, MendFar
  <2>18. Outside(t, tree', L)
    BY <2>7, <2>17 DEF Outside
  <2>19. node' \in L \cup {Null}
    BY <2>6, <2>17 DEF Ordered, Tree, Shape
  <2>20. Mending(tree', L, node', par')
    <3>1. RedRule(tree', L, {node'} \cup {x \in L : Red(tree', node') /\ tree'.parent[x] = node'})
      BY <2>17 DEF RedRule
    <3>2. par' = par /\ par \in Pointers
      BY <1>1, <1>3, <1>5, <2>1, <2>9 DEF RemoveRepair, Pointers
    <3> QED BY <2>6, <2>17, <2>19, <3>1, <3>2 DEF Mending
  <2> QED BY <2>17, <2>18, <2>20
<1> QED BY <1>4, <1>5

LEMMA MendingLacks ==
    ASSUME NEW t, NEW L, NEW at, Ordered(t, L, at), NEW n, NEW p, Mending(t, L, n, p),
           Black(t, n), n # t.mRoot
    PROVE  Lacking(t, L, n, p, Toward(t, p, n))
<1>1. Toward(t, p, n) \in Sides
  BY SidesAre DEF Toward
<1>2. L \subseteq Nodes /\ Null \notin Nodes /\ IsTree(t)
  BY DEF Ordered, Tree, Shape
<1>3. n # Null => t.color[n] = "BLACK"
  BY <1>2 DEF Mending, Black, Red, IsTree
<1>4. RedRule(t, L, {})
  <2>1. ~Red(t, n)
    BY DEF Black
  <2>2. \A z \in L : t.color[z] = "RED" => z # n
    BY <1>2, <1>3
  <2> QED BY <2>1, <2>2 DEF Mending, RedRule
<1> QED BY <1>1, <1>3, <1>4 DEF Mending, Lacking

LEMMA RemoveFixUpKeeps ==
    ASSUME NEW L, NEW at, Ordered(tree, L, at), Mending(tree, L, node, par), RemoveFixUp
    PROVE  Ordered(tree', L, at) /\ Mending(tree', L, node', par') /\ Outside(tree, tree', L)
<1>1. PICK s : s = Toward(tree, par, node)
  OBVIOUS
<1>2. PICK w : w = tree.child[Other(s)][par]
  OBVIOUS
<1>3. PICK t : t = IF Red(tree, w) THEN RotateTo(Paint(Paint(tree, w, "BLACK"), par, "RED"), par, s)
                   ELSE tree
  OBVIOUS
<1>4. RemoveRepair(t, s) /\ Missing
  BY <1>1, <1>2, <1>3 DEF RemoveFixUp, Toward
<1>5. Lacking(tree, L, node, par, s)
  BY <1>1, <1>4, MendingLacks DEF Missing
<1>6. Sibling(tree, L, node, par, s, Other(s), w)
  BY <1>2, <1>5, SiblingIs
<1>7. /\ Ordered(t, L, at) /\ Lacking(t, L, node, par, s) /\ Outside(tree, t, L)
      /\ Black(t, t.child[Other(s)][par])
  <2>1. CASE Red(tree, w)
    <3>1. tree.color[w] = "RED" /\ t = RotateTo(Paint(Paint(tree, w, "BLACK"), par, "RED"), par, s)
      BY <1>3, <2>1 DEF Red
    <3> QED BY <1>5, <1>6, <3>1, MendRed
  <2>2. CASE ~Red(tree, w)
    BY <1>2, <1>3, <1>5, <2>2 DEF Outside, Black
  <2> QED BY <2>1, <2>2
<1>8. Ordered(tree', L, at) /\ Mending(tree', L, node', par') /\ Outside(t, tree', L)
  BY <1>4, <1>7, RemoveRepairKeeps
<1> QED BY <1>7, <1>8 DEF Outside

-----------------------------------------------------------------------------
(* The ends of insertFixUp() and removeFixUp().                            *)

\* Nothing is under repair.
Clean(t, L) == RedRule(t, L, {}) /\ \E H : Balanced(t, L, H, Null, "left")

\* A red node that becomes black gives the ways down to it what they lack, or
\* each way down one more if it is the root.
LEMMA Blacken ==
    ASSUME NEW t, NEW L, NEW at, Ordered(t, L, at), NEW x \in L, NEW p, NEW s \in Sides,
           NEW H, Balanced(t, L, H, p, s),
           \/ x = t.mRoot /\ p = Null
           \/ x # t.mRoot /\ p = t.parent[x] /\ t.child[s][p] = x,
           NEW u, Recolored(t, u), t.color[x] = "RED",
           \A z \in Nodes : u.color[z] = IF z = x THEN "BLACK" ELSE t.color[z]
    PROVE  \E G : Balanced(u, L, G, Null, "left")
<1> DEFINE G == [H EXCEPT ![x] = H[x] + 1]
           one(z) == IF t.color[z] = "RED" THEN 0 ELSE 1
           two(z) == IF u.color[z] = "RED" THEN 0 ELSE 1
<1>1. PICK lo, hi : Tree(t, L, lo, at, hi)
  BY DEF Ordered
<1>2. /\ L \subseteq Nodes /\ Null \notin Nodes /\ IsTree(t)
      /\ \A z \in L, r \in Sides :
           t.child[r][z] # Null => t.child[r][z] \in L /\ t.parent[t.child[r][z]] = z
      /\ t.mRoot # Null => t.parent[t.mRoot] = Null
  BY <1>1 DEF Tree, Shape
<1>3. u.child = t.child
  BY DEF Recolored
<1>4. /\ H \in [Pointers -> Nat] /\ H[Null] = 0
      /\ \A z \in L \cup {Null} : z \in Pointers /\ H[z] \in Nat
      /\ \A z \in L, r \in Sides : H[z] = H[t.child[r][z]] + (IF z = p /\ r = s THEN 1 ELSE 0) + one(z)
  BY <1>2 DEF Balanced, Pointers
<1>5. (\A z \in L \ {x} : two(z) = one(z)) /\ one(x) = 0 /\ two(x) = 1 /\ \A z : one(z) \in Nat
  BY <1>2
<1>6. ASSUME NEW z \in L, NEW r \in Sides
      PROVE  (z = p /\ r = s) <=> t.child[r][z] = x
  <2>1. CASE x = t.mRoot /\ p = Null
    <3>1. z # Null /\ x # Null /\ t.parent[x] = Null
      BY <1>2, <2>1
    <3> QED BY <1>2, <2>1, <3>1
  <2>2. CASE x # t.mRoot /\ p = t.parent[x] /\ t.child[s][p] = x
    <3>1. t.child[r][z] = x => z = p
      BY <1>2, <2>2
    <3>2. p \in L /\ x # Null
      BY <1>1, <1>2, <2>2, ParentOf
    <3>3. t.child[Other(s)][p] # x
      BY <1>1, <2>2, <3>2, ChildrenDiffer
    <3> QED BY <2>2, <3>1, <3>3, SidesAre
  <2> QED BY <2>1, <2>2
<1>7. \A z \in L, r \in Sides : t.child[r][z] \in L \cup {Null} /\ ~(z = x /\ t.child[r][z] = x)
  <2>1. ASSUME NEW z \in L, NEW r \in Sides PROVE t.child[r][z] \in L \cup {Null} /\ ~(z = x /\ t.child[r][z] = x)
    <3>1. t.child[r][z] # Null => t.child[r][z] \in L /\ t.child[r][z] # z
      BY <1>1, RotateAround, SidesAre
    <3> QED BY <1>2, <3>1
  <2> QED BY <2>1
<1>8. /\ G \in [Pointers -> Nat] /\ G[x] = H[x] + 1 /\ G[Null] = 0
      /\ \A z \in L \cup {Null} : z # x => G[z] = H[z]
  BY <1>2, <1>4
<1> HIDE DEF G, one, two
<1>9. ASSUME NEW z \in L, NEW r \in Sides
      PROVE  G[z] = G[u.child[r][z]] + (IF z = Null /\ r = "left" THEN 1 ELSE 0) + two(z)
  <2>1. (IF z = Null /\ r = "left" THEN 1 ELSE 0) = 0
    BY <1>2
  <2>2. PICK c : c = t.child[r][z]
    OBVIOUS
  <2>3. c \in L \cup {Null} /\ H[c] \in Nat /\ H[z] \in Nat /\ u.child[r][z] = c
    BY <1>3, <1>4, <1>7, <2>2
  <2>4. CASE c = x
    <3>0. z = p /\ r = s /\ z # x
      BY <1>6, <1>7, <2>2, <2>4, ZenonT(30)
    <3>1. z # x /\ H[z] = H[c] + 1 + one(z)
      <4>1. H[z] = H[c] + (IF z = p /\ r = s THEN 1 ELSE 0) + one(z)
        BY <1>4, <2>2
      <4> QED BY <3>0, <4>1
    <3>2. G[z] = H[z] /\ G[c] = H[c] + 1 /\ two(z) = one(z)
      BY <1>5, <1>8, <2>4, <3>1
    <3>3. G[z] = G[c] + 0 + two(z)
      BY <1>5, <2>3, <3>1, <3>2
    <3> QED BY <2>1, <2>3, <3>3
  <2>5. CASE c # x
    <3>1. H[z] = H[c] + 0 + one(z) /\ G[c] = H[c]
      BY <1>4, <1>6, <1>8, <2>2, <2>3, <2>5
    <3>2. G[z] = G[c] + 0 + two(z)
      <4>1. CASE z = x
        BY <1>5, <1>8, <2>3, <3>1, <4>1
      <4>2. CASE z # x
        BY <1>5, <1>8, <2>3, <3>1, <4>2
      <4> QED BY <4>1, <4>2
    <3> QED BY <2>1, <2>3, <3>2
  <2> QED BY <2>4, <2>5
<1>10. Balanced(u, L, G, Null, "left")
  BY <1>8, <1>9 DEF Balanced, two
<1> QED BY <1>10

LEMMA PaintSame ==
    ASSUME NEW t, NEW u, Recolored(t, u), NEW L, L \subseteq Nodes, \A z \in Nodes : u.color[z] = t.color[z],
           NEW H, NEW p, NEW s, Balanced(t, L, H, p, s)
    PROVE  Balanced(u, L, H, p, s)
BY DEF Recolored, Balanced

LEMMA InsertEndsKeeps ==
    ASSUME NEW L, NEW at, Ordered(tree, L, at), Rising(tree, L, node), InsertEnds
    PROVE  Ordered(tree', L, at) /\ Clean(tree', L) /\ Outside(tree, tree', L)
<1>1. PICK lo, hi : Tree(tree, L, lo, at, hi)
  BY DEF Ordered
<1>2. PICK x : x = tree.mRoot
  OBVIOUS
<1>3. /\ L \subseteq Nodes /\ Null \notin Nodes /\ IsTree(tree) /\ x \in L \cup {Null}
      /\ node \in L /\ RedRule(tree, L, {node})
  BY <1>1, <1>2 DEF Tree, Shape, Rising
<1>4. x \in L /\ x # Null /\ x \in Nodes
  BY <1>1, <1>2, <1>3, RootOf
<1>5. ~Violating /\ tree' = Paint(tree, x, "BLACK")
  BY <1>2 DEF InsertEnds
<1>6. /\ Recolored(tree, tree')
      /\ \A z \in Nodes : tree'.color[z] = IF z = x THEN "BLACK" ELSE tree.color[z]
  BY <1>3, <1>4, <1>5, PaintRecolors
<1>7. Ordered(tree', L, at) /\ Outside(tree, tree', L)
  BY <1>6, RecolorKeeps
<1>8. tree'.mRoot = tree.mRoot /\ tree'.parent = tree.parent
  BY <1>6 DEF Recolored
<1>9. RedRule(tree', L, {})
  <2>1. ASSUME NEW z \in L, tree'.color[z] = "RED"
        PROVE  z # tree'.mRoot /\ (tree'.parent[z] \in Nodes => tree'.color[tree'.parent[z]] = "BLACK")
    <3>1. z # x /\ tree.color[z] = "RED"
      BY <1>3, <1>6, <2>1
    <3>2. tree.parent[z] \in Nodes => tree.color[tree.parent[z]] = "BLACK"
      <4>1. CASE z = node
        <5>1. tree.parent[z] \in Nodes => tree.color[tree.parent[z]] \in {"RED", "BLACK"}
          BY <1>3 DEF IsTree
        <5> QED BY <1>3, <1>5, <4>1, <5>1 DEF Violating, Red
      <4>2. CASE z # node
        BY <1>3, <3>1, <4>2 DEF RedRule
      <4> QED BY <4>1, <4>2
    <3> QED BY <1>2, <1>6, <1>8, <3>1, <3>2
  <2> QED BY <2>1 DEF RedRule
<1>10. \E H : Balanced(tree', L, H, Null, "left")
  <2>1. PICK H : Balanced(tree, L, H, Null, "left")
    BY DEF Rising
  <2>2. CASE tree.color[x] = "RED"
    BY <1>2, <1>4, <1>6, <2>1, <2>2, SidesAre, Blacken
  <2>3. CASE tree.color[x] # "RED"
    <3>1. \A z \in Nodes : tree'.color[z] = tree.color[z]
      BY <1>3, <1>4, <1>6, <2>3 DEF IsTree
    <3> QED BY <1>3, <1>6, <2>1, <3>1, PaintSame
  <2> QED BY <2>2, <2>3
<1> QED BY <1>7, <1>9, <1>10 DEF Clean

LEMMA ForgetColors ==
    ASSUME NEW t, NEW L, NEW at, Ordered(t, L, at), NEW x \in Nodes, x \notin L,
           NEW u, Forgotten(t, u, x)
    PROVE  /\ Ordered(u, L, at)
           /\ Clean(t, L) => Clean(u, L)
<1>1. PICK lo, hi : Tree(t, L, lo, at, hi)
  BY DEF Ordered
<1>2. Tree(u, L, lo, at, hi)
  BY <1>1, ForgetTree
<1>3. L \subseteq Nodes /\ Null \notin Nodes /\ \A z \in L \ {t.mRoot} : t.parent[z] \in L
  BY <1>1 DEF Tree, Shape
<1>4. \A z \in L : /\ u.color[z] = t.color[z] /\ u.parent[z] = t.parent[z]
                   /\ \A s \in Sides : u.child[s][z] = t.child[s][z]
  BY <1>3 DEF Forgotten
<1>5. u.mRoot = t.mRoot
  BY DEF Forgotten
<1>6. RedRule(t, L, {}) => RedRule(u, L, {})
  BY <1>3, <1>4, <1>5 DEF RedRule
<1>7. \A H : Balanced(t, L, H, Null, "left") => Balanced(u, L, H, Null, "left")
  BY <1>4 DEF Balanced
<1> QED BY <1>2, <1>6, <1>7 DEF Clean, Ordered

LEMMA RemoveEndsKeeps ==
    ASSUME NEW L, NEW at, Ordered(tree, L, at), Mending(tree, L, node, par), RemoveEnds,
           doomed \in Nodes, doomed \notin L
    PROVE  /\ Ordered(tree', L, at) /\ Clean(tree', L)
           /\ \E t : Outside(tree, t, L) /\ Forgotten(t, tree', doomed)
<1>1. PICK t : t = IF node = Null THEN tree ELSE Paint(tree, node, "BLACK")
  OBVIOUS
<1>2. tree' = Forget(t, doomed) /\ ~Missing
  BY <1>1 DEF RemoveEnds
<1>3. PICK lo, hi : Tree(tree, L, lo, at, hi)
  BY DEF Ordered
<1>4. /\ L \subseteq Nodes /\ Null \notin Nodes /\ IsTree(tree)
      /\ \A z \in L \ {tree.mRoot} : tree.parent[z] \in L
      /\ tree.mRoot # Null => tree.parent[tree.mRoot] = Null
  BY <1>3 DEF Tree, Shape
<1>5. /\ node \in L \cup {Null}
      /\ RedRule(tree, L, {node} \cup {x \in L : Red(tree, node) /\ tree.parent[x] = node})
  BY DEF Mending
<1>6. Recolored(tree, t) /\ \A z \in Nodes : t.color[z] = IF z = node THEN "BLACK" ELSE tree.color[z]
  <2>1. CASE node = Null
    BY <1>1, <1>4, <2>1 DEF Recolored
  <2>2. CASE node # Null
    BY <1>1, <1>4, <1>5, <2>2, PaintRecolors
  <2> QED BY <2>1, <2>2
<1>7. Ordered(t, L, at) /\ Outside(tree, t, L) /\ IsTree(t)
  BY <1>6, RecolorKeeps DEF Recolored
<1>8. t.mRoot = tree.mRoot /\ t.parent = tree.parent
  BY <1>6 DEF Recolored
<1>9. RedRule(t, L, {})
  <2>1. ASSUME NEW z \in L, t.color[z] = "RED"
        PROVE  z # t.mRoot /\ (t.parent[z] \in Nodes => t.color[t.parent[z]] = "BLACK")
    <3>1. z # node /\ tree.color[z] = "RED" /\ z # Null
      BY <1>4, <1>6, <2>1
    <3>2. CASE tree.parent[z] = node /\ node # Null
      BY <1>4, <1>5, <1>6, <1>8, <3>1, <3>2
    <3>3. CASE ~(tree.parent[z] = node /\ node # Null)
      <4>1. z \notin {node} \cup {x \in L : Red(tree, node) /\ tree.parent[x] = node}
        BY <3>1, <3>3 DEF Red
      <4>2. z # tree.mRoot /\ (tree.parent[z] \in Nodes => tree.color[tree.parent[z]] = "BLACK")
        BY <1>5, <3>1, <4>1 DEF RedRule
      <4> QED BY <1>6, <1>8, <4>2
    <3> QED BY <3>2, <3>3
  <2> QED BY <2>1 DEF RedRule
<1>10. \E H : Balanced(t, L, H, Null, "left")
  <2>1. CASE node = Null \/ tree.color[node] # "RED"
    <3>1. node = tree.mRoot
      BY <1>2, <2>1 DEF Missing, Black, Red
    <3>2. PICK H : Balanced(tree, L, H, Null, "left")
      BY <3>1 DEF Mending
    <3>3. \A z \in Nodes : t.color[z] = tree.color[z]
      BY <1>4, <1>5, <1>6, <2>1 DEF IsTree
    <3> QED BY <1>4, <1>6, <3>2, <3>3, PaintSame
  <2>2. CASE node # Null /\ tree.color[node] = "RED"
    <3>0. node \in L
      BY <1>5, <2>2
    <3>1. CASE node = tree.mRoot
      <4>1. PICK H : Balanced(tree, L, H, Null, "left")
        BY <3>1 DEF Mending
      <4> QED BY <1>6, <2>2, <3>0, <3>1, <4>1, SidesAre, Blacken
    <3>2. CASE node # tree.mRoot
      <4>1. PICK s : s = Toward(tree, par, node)
        OBVIOUS
      <4>2. s \in Sides
        BY <4>1, SidesAre DEF Toward
      <4>3. par \in L /\ tree.child[s][par] = node /\ \E H : Balanced(tree, L, H, par, s)
        BY <3>2, <4>1 DEF Mending
      <4>4. PICK H : Balanced(tree, L, H, par, s)
        BY <4>3
      <4>5. par = tree.parent[node]
        BY <1>3, <2>2, <4>2, <4>3, Nested
      <4> QED BY <1>6, <2>2, <3>0, <3>2, <4>2, <4>3, <4>4, <4>5, Blacken
    <3> QED BY <3>1, <3>2
  <2> QED BY <2>1, <2>2
<1>11. Forgotten(t, tree', doomed)
  BY <1>2, <1>7, ForgetEffect
<1>12. Clean(t, L)
  BY <1>9, <1>10 DEF Clean
<1> QED BY <1>7, <1>11, <1>12, ForgetColors

-----------------------------------------------------------------------------
(* The steps that put a node in or take one out.                           *)

\* The new node is a red leaf.
LEMMA InsertColors ==
    ASSUME NEW t, NEW L, NEW lo, NEW at, NEW hi, Tree(t, L, lo, at, hi), Clean(t, L),
           NEW n \in Nodes, n \notin L, \A r \in Sides : t.child[r][n] = Null,
           NEW y, NEW s \in Sides, (y = Null /\ t.mRoot = Null) \/ (y \in L /\ t.child[s][y] = Null),
           NEW v, Attached(t, v, y, s, n), NEW u, Painted(v, u, n, "RED")
    PROVE  Rising(u, L \cup {n}, n)
<1> DEFINE one(z) == IF t.color[z] = "RED" THEN 0 ELSE 1
           two(z) == IF u.color[z] = "RED" THEN 0 ELSE 1
<1>1. /\ L \subseteq Nodes /\ Null \notin Nodes /\ n # Null
      /\ \A z \in L, r \in Sides : t.child[r][z] \in L \cup {Null}
      /\ \A z \in L \ {t.mRoot} : t.parent[z] \in L
      /\ \A z \in L : z # n
  BY DEF Tree, Shape
<1>2. /\ \A r \in Sides, z \in Nodes : u.child[r][z] = IF r = s /\ z = y THEN n ELSE t.child[r][z]
      /\ \A z \in Nodes : u.parent[z] = IF z = n THEN y ELSE t.parent[z]
      /\ u.mRoot = IF y = Null THEN n ELSE t.mRoot
      /\ \A z \in Nodes : u.color[z] = IF z = n THEN "RED" ELSE t.color[z]
  BY DEF Attached, Painted
<1>3. y = Null => L = {}
  BY <1>1, RootOf
<1>4. RedRule(u, L \cup {n}, {n})
  <2>1. ASSUME NEW z \in L, u.color[z] = "RED"
        PROVE  z # u.mRoot /\ (u.parent[z] \in Nodes => u.color[u.parent[z]] = "BLACK")
    <3>1. t.color[z] = "RED" /\ u.parent[z] = t.parent[z] /\ u.mRoot = t.mRoot
      BY <1>1, <1>2, <1>3, <2>1
    <3>2. z # t.mRoot /\ (t.parent[z] \in Nodes => t.color[t.parent[z]] = "BLACK")
      BY <3>1 DEF Clean, RedRule
    <3>3. t.parent[z] \in L
      BY <1>1, <3>2
    <3> QED BY <1>1, <1>2, <3>1, <3>2, <3>3
  <2> QED BY <2>1 DEF RedRule
<1>5. PICK H : Balanced(t, L, H, Null, "left")
  BY DEF Clean
<1> DEFINE G == [H EXCEPT ![n] = 0]
<1>6. /\ H \in [Pointers -> Nat] /\ H[Null] = 0
      /\ \A z \in L \cup {Null} : z \in Pointers /\ H[z] \in Nat
      /\ \A z \in L, r \in Sides : H[z] = H[t.child[r][z]] + (IF z = Null /\ r = "left" THEN 1 ELSE 0) + one(z)
  BY <1>1, <1>5 DEF Balanced, Pointers
<1>7. (\A z \in L : two(z) = one(z)) /\ two(n) = 0 /\ \A z : one(z) \in Nat
  BY <1>1, <1>2
<1>8. G \in [Pointers -> Nat] /\ G[n] = 0 /\ G[Null] = 0 /\ \A z \in L : G[z] = H[z]
  BY <1>1, <1>6 DEF Pointers
<1> HIDE DEF one, two, G
<1>9. ASSUME NEW z \in L \cup {n}, NEW r \in Sides
      PROVE  G[z] = G[u.child[r][z]] + (IF z = Null /\ r = "left" THEN 1 ELSE 0) + two(z)
  <2>0. (IF z = Null /\ r = "left" THEN 1 ELSE 0) = 0
    BY <1>1
  <2>1. CASE z = n
    <3>1. u.child[r][z] = Null
      BY <1>1, <1>2, <2>1
    <3> QED BY <1>7, <1>8, <2>0, <2>1, <3>1
  <2>2. CASE z # n
    <3>1. G[u.child[r][z]] = H[t.child[r][z]] /\ H[t.child[r][z]] \in Nat
      <4>1. CASE r = s /\ z = y
        BY <1>1, <1>2, <1>6, <1>8, <2>2, <4>1
      <4>2. CASE ~(r = s /\ z = y)
        BY <1>1, <1>2, <1>6, <1>8, <2>2, <4>2
      <4> QED BY <4>1, <4>2
    <3>2. H[z] = H[t.child[r][z]] + 0 + one(z)
      BY <1>6, <2>0, <2>2
    <3> QED BY <1>7, <1>8, <2>0, <2>2, <3>1, <3>2
  <2> QED BY <2>1, <2>2
<1>10. Balanced(u, L \cup {n}, G, Null, "left")
  BY <1>8, <1>9 DEF Balanced, two
<1>11. u.color[n] = "RED"
  BY <1>2
<1> QED BY <1>4, <1>10, <1>11 DEF Rising

LEMMA InsertKeeps ==
    ASSUME NEW L, NEW at, Ordered(tree, L, at), Sorted(L, at), Loose(tree, L), Clean(tree, L),
           NEW n \in Nodes, n \notin L, \A r \in Sides : tree.child[r][n] = Null, Insert(n)
    PROVE  /\ \E at2 : Ordered(tree', L \cup {n}, at2) /\ Sorted(L \cup {n}, at2)
           /\ Rising(tree', L \cup {n}, n) /\ Outside(tree, tree', L \cup {n})
<1>1. PICK lo, hi : Tree(tree, L, lo, at, hi)
  BY DEF Ordered
<1>2. PICK y : y = Leaf(tree, Key[n])
  OBVIOUS
<1>3. PICK s : s = IF y = Null THEN "left" ELSE Below(Key[n], y)
  OBVIOUS
<1>4. PICK v : v = Link(tree, y, s, n)
  OBVIOUS
<1>5. tree' = Paint(v, n, "RED")
  BY <1>2, <1>3, <1>4 DEF Insert
<1>6. Key[n] \in Int /\ L \subseteq Nodes /\ Null \notin Nodes /\ IsTree(tree) /\ at \in [Pointers -> Int]
  BY <1>1, KeyIs DEF Tree, Shape, Placed
<1>7. /\ s \in Sides
      /\ (y = Null /\ tree.mRoot = Null) \/ (y \in L /\ tree.child[s][y] = Null)
      /\ s = Below(Key[n], y) \/ y = Null
      /\ \/ y = Null /\ L = {}
         \/ y \in L /\ \A z \in L : IF Before(Key[n], y, at, z) THEN Key[z] <= Key[n] ELSE Key[n] <= Key[z]
  <2>1. CASE tree.mRoot = Null
    <3>1. y = Null
      BY <1>2, <2>1 DEF Leaf
    <3>2. L = {}
      BY <1>1, <2>1, RootOf
    <3> QED BY <1>3, <2>1, <3>1, <3>2, SidesAre
  <2>2. CASE tree.mRoot # Null
    <3>1. y \in L /\ tree.child[Below(Key[n], y)][y] = Null
      BY <1>1, <1>2, <1>6, <2>2, LeafIs
    <3>2. y # Null /\ y \in Nodes
      BY <1>6, <3>1
    <3>3. s = Below(Key[n], y) /\ s \in Sides
      BY <1>3, <1>6, <3>2, BelowIs
    <3>4. \A z \in L : IF Before(Key[n], y, at, z) THEN Key[z] <= Key[n] ELSE Key[n] <= Key[z]
      BY <1>1, <1>2, <1>6, <2>2, LeafOrder
    <3> QED BY <3>1, <3>3, <3>4
  <2> QED BY <2>1, <2>2
<1>8. y \in Pointers /\ n \in Pointers
  BY <1>6, <1>7 DEF Pointers
<1>9. Attached(tree, v, y, s, n)
  BY <1>4, <1>6, <1>7, <1>8, LinkEffect
<1>10. Painted(v, tree', n, "RED")
  <2>1. IsTree(v)
    BY <1>9 DEF Attached
  <2> QED BY <1>5, <2>1, PaintEffect
<1>11. Rising(tree', L \cup {n}, n)
  BY <1>1, <1>7, <1>9, <1>10, InsertColors
<1>12. Sorted(L \cup {n}, NewAt(at, y, s, n))
  BY <1>6, <1>7, InsertSorted
<1>13. \E lo2, hi2 : Tree(v, L \cup {n}, lo2, NewAt(at, y, s, n), hi2)
  BY <1>1, <1>7, <1>9, InsertTree
<1>14. PICK lo2, hi2 : Tree(v, L \cup {n}, lo2, NewAt(at, y, s, n), hi2)
  BY <1>13
<1>15. Tree(tree', L \cup {n}, lo2, NewAt(at, y, s, n), hi2)
  BY <1>10, <1>14, PaintTree
<1>16. Ordered(tree', L \cup {n}, NewAt(at, y, s, n))
  BY <1>15 DEF Ordered
<1>17. Outside(tree, tree', L \cup {n})
  BY <1>7, <1>6, <1>9, <1>10 DEF Attached, Painted, Outside
<1> QED BY <1>11, <1>12, <1>16, <1>17

\* What an unlinked node leaves: its place p below which n is, and whether it
\* was black.
Left(t, L, n, p, color) == IF color = "BLACK" THEN Mending(t, L, n, p) ELSE Clean(t, L)

\* The pointers of an unlinked node stay as they are, and lead into the tree.
Leads(t, L, x) == t.parent[x] \in L \cup {Null} /\ \A s \in Sides : t.child[s][x] \in L \cup {Null}

\* u is t without x.
Unlinks(t, u, L, x, n, p, color) ==
    /\ \E at : Ordered(u, L \ {x}, at) /\ Sorted(L \ {x}, at)
    /\ Outside(t, u, L) /\ Leads(u, L \ {x}, x)
    /\ Clean(t, L) => Left(u, L \ {x}, n, p, color)

\* A node with one child or none is replaced by it.
LEMMA CutColors ==
    ASSUME NEW t, NEW L, NEW lo, NEW at, NEW hi, Tree(t, L, lo, at, hi), Clean(t, L),
           NEW x \in L, NEW s \in Sides, t.child[Other(s)][x] = Null,
           NEW c, c = t.child[s][x], NEW p, p = t.parent[x], NEW u, Replaced(t, u, x, c)
    PROVE  Left(u, L \ {x}, c, p, t.color[x])
<1> DEFINE one(z) == IF t.color[z] = "RED" THEN 0 ELSE 1
           M == L \ {x}
           k == Toward(u, p, c)
<1>1. /\ L \subseteq Nodes /\ Null \notin Nodes /\ IsTree(t) /\ x # Null /\ x \in Nodes
      /\ \A z \in L, r \in Sides :
           t.child[r][z] # Null => t.child[r][z] \in L /\ t.parent[t.child[r][z]] = z
      /\ \A z \in L \ {t.mRoot} : t.parent[z] \in L /\ \E r \in Sides : t.child[r][t.parent[z]] = z
      /\ t.mRoot # Null => t.parent[t.mRoot] = Null
  BY DEF Tree, Shape
<1>2. /\ u.color = t.color
      /\ u.mRoot = IF t.mRoot = x THEN c ELSE t.mRoot
      /\ \A z \in Nodes : u.parent[z] = IF z = c THEN p ELSE t.parent[z]
      /\ \A z \in Nodes, r \in Sides :
           u.child[r][z] = IF z = p /\ t.child[r][z] = x THEN c ELSE t.child[r][z]
  BY DEF Replaced
<1>3. /\ (p = Null) <=> (x = t.mRoot)
      /\ p # Null => /\ p \in L /\ p # x
                     /\ \E r \in Sides : t.child[r][p] = x /\ t.child[Other(r)][p] # x
  BY ParentOf
<1>4. c # Null => c \in L /\ c # x /\ t.parent[c] = x
  BY <1>1, RotateAround, SidesAre
<1>6. \A z \in M : t.parent[z] = x => z = c
  <2>1. ASSUME NEW z \in M, t.parent[z] = x PROVE z = c
    <3>1. PICK r \in Sides : t.child[r][x] = z
      BY <1>1, <2>1
    <3> QED BY <1>1, <3>1, SidesAre
  <2> QED BY <2>1
<1>7. RedRule(t, L, {})
  BY DEF Clean
<1>8. t.color[x] = "RED" \/ t.color[x] = "BLACK"
  BY <1>1 DEF IsTree
<1>9. c # Null => t.color[c] \in {"RED", "BLACK"}
  BY <1>1, <1>4 DEF IsTree
<1>10. \A z \in M : u.color[z] = "RED" /\ z # c =>
          z # u.mRoot /\ (u.parent[z] \in Nodes => u.color[u.parent[z]] = "BLACK")
  BY <1>1, <1>2, <1>7 DEF RedRule
<1>11. t.color[x] = "RED" /\ c # Null => t.color[c] = "BLACK"
  BY <1>1, <1>4, <1>7, <1>9 DEF RedRule
<1>12. PICK H : Balanced(t, L, H, Null, "left")
  BY DEF Clean
<1>13. /\ H \in [Pointers -> Nat] /\ H[Null] = 0 /\ Null \notin L
       /\ \A z \in L \cup {Null} : z \in Pointers /\ H[z] \in Nat
       /\ \A z \in L, r \in Sides : H[z] = H[t.child[r][z]] + 0 + one(z)
  <2>1. /\ H \in [Pointers -> Nat] /\ H[Null] = 0 /\ Null \notin L
        /\ \A z \in L \cup {Null} : z \in Pointers /\ H[z] \in Nat
    BY <1>1, <1>12 DEF Balanced, Pointers
  <2>2. \A z \in L, r \in Sides : H[z] = H[t.child[r][z]] + (IF z = Null /\ r = "left" THEN 1 ELSE 0) + one(z)
    BY <1>12 DEF Balanced
  <2> QED BY <2>1, <2>2
<1>14. \A z : (t.color[z] = "RED" => one(z) = 0) /\ (t.color[z] # "RED" => one(z) = 1)
  OBVIOUS
<1> HIDE DEF one, M, k
<1>15. H[x] = H[c] + one(x) /\ H[c] \in Nat /\ H[x] \in Nat
  <2>1. H[x] = H[c] + 0 + one(x)
    BY <1>13
  <2> QED BY <1>4, <1>13, <1>14, <2>1
<1>16. \A z \in M : z \in L /\ z # x
  BY DEF M
<1>17. CASE t.color[x] = "RED"
  <2>1. RedRule(u, M, {})
    <3>1. \A z \in M : u.color[z] = "RED" => z # c
      BY <1>2, <1>11, <1>13, <1>16, <1>17
    <3> QED BY <1>10, <3>1 DEF RedRule
  <2>2. H[x] = H[c]
    BY <1>14, <1>15, <1>17
  <2>3. ASSUME NEW z \in M, NEW r \in Sides
        PROVE  H[z] = H[u.child[r][z]] + (IF z = Null /\ r = "left" THEN 1 ELSE 0)
                                       + (IF u.color[z] = "RED" THEN 0 ELSE 1)
    <3>1. (IF z = Null /\ r = "left" THEN 1 ELSE 0) = 0
      BY <1>13, <1>16
    <3>2. (IF u.color[z] = "RED" THEN 0 ELSE 1) = one(z)
      BY <1>2 DEF one
    <3>3. H[u.child[r][z]] = H[t.child[r][z]]
      BY <1>1, <1>2, <1>16, <2>2
    <3> QED BY <1>13, <1>16, <3>1, <3>2, <3>3
  <2>4. Balanced(u, M, H, Null, "left")
    BY <1>13, <2>3 DEF Balanced
  <2> QED BY <1>17, <2>1, <2>4 DEF Left, Clean, M
<1>18. CASE t.color[x] = "BLACK"
  <2>1. c \in M \cup {Null} /\ p \in Pointers
    BY <1>1, <1>4 DEF M, IsTree
  <2>2. RedRule(u, M, {c} \cup {z \in M : Red(u, c) /\ u.parent[z] = c})
    BY <1>10 DEF RedRule
  <2>3. H[x] = H[c] + 1
    BY <1>14, <1>15, <1>18
  <2>4. ASSUME NEW z \in M, NEW r \in Sides
        PROVE  H[z] = H[u.child[r][z]] + (IF z = p /\ t.child[r][z] = x THEN 1 ELSE 0)
                                       + (IF u.color[z] = "RED" THEN 0 ELSE 1)
    <3>1. (IF u.color[z] = "RED" THEN 0 ELSE 1) = one(z)
      BY <1>2 DEF one
    <3>2. H[z] = H[t.child[r][z]] + 0 + one(z) /\ z \in L /\ z \in Nodes
      BY <1>1, <1>13, <1>16
    <3>3. CASE z = p /\ t.child[r][z] = x
      <4>1. u.child[r][z] = c
        BY <1>2, <3>2, <3>3
      <4> QED BY <1>14, <1>15, <2>3, <3>1, <3>2, <3>3, <4>1
    <3>4. CASE ~(z = p /\ t.child[r][z] = x)
      <4>1. u.child[r][z] = t.child[r][z]
        BY <1>2, <3>2, <3>4
      <4> QED BY <3>1, <3>2, <3>4, <4>1
    <3> QED BY <3>3, <3>4
  <2>5. CASE x = t.mRoot
    <3>1. p = Null /\ c = u.mRoot
      BY <1>2, <1>3, <2>5
    <3>2. ASSUME NEW z \in M, NEW r \in Sides
          PROVE  H[z] = H[u.child[r][z]] + (IF z = Null /\ r = "left" THEN 1 ELSE 0)
                                         + (IF u.color[z] = "RED" THEN 0 ELSE 1)
      <4>1. z # Null
        BY <1>13, <1>16
      <4>2. (IF z = Null /\ r = "left" THEN 1 ELSE 0) = (IF z = p /\ t.child[r][z] = x THEN 1 ELSE 0)
        BY <3>1, <4>1
      <4> QED BY <2>4, <4>2
    <3>3. Balanced(u, M, H, Null, "left")
      BY <1>13, <3>2 DEF Balanced
    <3> QED BY <1>18, <2>1, <2>2, <3>1, <3>3 DEF Left, Mending, M
  <2>6. CASE x # t.mRoot
    <3>1. p \in L /\ p # x /\ p # Null
      BY <1>3, <1>13, <2>6
    <3>2. PICK a \in Sides : t.child[a][p] = x /\ t.child[Other(a)][p] # x
      BY <1>3, <3>1
    <3>3. PICK b : b = Other(a)
      OBVIOUS
    <3>4. b \in Sides /\ b # a /\ \A r \in Sides : r = a \/ r = b
      BY <3>3, SidesAre
    <3>5. u.child[a][p] = c /\ u.child[b][p] = t.child[b][p] /\ t.child[b][p] # x
      BY <1>1, <1>2, <3>1, <3>2, <3>3, <3>4
    <3>6. t.child[b][p] # c
      <4>1. t.child[b][p] # Null
        <5>1. H[p] = H[x] + 0 + one(p) /\ H[p] = H[t.child[b][p]] + 0 + one(p)
          BY <1>13, <3>1, <3>2, <3>4
        <5>2. H[t.child[b][p]] \in Nat
          BY <1>1, <1>13, <3>1, <3>4
        <5>3. H[t.child[b][p]] = H[c] + 1
          BY <1>14, <1>15, <2>3, <5>1, <5>2
        <5> QED BY <1>13, <1>15, <5>2, <5>3
      <4>2. t.parent[t.child[b][p]] = p
        BY <1>1, <3>1, <3>4, <4>1
      <4> QED BY <1>4, <3>1, <4>1, <4>2
    <3>7. k = a
      <4>1. k = IF u.child["left"][p] = c THEN "left" ELSE "right"
        BY DEF Toward, k
      <4>2. CASE a = "left"
        BY <3>5, <4>1, <4>2
      <4>3. CASE a = "right"
        <5>1. b = "left"
          BY <3>4, <4>3, SidesAre
        <5> QED BY <3>5, <3>6, <4>1, <4>3, <5>1
      <4> QED BY <3>2, <4>2, <4>3, SidesAre
    <3>8. ASSUME NEW z \in M, NEW r \in Sides
          PROVE  H[z] = H[u.child[r][z]] + (IF z = p /\ r = k THEN 1 ELSE 0)
                                         + (IF u.color[z] = "RED" THEN 0 ELSE 1)
      <4>1. (z = p /\ r = k) <=> (z = p /\ t.child[r][z] = x)
        BY <3>2, <3>4, <3>5, <3>7
      <4>2. (IF z = p /\ r = k THEN 1 ELSE 0) = (IF z = p /\ t.child[r][z] = x THEN 1 ELSE 0)
        BY <4>1
      <4> QED BY <2>4, <4>2
    <3>9. Balanced(u, M, H, p, k)
      BY <1>13, <3>8 DEF Balanced
    <3>10. c # u.mRoot
      BY <1>1, <1>2, <1>4, <2>6, RootOf
    <3>11. p \in M /\ u.child[k][p] = c
      BY <3>1, <3>5, <3>7 DEF M
    <3>12. Mending(u, M, c, p)
      BY <2>1, <2>2, <3>9, <3>10, <3>11 DEF Mending, k
    <3> QED BY <1>18, <3>12 DEF Left, M
  <2> QED BY <2>5, <2>6
<1> QED BY <1>8, <1>17, <1>18

LEMMA CutKeeps ==
    ASSUME NEW t, NEW L, NEW at, Ordered(t, L, at), Sorted(L, at),
           NEW x \in L, NEW s \in Sides, t.child[Other(s)][x] = Null,
           NEW c, c = t.child[s][x], NEW u, u = Replace(t, x, c)
    PROVE  Unlinks(t, u, L, x, c, t.parent[x], t.color[x])
<1>1. PICK lo, hi : Tree(t, L, lo, at, hi)
  BY DEF Ordered
<1>2. /\ L \subseteq Nodes /\ Null \notin Nodes /\ IsTree(t) /\ x # Null /\ x \in Nodes
      /\ HasPlace(t, x)
      /\ t.parent[x] # Null => t.parent[x] \in L /\ t.parent[x] # x
  BY <1>1, ParentOf DEF Tree, Shape
<1>3. c # Null => c \in L /\ c # x
  BY <1>1, RotateAround, SidesAre
<1>4. c \in Pointers
  BY <1>2, <1>3 DEF Pointers
<1>5. Replaced(t, u, x, c)
  BY <1>2, <1>4, ReplaceEffect
<1>6. Tree(u, L \ {x}, lo, at, hi)
  BY <1>1, <1>5, CutTree
<1>7. Sorted(L \ {x}, at)
  BY DEF Sorted
<1>8. Outside(t, u, L)
  BY <1>2, <1>3, <1>5 DEF Outside, Replaced
<1>9. Leads(u, L \ {x}, x)
  <2>1. u.parent[x] = t.parent[x]
    BY <1>2, <1>3, <1>5 DEF Replaced
  <2>2. ASSUME NEW r \in Sides PROVE u.child[r][x] \in (L \ {x}) \cup {Null}
    <3>1. u.child[r][x] = t.child[r][x]
      BY <1>2, <1>5 DEF Replaced
    <3>2. t.child[r][x] = c \/ t.child[r][x] = Null
      BY SidesAre
    <3> QED BY <1>3, <3>1, <3>2
  <2> QED BY <1>2, <2>1, <2>2 DEF Leads
<1>10. Clean(t, L) => Left(u, L \ {x}, c, t.parent[x], t.color[x])
  BY <1>1, <1>5, CutColors
<1>11. Ordered(u, L \ {x}, at)
  BY <1>6 DEF Ordered
<1> QED BY <1>7, <1>8, <1>9, <1>10, <1>11 DEF Unlinks

\* A node with two children is replaced by the next one, m, in its own color.
LEMMA SpliceColors ==
    ASSUME NEW t, NEW L, NEW lo, NEW at, NEW hi, Tree(t, L, lo, at, hi), Clean(t, L),
           NEW x, NEW m, Follows(t, L, lo, at, hi, x, m),
           NEW v, Spliced(t, v, x, m), NEW u, Painted(v, u, m, t.color[x])
    PROVE  Left(u, L \ {x}, t.child["right"][m], IF t.parent[m] = x THEN m ELSE t.parent[m],
                t.color[m])
<1> DEFINE p == t.parent[x]
           q == t.parent[m]
           l == t.child["left"][x]
           r == t.child["right"][x]
           c == t.child["right"][m]
           M == L \ {x}
           d == IF q = x THEN m ELSE q
           b == IF q = x THEN "right" ELSE "left"
           one(z) == IF t.color[z] = "RED" THEN 0 ELSE 1
           two(z) == IF u.color[z] = "RED" THEN 0 ELSE 1
<1>1. /\ L \subseteq Nodes /\ Null \notin Nodes /\ IsTree(t) /\ Null \notin L
      /\ \A z \in L, k \in Sides :
           t.child[k][z] # Null => t.child[k][z] \in L /\ t.parent[t.child[k][z]] = z
      /\ \A z \in L \ {t.mRoot} : t.parent[z] \in L /\ \E k \in Sides : t.child[k][t.parent[z]] = z
      /\ t.mRoot # Null => t.parent[t.mRoot] = Null
      /\ t.mRoot \in L \cup {Null}
  BY DEF Tree, Shape
<1>2. /\ x \in L /\ m \in L /\ l \in L /\ r \in L /\ x # m /\ p # x /\ p # m
      /\ l # m /\ l # r /\ l # x /\ r # x /\ l # c /\ r # c /\ c # m /\ c # x
      /\ t.parent[l] = x /\ t.parent[r] = x
      /\ c # Null => c \in L /\ t.parent[c] = m
      /\ p # Null => p \in L
      /\ (p = Null) <=> (t.mRoot = x)
      /\ t.mRoot # m
      /\ q # x => q \in L /\ q # m /\ q # p /\ r # m /\ c # q
      /\ q = x => r = m
      /\ q # Null
  BY SpliceAround
<1>3. /\ t.child["left"][m] = Null /\ t.child["right"][m] = c
      /\ t.child["left"][x] = l /\ t.child["right"][x] = r
      /\ q # x => t.child["left"][q] = m
  BY DEF Follows
<1>4. /\ u.mRoot = IF t.mRoot = x THEN m ELSE t.mRoot
      /\ \A z \in Nodes :
           u.parent[z] = IF z = m THEN p
                         ELSE IF z = l \/ z = r THEN m
                         ELSE IF z = c /\ q # x THEN q
                         ELSE t.parent[z]
      /\ \A z \in Nodes, k \in Sides :
           u.child[k][z] = IF z = m THEN IF k = "left" THEN l
                                         ELSE IF q = x THEN c
                                         ELSE r
                           ELSE IF z = q /\ z # x /\ k = "left" THEN c
                           ELSE IF z = p /\ t.child[k][z] = x THEN m
                           ELSE t.child[k][z]
      /\ \A z \in Nodes : u.color[z] = IF z = m THEN t.color[x] ELSE t.color[z]
  BY DEF Spliced, Painted
<1>5. /\ "left" \in Sides /\ "right" \in Sides /\ "left" # "right"
      /\ \A k \in Sides : k = "left" \/ k = "right"
  BY SidesAre
<1>6. \A z \in L : z \in Nodes /\ t.color[z] \in {"RED", "BLACK"}
  BY <1>1 DEF IsTree
<1>7. RedRule(t, L, {})
  BY DEF Clean
<1>8. \A z \in L : t.color[z] = "RED" =>
          z # t.mRoot /\ (t.parent[z] \in Nodes => t.color[t.parent[z]] = "BLACK")
  BY <1>7 DEF RedRule
<1>9. PICK H : Balanced(t, L, H, Null, "left")
  BY DEF Clean
<1> DEFINE G == [H EXCEPT ![m] = H[x]]
<1>10. /\ H \in [Pointers -> Nat] /\ H[Null] = 0
       /\ \A z \in L \cup {Null} : z \in Pointers /\ H[z] \in Nat
       /\ \A z \in L, k \in Sides : H[z] = H[t.child[k][z]] + 0 + one(z)
  <2>1. /\ H \in [Pointers -> Nat] /\ H[Null] = 0
        /\ \A z \in L \cup {Null} : z \in Pointers /\ H[z] \in Nat
    BY <1>1, <1>9 DEF Balanced, Pointers
  <2>2. \A z \in L, k \in Sides : H[z] = H[t.child[k][z]] + (IF z = Null /\ k = "left" THEN 1 ELSE 0) + one(z)
    BY <1>9 DEF Balanced
  <2> QED BY <1>1, <2>1, <2>2
<1>11. /\ G \in [Pointers -> Nat] /\ G[m] = H[x] /\ G[Null] = 0
       /\ \A z \in L \cup {Null} : z # m => G[z] = H[z]
  BY <1>1, <1>2, <1>10
<1>12. /\ (\A z : one(z) \in Nat) /\ two(m) = one(x) /\ \A z \in L : z # m => two(z) = one(z)
       /\ t.color[m] = "RED" => one(m) = 0
       /\ t.color[m] = "BLACK" => one(m) = 1
  BY <1>2, <1>4, <1>6
<1>13. \A z \in M : z \in L /\ z # x /\ z # Null /\ z \in Nodes
  BY <1>1
<1>14. c \in M \cup {Null} /\ d \in M /\ m \in M /\ u.mRoot # c /\ b \in Sides
  <2>1. t.mRoot # Null
    BY <1>2, RootOf
  <2>2. u.mRoot # c
    BY <1>1, <1>2, <1>4, <2>1
  <2>3. c \in M \cup {Null} /\ d \in M /\ m \in M
    BY <1>2
  <2> QED BY <1>5, <2>2, <2>3
<1>15. u.child[b][d] = c /\ Toward(u, d, c) = b
  <2>1. CASE q = x
    BY <1>2, <1>4, <1>5, <1>6, <2>1 DEF Toward
  <2>2. CASE q # x
    BY <1>2, <1>4, <1>5, <1>6, <2>2 DEF Toward
  <2> QED BY <2>1, <2>2
<1>16. /\ q = x => d = m /\ b = "right"
       /\ q # x => d = q /\ b = "left"
  OBVIOUS
<1>17. \A z : two(z) = IF u.color[z] = "RED" THEN 0 ELSE 1
  OBVIOUS
<1> HIDE DEF p, q, l, r, c, M, d, b, one, two, G
<1>18. ASSUME NEW z \in M, u.color[z] = "RED", z # c
       PROVE  z # u.mRoot /\ (u.parent[z] \in Nodes => u.color[u.parent[z]] = "BLACK")
  <2>1. CASE z = m
    <3>1. t.color[x] = "RED" /\ u.parent[z] = p
      BY <1>2, <1>4, <1>6, <1>18, <2>1
    <3>2. x # t.mRoot /\ (p \in Nodes => t.color[p] = "BLACK")
      BY <1>2, <1>8, <3>1 DEF p
    <3> QED BY <1>2, <1>4, <2>1, <3>1, <3>2
  <2>2. CASE z # m /\ (z = l \/ z = r)
    <3>1. t.color[z] = "RED" /\ u.parent[z] = m /\ t.parent[z] = x
      BY <1>2, <1>4, <1>6, <1>18, <2>2
    <3>2. z # t.mRoot /\ t.color[x] = "BLACK"
      BY <1>2, <1>6, <1>8, <1>13, <3>1
    <3> QED BY <1>2, <1>4, <1>6, <2>2, <3>1, <3>2
  <2>3. CASE z # m /\ z # l /\ z # r
    <3>1. t.color[z] = "RED" /\ u.parent[z] = t.parent[z]
      BY <1>4, <1>13, <1>18, <2>3
    <3>2. z # t.mRoot /\ (t.parent[z] \in Nodes => t.color[t.parent[z]] = "BLACK")
      BY <1>8, <1>13, <3>1
    <3>3. t.parent[z] # m
      <4>1. SUFFICES ASSUME t.parent[z] = m PROVE FALSE
        OBVIOUS
      <4>2. PICK k \in Sides : t.child[k][m] = z
        BY <1>1, <1>13, <3>2, <4>1
      <4> QED BY <1>3, <1>5, <1>13, <1>18, <4>2
    <3> QED BY <1>4, <2>3, <3>1, <3>2, <3>3
  <2> QED BY <2>1, <2>2, <2>3
<1>19. H[m] = H[c] + one(m) /\ H[c] \in Nat /\ H[m] \in Nat /\ H[x] \in Nat /\ G[c] = H[c]
  <2>1. H[m] = H[c] + 0 + one(m)
    BY <1>2, <1>3, <1>5, <1>10
  <2> QED BY <1>2, <1>10, <1>11, <1>12, <2>1
<1>20. ASSUME NEW z \in M, NEW k \in Sides
       PROVE  G[z] = G[u.child[k][z]] + (IF z = d /\ k = b THEN one(m) ELSE 0) + two(z)
  <2>1. CASE z = m
    <3>0. z \in Nodes /\ G[z] = H[x] /\ two(z) = one(x)
      BY <1>11, <1>12, <1>13, <2>1
    <3>1. CASE k = "left"
      <4>1. u.child[k][z] = l /\ G[l] = H[l] /\ H[x] = H[l] + 0 + one(x)
        BY <1>2, <1>3, <1>4, <1>5, <1>10, <1>11, <2>1, <3>0, <3>1
      <4>2. ~(z = d /\ k = b)
        BY <1>2, <1>5, <1>16, <2>1, <3>1
      <4> QED BY <3>0, <4>1, <4>2
    <3>2. CASE k = "right" /\ q = x
      <4>1. u.child[k][z] = c /\ H[x] = H[m] + 0 + one(x)
        BY <1>2, <1>3, <1>4, <1>5, <1>10, <2>1, <3>0, <3>2
      <4>2. z = d /\ k = b
        BY <1>16, <2>1, <3>2
      <4> QED BY <1>12, <1>19, <3>0, <4>1, <4>2
    <3>3. CASE k = "right" /\ q # x
      <4>1. u.child[k][z] = r /\ G[r] = H[r] /\ H[x] = H[r] + 0 + one(x)
        BY <1>2, <1>3, <1>4, <1>5, <1>10, <1>11, <2>1, <3>0, <3>3
      <4>2. ~(z = d /\ k = b)
        BY <1>2, <1>16, <2>1, <3>3
      <4> QED BY <3>0, <4>1, <4>2
    <3> QED BY <1>5, <3>1, <3>2, <3>3
  <2>2. CASE z # m
    <3>0. z \in Nodes /\ z \in L /\ z # x /\ G[z] = H[z] /\ two(z) = one(z)
          /\ H[z] = H[t.child[k][z]] + 0 + one(z)
      BY <1>10, <1>11, <1>12, <1>13, <2>2
    <3>1. CASE z = q /\ k = "left"
      <4>1. u.child[k][z] = c /\ t.child[k][z] = m
        BY <1>3, <1>4, <1>5, <2>2, <3>0, <3>1
      <4>2. z = d /\ k = b
        BY <1>16, <3>0, <3>1
      <4> QED BY <1>12, <1>19, <3>0, <4>1, <4>2
    <3>2. CASE ~(z = q /\ k = "left")
      <4>1. ~(z = d /\ k = b)
        BY <1>16, <2>2, <3>2
      <4>2. CASE z = p /\ t.child[k][z] = x
        <5>1. u.child[k][z] = m
          BY <1>4, <2>2, <3>0, <3>2, <4>2
        <5> QED BY <1>11, <3>0, <4>1, <4>2, <5>1
      <4>3. CASE ~(z = p /\ t.child[k][z] = x)
        <5>1. u.child[k][z] = t.child[k][z]
          BY <1>4, <2>2, <3>0, <3>2, <4>3
        <5>2. t.child[k][z] # m
          <6>1. SUFFICES ASSUME t.child[k][z] = m PROVE FALSE
            OBVIOUS
          <6>2. z = q
            BY <1>1, <1>2, <3>0, <6>1 DEF q
          <6>3. k = "right" /\ q # x
            BY <1>5, <3>0, <3>2, <6>2
          <6>4. t.child["left"][q] = m /\ t.child["right"][q] = m
            BY <1>3, <6>1, <6>2, <6>3
          <6> QED BY <1>1, <1>2, <1>5, <3>0, <6>2, <6>4, ChildrenDiffer, SidesAre
        <5>3. t.child[k][z] \in L \cup {Null}
          BY <1>1, <3>0
        <5> QED BY <1>11, <3>0, <4>1, <5>1, <5>2, <5>3
      <4> QED BY <4>2, <4>3
    <3> QED BY <3>1, <3>2
  <2> QED BY <2>1, <2>2
<1>21. CASE t.color[m] = "BLACK"
  <2>1. Balanced(u, M, G, d, b)
    <3>1. ASSUME NEW z \in M, NEW k \in Sides
          PROVE  G[z] = G[u.child[k][z]] + (IF z = d /\ k = b THEN 1 ELSE 0)
                                         + (IF u.color[z] = "RED" THEN 0 ELSE 1)
      <4>1. one(m) = 1
        BY <1>12, <1>21
      <4> QED BY <1>17, <1>20, <4>1
    <3> QED BY <1>11, <3>1 DEF Balanced
  <2>2. RedRule(u, M, {c} \cup {z \in M : Red(u, c) /\ u.parent[z] = c})
    BY <1>18 DEF RedRule
  <2>3. Mending(u, M, c, d)
    <3>1. d \in Pointers
      BY <1>13, <1>14 DEF Pointers
    <3> QED BY <1>14, <1>15, <2>1, <2>2, <3>1 DEF Mending
  <2> QED BY <1>21, <2>3 DEF Left, M, c, d, q
<1>22. CASE t.color[m] # "BLACK"
  <2>1. t.color[m] = "RED" /\ one(m) = 0
    BY <1>2, <1>6, <1>12, <1>22
  <2>2. c # Null => t.color[c] = "BLACK"
    BY <1>2, <1>6, <1>8, <2>1
  <2>3. \A z \in M : u.color[z] = "RED" => z # c
    BY <1>2, <1>4, <1>13, <2>2
  <2>4. RedRule(u, M, {})
    BY <1>18, <2>3 DEF RedRule
  <2>5. Balanced(u, M, G, Null, "left")
    <3>1. ASSUME NEW z \in M, NEW k \in Sides
          PROVE  G[z] = G[u.child[k][z]] + (IF z = Null /\ k = "left" THEN 1 ELSE 0)
                                         + (IF u.color[z] = "RED" THEN 0 ELSE 1)
      <4>1. (IF z = Null /\ k = "left" THEN 1 ELSE 0) = (IF z = d /\ k = b THEN one(m) ELSE 0)
        BY <1>13, <2>1
      <4> QED BY <1>17, <1>20, <4>1
    <3> QED BY <1>11, <3>1 DEF Balanced
  <2> QED BY <1>22, <2>4, <2>5 DEF Left, Clean, M
<1> QED BY <1>21, <1>22

LEMMA SpliceKeeps ==
    ASSUME NEW t, NEW L, NEW at, Ordered(t, L, at), Sorted(L, at), Loose(t, L),
           NEW x \in L, \A s \in Sides : t.child[s][x] # Null,
           NEW m, m = Minimum(t, t.child["right"][x]),
           NEW u, u = Paint(Splice(t, x, m), m, t.color[x])
    PROVE  Unlinks(t, u, L, x, t.child["right"][m],
                   IF t.parent[m] = x THEN m ELSE t.parent[m], t.color[m])
<1>1. PICK lo, hi : Tree(t, L, lo, at, hi)
  BY DEF Ordered
<1>2. L \subseteq Nodes /\ Null \notin Nodes /\ IsTree(t) /\ x \in Nodes /\ t.color[x] \in {"RED", "BLACK"}
  BY <1>1 DEF Tree, Shape, IsTree
<1>3. Follows(t, L, lo, at, hi, x, m)
  BY <1>1, SuccessorAround
<1>4. m \in L /\ m \in Nodes
  BY <1>2, <1>3 DEF Follows
<1>5. PICK v : v = Splice(t, x, m)
  OBVIOUS
<1>6. Spliced(t, v, x, m)
  BY <1>1, <1>3, <1>5, SpliceEffect
<1>7. Painted(v, u, m, t.color[x])
  <2>1. IsTree(v)
    BY <1>6 DEF Spliced
  <2> QED BY <1>2, <1>4, <1>5, <2>1, PaintEffect
<1>8. Tree(u, L \ {x}, Moved(lo, x, m), Moved(at, x, m), Moved(hi, x, m))
  <2>1. Tree(v, L \ {x}, Moved(lo, x, m), Moved(at, x, m), Moved(hi, x, m))
    BY <1>1, <1>3, <1>6, SpliceTree
  <2> QED BY <1>7, <2>1, PaintTree
<1>9. Sorted(L \ {x}, Moved(at, x, m))
  BY <1>1, SpliceSorted, SidesAre
<1>10. Ordered(u, L \ {x}, Moved(at, x, m))
  BY <1>8 DEF Ordered
<1> DEFINE p == t.parent[x]
           q == t.parent[m]
           l == t.child["left"][x]
           r == t.child["right"][x]
           c == t.child["right"][m]
<1>11. /\ p # x /\ p # m /\ l \in L /\ r \in L /\ l # x /\ r # x /\ c # x /\ x # m
       /\ c # Null => c \in L
       /\ p # Null => p \in L
       /\ q # x => q \in L
  <2>1. Tree(t, L, lo, at, hi) /\ Follows(t, L, lo, at, hi, x, m)
    BY <1>1, <1>3
  <2>2. /\ x \in L /\ m \in L /\ l \in L /\ r \in L /\ x # m /\ p # x /\ p # m
        /\ l # m /\ l # r /\ l # x /\ r # x /\ l # c /\ r # c /\ c # m /\ c # x
        /\ t.parent[l] = x /\ t.parent[r] = x
        /\ c # Null => c \in L /\ t.parent[c] = m
        /\ p # Null => p \in L
        /\ (p = Null) <=> (t.mRoot = x)
        /\ t.mRoot # m
        /\ q # x => q \in L /\ q # m /\ q # p /\ r # m /\ c # q
        /\ q = x => r = m
        /\ q # Null
    BY <2>1, SpliceAround, SMTT(30)
  <2> QED BY <2>2
<1>12. /\ \A z \in Nodes :
           u.parent[z] = IF z = m THEN p
                         ELSE IF z = l \/ z = r THEN m
                         ELSE IF z = c /\ q # x THEN q
                         ELSE t.parent[z]
       /\ \A z \in Nodes, k \in Sides :
           u.child[k][z] = IF z = m THEN IF k = "left" THEN l
                                         ELSE IF q = x THEN c
                                         ELSE r
                           ELSE IF z = q /\ z # x /\ k = "left" THEN c
                           ELSE IF z = p /\ t.child[k][z] = x THEN m
                           ELSE t.child[k][z]
  <2>1. u.parent = v.parent /\ u.child = v.child
    BY <1>7 DEF Painted
  <2>2. \A z \in Nodes :
           v.parent[z] = IF z = m THEN p
                         ELSE IF z = l \/ z = r THEN m
                         ELSE IF z = c /\ q # x THEN q
                         ELSE t.parent[z]
    BY <1>6 DEF Spliced
  <2>3. \A z \in Nodes, k \in Sides :
           v.child[k][z] = IF z = m THEN IF k = "left" THEN l
                                         ELSE IF q = x THEN c
                                         ELSE r
                           ELSE IF z = q /\ z # x /\ k = "left" THEN c
                           ELSE IF z = p /\ t.child[k][z] = x THEN m
                           ELSE t.child[k][z]
    BY <1>6 DEF Spliced
  <2> HIDE DEF p, q, l, r, c
  <2> QED BY <2>1, <2>2, <2>3
<1>13. t.child["left"][x] = l /\ t.child["right"][x] = r /\ t.parent[x] = p
  OBVIOUS
<1> HIDE DEF p, q, l, r, c
<1>14. Outside(t, u, L)
  <2>1. ASSUME NEW z \in Nodes \ L
        PROVE  u.parent[z] = t.parent[z] /\ \A k \in Sides : u.child[k][z] = t.child[k][z]
    <3>1. z # m /\ z # l /\ z # r /\ z # c /\ z # p /\ (z = q => z = x) /\ z # x
      BY <1>2, <1>4, <1>11
    <3> QED BY <1>12, <3>1
  <2> QED BY <2>1 DEF Outside
<1>15. Leads(u, L \ {x}, x)
  <2>1. u.parent[x] = p
    BY <1>2, <1>11, <1>12, <1>13
  <2>2. \A k \in Sides : u.child[k][x] = l \/ u.child[k][x] = r
    BY <1>2, <1>11, <1>12, <1>13, SidesAre
  <2> QED BY <1>11, <2>1, <2>2 DEF Leads
<1>16. Clean(t, L) => Left(u, L \ {x}, t.child["right"][m],
                           IF t.parent[m] = x THEN m ELSE t.parent[m], t.color[m])
  BY <1>1, <1>3, <1>6, <1>7, SpliceColors
<1>17. PICK n, d, color : /\ n = t.child["right"][m]
                          /\ d = IF t.parent[m] = x THEN m ELSE t.parent[m]
                          /\ color = t.color[m]
  OBVIOUS
<1>18. Clean(t, L) => Left(u, L \ {x}, n, d, color)
  BY <1>16, <1>17
<1>19. Unlinks(t, u, L, x, n, d, color)
  BY <1>9, <1>10, <1>14, <1>15, <1>18 DEF Unlinks
<1> QED BY <1>17, <1>19

-----------------------------------------------------------------------------
(* The inductive invariant.                                                *)

\* S is allocated, and d, if it is a node, is on the way out: the tree t links
\* the rest, in the order of its keys, and nothing else points anywhere.
TreeOK(t, S, d) ==
    /\ \A z \in Nodes \ S : t.parent[z] = Null /\ \A s \in Sides : t.child[s][z] = Null
    /\ d # Null => d \in S /\ Leads(t, S \ {d}, d)
    /\ \E at : Ordered(t, S \ {d}, at) /\ Sorted(S \ {d}, at)

\* The colors and black heights, at each place of the code.
Stage(t, L, at, n, p, d) ==
    /\ at = "removeFixUp" <=> d # Null
    /\ at = "idle" => Clean(t, L)
    /\ at = "insertFixUp" => Rising(t, L, n)
    /\ at = "removeFixUp" => Mending(t, L, n, p)

IInv == TypeOK /\ TreeOK(tree, live, doomed) /\ Stage(tree, live \ {doomed}, pc, node, par, doomed)

LEMMA TreeIsLoose ==
    ASSUME NEW t, NEW S, NEW d, TreeOK(t, S, d)
    PROVE  Loose(t, S \ {d})
<1>1. ASSUME NEW z \in Nodes \ (S \ {d})
      PROVE  /\ t.parent[z] \in (S \ {d}) \cup {Null}
             /\ \A s \in Sides : t.child[s][z] \in (S \ {d}) \cup {Null}
  <2>1. CASE z \notin S
    BY <2>1 DEF TreeOK
  <2>2. CASE z \in S
    <3>1. z = d /\ d # Null
      BY <1>1, <2>2
    <3> QED BY <3>1 DEF TreeOK, Leads
  <2> QED BY <2>1, <2>2
<1> QED BY <1>1 DEF Loose

LEMMA OutsideKeeps ==
    ASSUME NEW t, NEW S, NEW d, TreeOK(t, S, d), NEW u, Outside(t, u, S \ {d}), d \in Nodes \cup {Null},
           NEW at, Ordered(u, S \ {d}, at), Sorted(S \ {d}, at)
    PROVE  TreeOK(u, S, d)
<1>1. \A z \in Nodes \ S : u.parent[z] = Null /\ \A s \in Sides : u.child[s][z] = Null
  BY DEF TreeOK, Outside
<1>2. d # Null => d \in S /\ Leads(u, S \ {d}, d)
  BY DEF TreeOK, Outside, Leads
<1> QED BY <1>1, <1>2 DEF TreeOK

LEMMA TypeFromTree ==
    ASSUME NEW t, NEW L, NEW at, Ordered(t, L, at)
    PROVE  t \in [mRoot  : Nodes \cup {Null},
                  color  : [Nodes -> {"RED", "BLACK"}],
                  parent : [Nodes -> Nodes \cup {Null}],
                  child  : [Sides -> [Nodes -> Nodes \cup {Null}]]]
BY DEF Ordered, Tree, Shape, IsTree, Pointers

LEMMA InitIInv == Init => IInv
<1> SUFFICES ASSUME Init PROVE IInv
  OBVIOUS
<1>1. PICK at : at = [z \in Pointers |-> 0]
  OBVIOUS
<1>2. IsTree(tree) /\ TypeOK
  BY DEF Init, IsTree, TypeOK, Pointers
<1>3. Shape(tree, {})
  BY <1>2 DEF Shape, Init
<1>4. Placed(tree, {}, at, at, at)
  BY <1>1 DEF Placed
<1>5. Ordered(tree, {}, at) /\ Sorted({}, at)
  BY <1>3, <1>4 DEF Ordered, Tree, Sorted
<1>6. live \ {doomed} = {} /\ live = {}
  BY DEF Init
<1>7. TreeOK(tree, live, doomed)
  BY <1>5, <1>6 DEF TreeOK, Init
<1>8. PICK H : H = [z \in Pointers |-> 0]
  OBVIOUS
<1>9. H \in [Pointers -> Nat] /\ H[Null] = 0
  BY <1>8 DEF Pointers
<1>10. Clean(tree, {})
  BY <1>9 DEF Clean, RedRule, Balanced
<1>11. Stage(tree, live \ {doomed}, pc, node, par, doomed)
  BY <1>6, <1>10 DEF Stage, Init
<1> QED BY <1>2, <1>7, <1>11 DEF IInv

\* What a step may use of the invariant.
LEMMA Known ==
    ASSUME IInv
    PROVE  /\ live \subseteq Nodes /\ Null \notin live /\ doomed \in Nodes \cup {Null}
           /\ node \in Nodes \cup {Null} /\ par \in Nodes \cup {Null}
           /\ Loose(tree, live \ {doomed})
           /\ \E at : Ordered(tree, live \ {doomed}, at) /\ Sorted(live \ {doomed}, at)
           /\ doomed # Null => doomed \in live
           /\ doomed = Null => live \ {doomed} = live
           /\ \A z \in Nodes \ live : tree.parent[z] = Null /\ \A s \in Sides : tree.child[s][z] = Null
<1>1. TreeOK(tree, live, doomed) /\ TypeOK
  BY DEF IInv
<1>2. Loose(tree, live \ {doomed})
  BY <1>1, TreeIsLoose
<1>3. live \subseteq Nodes /\ Null \notin live
  BY <1>1 DEF TypeOK
<1>4. \E at : Ordered(tree, live \ {doomed}, at) /\ Sorted(live \ {doomed}, at)
  BY <1>1 DEF TreeOK
<1>5. doomed # Null => doomed \in live
  BY <1>1 DEF TreeOK
<1>6. \A z \in Nodes \ live : tree.parent[z] = Null /\ \A s \in Sides : tree.child[s][z] = Null
  BY <1>1 DEF TreeOK
<1>7. doomed \in Nodes \cup {Null} /\ node \in Nodes \cup {Null} /\ par \in Nodes \cup {Null}
  BY <1>1 DEF TypeOK
<1>8. doomed = Null => live \ {doomed} = live
  BY <1>3
<1> QED BY <1>2, <1>3, <1>4, <1>5, <1>6, <1>7, <1>8, Zenon

LEMMA InsertIInv ==
    ASSUME IInv, NEW n \in Nodes, Insert(n)
    PROVE  IInv'
<1>1. PICK at : Ordered(tree, live \ {doomed}, at) /\ Sorted(live \ {doomed}, at)
  BY Known
<1>2. pc = "idle" /\ n \notin live /\ live' = live \cup {n} /\ pc' = "insertFixUp" /\ node' = n
      /\ par' = par /\ doomed' = doomed
  BY DEF Insert
<1>3. doomed = Null /\ Clean(tree, live \ {doomed})
  BY <1>2 DEF IInv, Stage
<1>4. live \ {doomed} = live /\ live' \ {doomed'} = live \cup {n} /\ live' \subseteq Nodes
  BY <1>2, <1>3, Known
<1>5. Ordered(tree, live, at) /\ Sorted(live, at) /\ Clean(tree, live) /\ Loose(tree, live)
  BY <1>1, <1>3, <1>4, Known
<1>6. \A z \in Nodes \ live : tree.parent[z] = Null /\ \A s \in Sides : tree.child[s][z] = Null
  BY Known
<1>7. /\ \E at2 : Ordered(tree', live \cup {n}, at2) /\ Sorted(live \cup {n}, at2)
      /\ Rising(tree', live \cup {n}, n) /\ Outside(tree, tree', live \cup {n})
  BY <1>2, <1>5, <1>6, InsertKeeps
<1>8. TreeOK(tree', live', doomed')
  <2>1. \A z \in Nodes \ live' : tree'.parent[z] = Null /\ \A s \in Sides : tree'.child[s][z] = Null
    BY <1>2, <1>6, <1>7 DEF Outside
  <2> QED BY <1>2, <1>3, <1>4, <1>7, <2>1 DEF TreeOK
<1>9. TypeOK'
  <2>1. PICK at2 : Ordered(tree', live \cup {n}, at2)
    BY <1>7
  <2>2. tree' \in [mRoot  : Nodes \cup {Null},
                   color  : [Nodes -> {"RED", "BLACK"}],
                   parent : [Nodes -> Nodes \cup {Null}],
                   child  : [Sides -> [Nodes -> Nodes \cup {Null}]]]
    BY <2>1, TypeFromTree
  <2>3. par \in Nodes \cup {Null}
    BY Known
  <2> QED BY <1>2, <1>3, <1>4, <2>2, <2>3 DEF TypeOK
<1>10. Stage(tree', live' \ {doomed'}, pc', node', par', doomed')
  BY <1>2, <1>3, <1>4, <1>7 DEF Stage
<1> QED BY <1>8, <1>9, <1>10 DEF IInv

\* The loops keep the allocated nodes and the one on the way out.
LEMMA LoopIInv ==
    ASSUME IInv, live' = live, doomed' = doomed, NEW at,
           Ordered(tree', live \ {doomed}, at), Sorted(live \ {doomed}, at),
           Outside(tree, tree', live \ {doomed}), node' \in Nodes \cup {Null}, par' \in Nodes \cup {Null},
           pc' \in {"idle", "insertFixUp", "removeFixUp", "destroyed"},
           Stage(tree', live \ {doomed}, pc', node', par', doomed)
    PROVE  IInv'
<1>1. TreeOK(tree, live, doomed) /\ doomed \in Nodes \cup {Null} /\ live \subseteq Nodes
  BY Known DEF IInv
<1>2. TreeOK(tree', live', doomed')
  BY <1>1, OutsideKeeps
<1>3. TypeOK'
  BY <1>1, TypeFromTree DEF TypeOK
<1>4. Stage(tree', live' \ {doomed'}, pc', node', par', doomed')
  OBVIOUS
<1> QED BY <1>2, <1>3, <1>4 DEF IInv

LEMMA InsertFixUpIInv ==
    ASSUME IInv, InsertFixUp
    PROVE  IInv'
<1>1. PICK at : Ordered(tree, live \ {doomed}, at) /\ Sorted(live \ {doomed}, at)
  BY Known
<1>2. pc = "insertFixUp" /\ live' = live /\ pc' = pc /\ par' = par /\ doomed' = doomed
  BY DEF InsertFixUp
<1>3. doomed = Null /\ Rising(tree, live \ {doomed}, node)
  BY <1>2 DEF IInv, Stage
<1>4. /\ Ordered(tree', live \ {doomed}, at) /\ Rising(tree', live \ {doomed}, node')
      /\ Outside(tree, tree', live \ {doomed})
  BY <1>1, <1>3, InsertFixUpKeeps
<1>5. node' \in Nodes
  BY <1>4, Known DEF Rising
<1>6. Stage(tree', live \ {doomed}, pc', node', par', doomed)
  BY <1>2, <1>3, <1>4 DEF Stage
<1> QED BY <1>1, <1>2, <1>4, <1>5, <1>6, LoopIInv, Known

LEMMA InsertEndsIInv ==
    ASSUME IInv, InsertEnds
    PROVE  IInv'
<1>1. PICK at : Ordered(tree, live \ {doomed}, at) /\ Sorted(live \ {doomed}, at)
  BY Known
<1>2. pc = "insertFixUp" /\ live' = live /\ pc' = "idle" /\ par' = par /\ doomed' = doomed /\ node' = Null
  BY DEF InsertEnds
<1>3. doomed = Null /\ Rising(tree, live \ {doomed}, node)
  BY <1>2 DEF IInv, Stage
<1>4. /\ Ordered(tree', live \ {doomed}, at) /\ Clean(tree', live \ {doomed})
      /\ Outside(tree, tree', live \ {doomed})
  BY <1>1, <1>3, InsertEndsKeeps
<1>5. Stage(tree', live \ {doomed}, pc', node', par', doomed)
  BY <1>2, <1>3, <1>4 DEF Stage
<1> QED BY <1>1, <1>2, <1>4, <1>5, LoopIInv, Known

LEMMA RemoveFixUpIInv ==
    ASSUME IInv, RemoveFixUp
    PROVE  IInv'
<1>1. PICK at : Ordered(tree, live \ {doomed}, at) /\ Sorted(live \ {doomed}, at)
  BY Known
<1>2. pc = "removeFixUp" /\ live' = live /\ pc' = pc /\ doomed' = doomed
  BY DEF RemoveFixUp
<1>3. doomed # Null /\ Mending(tree, live \ {doomed}, node, par)
  BY <1>2 DEF IInv, Stage
<1>4. /\ Ordered(tree', live \ {doomed}, at) /\ Mending(tree', live \ {doomed}, node', par')
      /\ Outside(tree, tree', live \ {doomed})
  BY <1>1, <1>3, RemoveFixUpKeeps
<1>5. node' \in Nodes \cup {Null} /\ par' \in Nodes \cup {Null}
  BY <1>4, Known DEF Mending, Pointers
<1>6. Stage(tree', live \ {doomed}, pc', node', par', doomed)
  BY <1>2, <1>3, <1>4 DEF Stage
<1> QED BY <1>1, <1>2, <1>4, <1>5, <1>6, LoopIInv

\* A node that is out of the tree is freed.
LEMMA FreedIInv ==
    ASSUME NEW S, S \subseteq Nodes, NEW x \in S, NEW t, NEW u, Forgotten(t, u, x),
           \A z \in Nodes \ S : t.parent[z] = Null /\ \A s \in Sides : t.child[s][z] = Null,
           NEW at, Ordered(u, S \ {x}, at), Sorted(S \ {x}, at)
    PROVE  TreeOK(u, S \ {x}, Null)
<1>1. \A z \in Nodes \ (S \ {x}) : u.parent[z] = Null /\ \A s \in Sides : u.child[s][z] = Null
  BY DEF Forgotten
<1>2. Null \notin S /\ (S \ {x}) \ {Null} = S \ {x}
  OBVIOUS
<1> QED BY <1>1, <1>2 DEF TreeOK

LEMMA RemoveEndsIInv ==
    ASSUME IInv, RemoveEnds
    PROVE  IInv'
<1>1. PICK at : Ordered(tree, live \ {doomed}, at) /\ Sorted(live \ {doomed}, at)
  BY Known
<1>2. /\ pc = "removeFixUp" /\ live' = live \ {doomed} /\ pc' = "idle" /\ node' = Null /\ par' = Null
      /\ doomed' = Null
  BY DEF RemoveEnds
<1>3. doomed # Null /\ Mending(tree, live \ {doomed}, node, par)
  BY <1>2 DEF IInv, Stage
<1>4. doomed \in live /\ doomed \in Nodes /\ live \subseteq Nodes /\ Null \notin live
  BY <1>3, Known
<1>5. /\ Ordered(tree', live \ {doomed}, at) /\ Clean(tree', live \ {doomed})
      /\ \E t : Outside(tree, t, live \ {doomed}) /\ Forgotten(t, tree', doomed)
  BY <1>1, <1>3, <1>4, RemoveEndsKeeps
<1>6. PICK t : Outside(tree, t, live \ {doomed}) /\ Forgotten(t, tree', doomed)
  BY <1>5
<1>7. \A z \in Nodes \ live : t.parent[z] = Null /\ \A s \in Sides : t.child[s][z] = Null
  BY <1>6, Known DEF Outside
<1>8. TreeOK(tree', live \ {doomed}, Null)
  BY <1>1, <1>4, <1>5, <1>6, <1>7, FreedIInv
<1>9. TypeOK'
  BY <1>2, <1>4, <1>5, TypeFromTree DEF TypeOK
<1>10. live' \ {doomed'} = live \ {doomed}
  BY <1>2, <1>4
<1>11. Stage(tree', live' \ {doomed'}, pc', node', par', doomed')
  BY <1>2, <1>5, <1>10 DEF Stage
<1> QED BY <1>2, <1>8, <1>9, <1>11 DEF IInv

LEMMA UnlinkedIInv ==
    ASSUME IInv, pc = "idle", NEW x \in live, NEW u, NEW n, NEW p, NEW color,
           Unlinks(tree, u, live, x, n, p, color), Unlinked(u, x, color, n, p)
    PROVE  IInv'
<1>1. TreeOK(tree, live, doomed) /\ Stage(tree, live \ {doomed}, pc, node, par, doomed) /\ TypeOK
  BY DEF IInv
<1>2. doomed = Null /\ live \ {doomed} = live /\ Clean(tree, live)
  <2>1. doomed = Null /\ Clean(tree, live \ {doomed})
    BY <1>1 DEF Stage
  <2> QED BY <2>1, Known
<1>3. /\ live \subseteq Nodes /\ Null \notin live /\ x \in Nodes /\ x # Null
      /\ node \in Nodes \cup {Null} /\ par \in Nodes \cup {Null}
      /\ \A z \in Nodes \ live : tree.parent[z] = Null /\ \A s \in Sides : tree.child[s][z] = Null
  BY Known
<1>4. /\ \E at : Ordered(u, live \ {x}, at) /\ Sorted(live \ {x}, at)
      /\ Outside(tree, u, live) /\ Leads(u, live \ {x}, x)
      /\ Left(u, live \ {x}, n, p, color)
  BY <1>2 DEF Unlinks
<1>5. PICK at : Ordered(u, live \ {x}, at) /\ Sorted(live \ {x}, at)
  BY <1>4
<1>6. \A z \in Nodes \ live : u.parent[z] = Null /\ \A s \in Sides : u.child[s][z] = Null
  BY <1>3, <1>4 DEF Outside
<1>7. CASE color = "BLACK"
  <2>1. /\ tree' = u /\ pc' = "removeFixUp" /\ node' = n /\ par' = p /\ doomed' = x /\ live' = live
    BY <1>7 DEF Unlinked
  <2>2. Mending(u, live \ {x}, n, p)
    BY <1>4, <1>7 DEF Left
  <2>3. TreeOK(tree', live', doomed')
    BY <1>4, <1>6, <2>1 DEF TreeOK
  <2>4. Stage(tree', live' \ {doomed'}, pc', node', par', doomed')
    BY <1>3, <2>1, <2>2 DEF Stage
  <2>5. node' \in Nodes \cup {Null} /\ par' \in Nodes \cup {Null}
    BY <1>3, <2>1, <2>2 DEF Mending, Pointers
  <2>6. TypeOK'
    BY <1>3, <1>5, <2>1, <2>5, TypeFromTree DEF TypeOK
  <2> QED BY <2>3, <2>4, <2>6 DEF IInv
<1>8. CASE color # "BLACK"
  <2>1. /\ tree' = Forget(u, x) /\ live' = live \ {x}
        /\ pc' = pc /\ node' = node /\ par' = par /\ doomed' = doomed
    BY <1>8 DEF Unlinked, loop
  <2>2. Clean(u, live \ {x})
    BY <1>4, <1>8 DEF Left
  <2>3. IsTree(u)
    BY <1>5 DEF Ordered, Tree, Shape
  <2>4. Forgotten(u, tree', x)
    BY <1>3, <2>1, <2>3, ForgetEffect
  <2>5. Ordered(tree', live \ {x}, at) /\ Clean(tree', live \ {x})
    BY <1>3, <1>5, <2>2, <2>4, ForgetColors
  <2>6. TreeOK(tree', live \ {x}, Null)
    BY <1>3, <1>5, <1>6, <2>4, <2>5, FreedIInv
  <2>7. live' \ {doomed'} = live \ {x}
    BY <1>2, <1>3, <2>1
  <2>8. Stage(tree', live' \ {doomed'}, pc', node', par', doomed')
    BY <1>2, <2>1, <2>5, <2>7 DEF Stage
  <2>9. TypeOK'
    BY <1>2, <1>3, <2>1, <2>5, TypeFromTree DEF TypeOK
  <2> QED BY <1>2, <2>1, <2>6, <2>8, <2>9 DEF IInv
<1> QED BY <1>7, <1>8

\* What remove() does with the node that search() has found.
Taken(x) == IF \A s \in Sides : tree.child[s][x] # Null THEN RemoveInner(x) ELSE RemoveOuter(x)

LEMMA RemoveIs ==
    ASSUME NEW k \in Keys, Remove(k)
    PROVE  /\ pc = "idle" /\ asked' = <<"remove", k>>
           /\ \/ Search(tree, k) = Null /\ UNCHANGED <<tree, live, loop>>
              \/ Search(tree, k) # Null /\ Taken(Search(tree, k))
BY Zenon DEF Remove, Taken

LEMMA TakenIInv ==
    ASSUME IInv, pc = "idle", NEW k \in Keys, Search(tree, k) # Null, Taken(Search(tree, k))
    PROVE  IInv'
<1>1. pc = "idle"
  OBVIOUS
<1>2. doomed = Null /\ live \ {doomed} = live
  <2>1. doomed = Null
    BY <1>1 DEF IInv, Stage
  <2> QED BY <2>1, Known
<1>3. PICK at : Ordered(tree, live, at) /\ Sorted(live, at)
  BY <1>2, Known
<1>4. Loose(tree, live) /\ Null \notin live
  BY <1>2, Known
<1>5. k \in Int
  BY KeyIs DEF Keys
<1>6. PICK x : x = Search(tree, k)
  OBVIOUS
<1>7. x \in live /\ Taken(x)
  <2>1. x # Null /\ Taken(x)
    BY <1>6
  <2>2. PICK lo, hi : Tree(tree, live, lo, at, hi)
    BY <1>3 DEF Ordered
  <2>3. x \in live \cup {Null}
    BY <1>3, <1>4, <1>5, <1>6, <2>2, SearchIs
  <2> QED BY <2>1, <2>3
<1>8. CASE \A s \in Sides : tree.child[s][x] # Null
  <2>1. PICK m : m = Minimum(tree, tree.child["right"][x])
    OBVIOUS
  <2>2. PICK u : u = Paint(Splice(tree, x, m), m, tree.color[x])
    OBVIOUS
  <2>3. PICK n, d, color : /\ n = tree.child["right"][m]
                           /\ d = IF tree.parent[m] = x THEN m ELSE tree.parent[m]
                           /\ color = tree.color[m]
    OBVIOUS
  <2>4. Unlinks(tree, u, live, x, n, d, color)
    BY <1>3, <1>4, <1>7, <1>8, <2>1, <2>2, <2>3, SpliceKeeps
  <2>5. Unlinked(u, x, color, n, d)
    <3>1. RemoveInner(x)
      BY <1>7, <1>8 DEF Taken
    <3> QED BY <2>1, <2>2, <2>3, <3>1 DEF RemoveInner, Splice
  <2> QED BY <1>1, <1>7, <2>4, <2>5, UnlinkedIInv
<1>9. CASE ~ \A s \in Sides : tree.child[s][x] # Null
  <2>1. PICK s : s = IF tree.child["left"][x] # Null THEN "left" ELSE "right"
    OBVIOUS
  <2>2. s \in Sides /\ tree.child[Other(s)][x] = Null
    BY <1>9, <2>1, SidesAre
  <2>3. PICK c, u : c = tree.child[s][x] /\ u = Replace(tree, x, c)
    OBVIOUS
  <2>4. Unlinks(tree, u, live, x, c, tree.parent[x], tree.color[x])
    BY <1>3, <1>7, <2>2, <2>3, CutKeeps
  <2>5. Unlinked(u, x, tree.color[x], c, tree.parent[x])
    <3>1. RemoveOuter(x)
      BY <1>7, <1>9 DEF Taken
    <3> QED BY <2>1, <2>3, <3>1 DEF RemoveOuter
  <2> QED BY <1>1, <1>7, <2>4, <2>5, UnlinkedIInv
<1> QED BY <1>8, <1>9

LEMMA RemoveIInv ==
    ASSUME IInv, NEW k \in Keys, Remove(k)
    PROVE  IInv'
<1>1. CASE Search(tree, k) = Null /\ UNCHANGED <<tree, live, loop>>
  <2>1. tree' = tree /\ live' = live /\ pc' = pc /\ node' = node /\ par' = par /\ doomed' = doomed
    BY <1>1 DEF loop
  <2> QED BY <2>1 DEF IInv, TypeOK
<1>2. CASE Search(tree, k) # Null /\ Taken(Search(tree, k))
  BY <1>2, RemoveIs, TakenIInv
<1> QED BY <1>1, <1>2, RemoveIs

LEMMA DestroyIInv ==
    ASSUME IInv, Destroy
    PROVE  IInv'
<1>1. pc = "idle" /\ pc' = "destroyed" /\ node' = node /\ par' = par /\ doomed' = doomed
  BY DEF Destroy
<1>2. doomed = Null /\ live \ {doomed} = live
  <2>1. doomed = Null
    BY <1>1 DEF IInv, Stage
  <2> QED BY <2>1, Known
<1>3. PICK at : Ordered(tree, live, at) /\ Sorted(live, at)
  BY <1>2, Known
<1>4. /\ live \subseteq Nodes /\ Null \notin live /\ Loose(tree, live)
      /\ node \in Nodes \cup {Null} /\ par \in Nodes \cup {Null}
      /\ \A z \in Nodes \ live : tree.parent[z] = Null /\ \A s \in Sides : tree.child[s][z] = Null
  BY <1>2, Known
<1>5. \A L : Stage(tree', L, pc', node', par', doomed')
  BY <1>1, <1>2 DEF Stage
<1>6. CASE tree.mRoot = Null
  <2>1. tree' = tree /\ live' = live
    BY <1>6 DEF Destroy
  <2>2. TreeOK(tree', live', doomed')
    BY <1>1, <2>1 DEF IInv
  <2>3. TypeOK'
    BY <1>1, <2>1 DEF IInv, TypeOK
  <2> QED BY <1>5, <2>2, <2>3 DEF IInv
<1>7. CASE tree.mRoot # Null
  <2>1. PICK x, u : x = DestroyLeaf(tree) /\ u = Replace(tree, x, Null)
    OBVIOUS
  <2>2. tree' = Forget(u, x) /\ live' = live \ {x}
    BY <1>7, <2>1 DEF Destroy
  <2>3. x \in live /\ \A s \in Sides : tree.child[s][x] = Null
    BY <1>3, <1>4, <1>7, <2>1, DestroyLeafIs DEF Ordered
  <2>4. "left" \in Sides /\ tree.child[Other("left")][x] = Null /\ Null = tree.child["left"][x]
    BY <2>3, SidesAre
  <2>5. Unlinks(tree, u, live, x, Null, tree.parent[x], tree.color[x])
    BY <1>3, <2>1, <2>3, <2>4, CutKeeps
  <2>6. PICK at2 : Ordered(u, live \ {x}, at2) /\ Sorted(live \ {x}, at2)
    BY <2>5 DEF Unlinks
  <2>7. IsTree(u) /\ x \in Nodes
    BY <1>4, <2>3, <2>6 DEF Ordered, Tree, Shape
  <2>8. Forgotten(u, tree', x)
    BY <2>2, <2>7, ForgetEffect
  <2>9. Ordered(tree', live \ {x}, at2)
    BY <2>6, <2>7, <2>8, ForgetColors
  <2>10. \A z \in Nodes \ live : u.parent[z] = Null /\ \A s \in Sides : u.child[s][z] = Null
    BY <1>4, <2>5 DEF Unlinks, Outside
  <2>11. TreeOK(tree', live \ {x}, Null)
    BY <1>4, <2>3, <2>6, <2>8, <2>9, <2>10, FreedIInv
  <2>12. TypeOK'
    BY <1>1, <1>2, <1>4, <2>2, <2>9, TypeFromTree DEF TypeOK
  <2> QED BY <1>1, <1>2, <1>5, <2>2, <2>11, <2>12 DEF IInv
<1> QED BY <1>6, <1>7

LEMMA NextIInv == IInv /\ [Next]_vars => IInv'
<1> SUFFICES ASSUME IInv, [Next]_vars PROVE IInv'
  OBVIOUS
<1>1. CASE UNCHANGED vars
  <2>1. tree' = tree /\ live' = live /\ pc' = pc /\ node' = node /\ par' = par /\ doomed' = doomed
    BY <1>1 DEF vars, loop
  <2> QED BY <2>1 DEF IInv, TypeOK
<1>2. CASE Next
  BY <1>2, InsertIInv, InsertFixUpIInv, InsertEndsIInv, RemoveIInv, RemoveFixUpIInv, RemoveEndsIInv,
     DestroyIInv DEF Next
<1> QED BY <1>1, <1>2

LEMMA SpecIInv == Spec => []IInv
BY InitIInv, NextIInv, PTL DEF Spec

-----------------------------------------------------------------------------
(* What the invariant says of the tree.                                    *)

LEMMA LinkedIs ==
    ASSUME IInv
    PROVE  Linked = live \ {doomed} /\ Len(InOrder(tree)) = Cardinality(Linked)
<1>1. PICK at : Ordered(tree, live \ {doomed}, at)
  BY Known
<1>2. Loose(tree, live \ {doomed})
  BY Known
<1>3. /\ {InOrder(tree)[i] : i \in DOMAIN InOrder(tree)} = live \ {doomed}
      /\ Len(InOrder(tree)) = Cardinality(live \ {doomed})
  BY <1>1, <1>2, InOrderCounts DEF Ordered
<1> QED BY <1>3, Zenon DEF Linked

LEMMA IInvLinks == IInv => WellLinked
<1> SUFFICES ASSUME IInv PROVE WellLinked
  OBVIOUS
<1> DEFINE L == live \ {doomed}
<1>1. PICK at : Ordered(tree, L, at)
  BY Known
<1>2. /\ tree.mRoot # Null => tree.parent[tree.mRoot] = Null
      /\ \A x \in L, s \in Sides : tree.child[s][x] # Null => tree.parent[tree.child[s][x]] = x
  BY <1>1 DEF Ordered, Tree, Shape
<1>3. TypeOK
  BY DEF IInv
<1> QED BY <1>2, <1>3, LinkedIs DEF WellLinked

\* rbtree.h links the allocated nodes, each once and with the parent it says, at
\* every moment: what remove() unlinks is what it deletes, and destroy() takes
\* its leaf out before it deletes it.
THEOREM WellLinkedCorrect == Spec => []WellLinked
BY SpecIInv, IInvLinks, PTL

-----------------------------------------------------------------------------
(* The colors.                                                             *)

\* What BlackHeight adds to the height of x's left child.
Lower(x) == (IF Short(x, "left") THEN 1 ELSE 0) + (IF Red(tree, x) THEN 0 ELSE 1)

LEMMA LowerIs == \A x : Lower(x) \in Nat
BY DEF Lower

LEMMA BlackHeightIsDefined ==
    ASSUME IsTree(tree), NEW rank, NEW N, Descends(tree, rank, N)
    PROVE  \E f : /\ BlackHeight = f
                  /\ \A x \in Pointers : f[x] = IF x = Null THEN 0
                                                ELSE f[tree.child["left"][x]] + (IF Short(x, "left") THEN 1 ELSE 0)
                                                                              + (IF Red(tree, x) THEN 0 ELSE 1)
<1> DEFINE left(x) == tree.child["left"][x]
           Body(x, f) == IF x = Null THEN 0 ELSE f[left(x)] + Lower(x)
           Raw(x, f) == IF x = Null THEN 0
                        ELSE f[tree.child["left"][x]] + (IF Short(x, "left") THEN 1 ELSE 0)
                                                      + (IF Red(tree, x) THEN 0 ELSE 1)
           Def(f) == f = [x \in Pointers |-> Raw(x, f)]
           G == [x \in Pointers |-> [f \in [Pointers -> Nat] |-> Body(x, f)]]
<1>1. \A x \in Pointers : x # Null => left(x) \in Pointers /\ rank[left(x)] < rank[x]
  <2>1. SUFFICES ASSUME NEW x \in Pointers, x # Null PROVE left(x) \in Pointers /\ rank[left(x)] < rank[x]
    OBVIOUS
  <2>2. x \in Nodes /\ rank[Null] = 0 /\ rank[x] \in Nat /\ 0 < rank[x]
    BY <2>1 DEF Pointers, Descends
  <2> QED BY <2>2, SidesAre DEF IsTree, Pointers, Descends
<1>2. BlackHeight = CHOOSE f : Def(f)
  BY Zenon DEF BlackHeight, Pointers
<1> HIDE DEF left
<1>3. Recursive(Pointers, Nat, rank, N, G)
  <2>1. G \in [Pointers -> [[Pointers -> Nat] -> Nat]]
    BY <1>1, LowerIs
  <2>2. \A x \in Pointers : \A f, g \in [Pointers -> Nat] :
           (\A y \in Pointers : rank[y] < rank[x] => f[y] = g[y]) => G[x][f] = G[x][g]
    BY <1>1
  <2>3. N \in Nat /\ \A x \in Pointers : rank[x] \in Nat /\ rank[x] < N
    BY DEF Descends, Pointers
  <2> QED BY <2>1, <2>2, <2>3 DEF Recursive
<1>4. \A x \in Pointers : \A f \in [Pointers -> Nat] : G[x][f] = Body(x, f)
  OBVIOUS
<1> HIDE DEF G
<1>5. PICK f \in [Pointers -> Nat] : \A x \in Pointers : f[x] = G[x][f]
  BY <1>3, Recursion
<1>6. \A g \in [Pointers -> Nat], x \in Pointers : Raw(x, g) = Body(x, g)
  <2>1. SUFFICES ASSUME NEW g \in [Pointers -> Nat], NEW x \in Pointers, x # Null
                 PROVE  Raw(x, g) = Body(x, g)
    OBVIOUS
  <2>2. g[left(x)] \in Nat /\ tree.child["left"][x] = left(x)
    BY <1>1, <2>1 DEF left
  <2> HIDE DEF left
  <2> QED BY <2>2 DEF Lower
<1> HIDE DEF Raw, Body
<1>7. Def(f)
  BY <1>4, <1>5, <1>6
<1>8. PICK h : h = CHOOSE g : Def(g)
  OBVIOUS
<1>9. Def(h)
  BY <1>7, <1>8, Zenon
<1>10. \A x \in Pointers : h[x] = Raw(x, h)
  BY <1>9
<1> USE DEF Raw
<1> HIDE DEF Def
<1>11. BlackHeight = h
  BY <1>2, <1>8, Zenon
<1> QED BY <1>10, <1>11, Zenon

\* The heights H, with the way from p to side s one short, where removeFixUp() is.
Heights(H, p, s) ==
    /\ Balanced(tree, live \ {doomed}, H, p, s)
    /\ \A x \in live \ {doomed}, r \in Sides : Short(x, r) <=> x = p /\ r = s

LEMMA ShortIs ==
    ASSUME IInv, pc # "destroyed"
    PROVE  \E H, p, s : Heights(H, p, s)
<1> DEFINE L == live \ {doomed}
<1>1. Null \notin L /\ Stage(tree, L, pc, node, par, doomed) /\ TypeOK
  BY Known DEF IInv
<1> HIDE DEF L
<1>2. CASE pc = "removeFixUp" /\ node # tree.mRoot
  <2>1. PICK H : Balanced(tree, L, H, par, Toward(tree, par, node))
    BY <1>1, <1>2 DEF Stage, Mending
  <2>2. \A x \in L, r \in Sides : Short(x, r) <=> x = par /\ r = Toward(tree, par, node)
    BY <1>2 DEF Short, Toward
  <2>3. Heights(H, par, Toward(tree, par, node))
    BY <2>1, <2>2 DEF L, Heights
  <2> QED BY <2>3
<1>3. CASE ~(pc = "removeFixUp" /\ node # tree.mRoot)
  <2>1. pc \in {"idle", "insertFixUp", "removeFixUp"}
    BY <1>1 DEF TypeOK
  <2>2. PICK H : Balanced(tree, L, H, Null, "left")
    BY <1>1, <1>3, <2>1 DEF Stage, Clean, Rising, Mending
  <2>3. \A x \in L, r \in Sides : Short(x, r) <=> x = Null /\ r = "left"
    BY <1>1, <1>3 DEF Short
  <2>4. Heights(H, Null, "left")
    BY <2>2, <2>3 DEF L, Heights
  <2> QED BY <2>4
<1> QED BY <1>2, <1>3

\* The black height counted on the way to the left is the one the invariant has.
LEMMA HeightIs ==
    ASSUME IInv, NEW H, NEW p, NEW s, Heights(H, p, s)
    PROVE  \A x \in (live \ {doomed}) \cup {Null} : BlackHeight[x] = H[x]
<1> DEFINE L == live \ {doomed}
           Bad == {x \in L : BlackHeight[x] # H[x]}
<1>1. PICK lo, at, hi : Tree(tree, L, lo, at, hi)
  BY Known DEF Ordered
<1>2. IsTree(tree) /\ L \subseteq Nodes /\ Null \notin L /\ Loose(tree, L)
  BY <1>1, Known DEF Tree, Shape
<1>3. PICK rank, N : Descends(tree, rank, N)
  BY <1>1, <1>2, DownRank
<1>4. PICK h : /\ BlackHeight = h
               /\ \A x \in Pointers : h[x] = IF x = Null THEN 0
                                             ELSE h[tree.child["left"][x]] + (IF Short(x, "left") THEN 1 ELSE 0)
                                                                           + (IF Red(tree, x) THEN 0 ELSE 1)
  BY <1>2, <1>3, BlackHeightIsDefined
<1>5. h[Null] = 0 /\ H[Null] = 0
  BY <1>4 DEF Heights, Balanced, Pointers
<1>6. Bad = {}
  <2>1. SUFFICES ASSUME Bad # {} PROVE FALSE
    OBVIOUS
  <2>2. Bad \subseteq L
    OBVIOUS
  <2>3. PICK x \in Bad : \A r \in Sides :
            tree.child[r][x] # Null => tree.child[r][x] \in L /\ tree.child[r][x] \notin Bad
    <3> HIDE DEF Bad, L
    <3> QED BY <1>1, <2>1, <2>2, LowestBad
  <2> DEFINE c == tree.child["left"][x]
  <2>4. h[c] = H[c]
    BY <1>4, <1>5, <2>3, SidesAre
  <2>5. H[x] = H[c] + (IF x = p /\ "left" = s THEN 1 ELSE 0) + (IF tree.color[x] = "RED" THEN 0 ELSE 1)
    BY <2>3, SidesAre DEF Heights, Balanced
  <2>6. Short(x, "left") <=> x = p /\ "left" = s
    BY <2>3, SidesAre DEF Heights
  <2>7. Red(tree, x) <=> tree.color[x] = "RED"
    BY <1>2, <2>3 DEF Red
  <2>8. h[x] = h[c] + (IF Short(x, "left") THEN 1 ELSE 0) + (IF Red(tree, x) THEN 0 ELSE 1)
    BY <1>2, <1>4, <2>3 DEF Pointers
  <2> HIDE DEF c
  <2>9. h[x] = H[x]
    BY <2>4, <2>5, <2>6, <2>7, <2>8
  <2> QED BY <1>4, <2>3, <2>9
<1> HIDE DEF L
<1>7. \A x \in L : BlackHeight[x] = H[x]
  BY <1>6
<1> QED BY <1>4, <1>5, <1>7 DEF L

LEMMA RedIs ==
    ASSUME IInv, pc # "destroyed", NEW x \in live \ {doomed}, Red(tree, x)
    PROVE  \/ Black(tree, tree.parent[x]) /\ x # tree.mRoot
           \/ x = node
           \/ pc = "removeFixUp" /\ tree.parent[x] = node
<1> DEFINE L == live \ {doomed}
<1>1. PICK at : Ordered(tree, L, at)
  BY Known
<1>2. /\ Stage(tree, L, pc, node, par, doomed) /\ pc \in {"idle", "insertFixUp", "removeFixUp"}
      /\ IsTree(tree) /\ x \in L
  BY <1>1 DEF IInv, TypeOK, Ordered, Tree, Shape
<1> HIDE DEF L
<1> DEFINE Ruled == x # tree.mRoot /\ (tree.parent[x] \in Nodes => tree.color[tree.parent[x]] = "BLACK")
<1>3. Ruled => Black(tree, tree.parent[x]) /\ x # tree.mRoot
  <2>1. x \in Nodes
    BY Known
  <2>2. tree.parent[x] \in Nodes \/ tree.parent[x] = Null
    BY <1>2, <2>1 DEF IsTree, Pointers
  <2> QED BY <2>2 DEF Black, Red
<1>4. tree.color[x] = "RED"
  BY DEF Red
<1>5. CASE pc = "idle"
  <2>1. RedRule(tree, L, {})
    BY <1>2, <1>5 DEF Stage, Clean
  <2>2. Ruled
    BY <1>2, <1>4, <2>1 DEF RedRule
  <2> QED BY <1>3, <2>2
<1>6. CASE pc = "insertFixUp"
  <2>1. RedRule(tree, L, {node})
    BY <1>2, <1>6 DEF Stage, Rising
  <2>2. Ruled \/ x = node
    BY <1>2, <1>4, <2>1 DEF RedRule
  <2> QED BY <1>3, <2>2
<1>7. CASE pc = "removeFixUp"
  <2>1. RedRule(tree, L, {node} \cup {y \in L : Red(tree, node) /\ tree.parent[y] = node})
    BY <1>2, <1>7 DEF Stage, Mending
  <2>2. Ruled \/ x = node \/ tree.parent[x] = node
    BY <1>2, <1>4, <2>1 DEF RedRule
  <2> QED BY <1>3, <1>7, <2>2
<1> QED BY <1>2, <1>5, <1>6, <1>7

LEMMA IInvColors == IInv => RedBlack
<1> SUFFICES ASSUME IInv, pc # "destroyed", NEW x \in Linked
             PROVE  /\ Red(tree, x) => \/ Black(tree, tree.parent[x]) /\ x # tree.mRoot
                                       \/ x = node
                                       \/ pc = "removeFixUp" /\ tree.parent[x] = node
                    /\ BlackHeight[tree.child["left"][x]] + (IF Short(x, "left") THEN 1 ELSE 0)
                       = BlackHeight[tree.child["right"][x]] + (IF Short(x, "right") THEN 1 ELSE 0)
  BY Zenon DEF RedBlack
<1>1. x \in live \ {doomed}
  BY LinkedIs
<1>2. PICK H, p, s : Heights(H, p, s)
  BY ShortIs
<1>3. PICK at : Ordered(tree, live \ {doomed}, at)
  BY Known
<1> DEFINE l == tree.child["left"][x]
           r == tree.child["right"][x]
<1>4. l \in (live \ {doomed}) \cup {Null} /\ r \in (live \ {doomed}) \cup {Null}
  BY <1>1, <1>3, SidesAre DEF Ordered, Tree, Shape
<1>5. BlackHeight[l] = H[l] /\ BlackHeight[r] = H[r]
  BY <1>2, <1>4, HeightIs
<1>6. /\ H[x] = H[l] + (IF x = p /\ "left" = s THEN 1 ELSE 0) + (IF tree.color[x] = "RED" THEN 0 ELSE 1)
      /\ H[x] = H[r] + (IF x = p /\ "right" = s THEN 1 ELSE 0) + (IF tree.color[x] = "RED" THEN 0 ELSE 1)
  BY <1>1, <1>2, SidesAre DEF Heights, Balanced
<1>7. (Short(x, "left") <=> x = p /\ "left" = s) /\ (Short(x, "right") <=> x = p /\ "right" = s)
  BY <1>1, <1>2, SidesAre DEF Heights
<1>8. H[l] \in Nat /\ H[r] \in Nat
  BY <1>2, <1>3, <1>4 DEF Heights, Balanced, Ordered, Tree, Shape, Pointers
<1> HIDE DEF l, r
<1>9. H[l] + (IF Short(x, "left") THEN 1 ELSE 0) = H[r] + (IF Short(x, "right") THEN 1 ELSE 0)
  BY <1>6, <1>7, <1>8
<1>10. BlackHeight[l] + (IF Short(x, "left") THEN 1 ELSE 0) = BlackHeight[r] + (IF Short(x, "right") THEN 1 ELSE 0)
  BY <1>5, <1>9
<1> QED BY <1>1, <1>10, RedIs DEF l, r

\* What insert() and remove() leave is a red-black tree, and so is what their
\* loops work on but for the node under repair: the rules of rbtree.h, at every
\* moment but after destroy().
THEOREM RedBlackCorrect == Spec => []RedBlack
BY SpecIInv, IInvColors, PTL

-----------------------------------------------------------------------------
(* The bag of keys.                                                        *)

Bag == live \ {doomed}

\* What a step does to the bag.
PutsIn(n) ==
    /\ State = "idle" /\ n \notin Bag
    /\ asked' = <<"insert", n>> /\ Bag' = Bag \cup {n} /\ State' = "busy"

TakesOut(k) == \E n \in Bag : Key[n] = k /\ Bag' = Bag \ {n} /\ State' \in {"idle", "busy"}
HasNone(k)  == (\A n \in Bag : Key[n] # k) /\ Bag' = Bag /\ State' = State

Removes(k) == State = "idle" /\ asked' = <<"remove", k>> /\ (TakesOut(k) \/ HasNone(k))

KeepsBag == Bag' = Bag /\ asked' = asked
BagStep ==
    \/ KeepsBag /\ State' = State
    \/ KeepsBag /\ State = "busy" /\ State' = "idle"
    \/ \E n \in Nodes : PutsIn(n) \/ Removes(Key[n])
    \/ State = "idle" /\ State' = "destroyed" /\ Bag' \subseteq Bag /\ asked' = asked

\* Whatever node is unlinked, it is the one that remove() has found.
LEMMA UnlinkedTakes ==
    ASSUME NEW u, NEW x, NEW color, NEW n, NEW p, Unlinked(u, x, color, n, p)
    PROVE  \/ doomed' = x /\ live' = live /\ pc' = "removeFixUp"
           \/ doomed' = doomed /\ live' = live \ {x} /\ pc' = pc
BY DEF Unlinked, loop

LEMMA RemoveTakes ==
    ASSUME IInv, NEW k \in Keys, Remove(k)
    PROVE  Removes(k)
<1>1. pc = "idle" /\ State = "idle" /\ asked' = <<"remove", k>>
  BY RemoveIs DEF State
<1>2. doomed = Null /\ Bag = live /\ live \subseteq Nodes /\ Null \notin live
  <2>1. doomed = Null
    BY <1>1 DEF IInv, Stage
  <2> QED BY <2>1, Known DEF Bag
<1>3. PICK at : Ordered(tree, live, at) /\ Sorted(live, at)
  BY <1>2, Known DEF Bag
<1>4. k \in Int /\ Loose(tree, live)
  BY <1>2, Known, KeyIs DEF Keys, Bag
<1>5. PICK x : x = Search(tree, k)
  OBVIOUS
<1>6. /\ x \in live \cup {Null} /\ (x # Null => Key[x] = k)
      /\ x = Null => \A z \in live : Key[z] # k
  <2>1. PICK lo, hi : Tree(tree, live, lo, at, hi)
    BY <1>3 DEF Ordered
  <2> QED BY <1>3, <1>4, <1>5, <2>1, SearchIs
<1>7. CASE x = Null /\ UNCHANGED <<tree, live, loop>>
  <2>1. Bag' = Bag /\ State' = State
    BY <1>7 DEF Bag, State, loop
  <2>2. HasNone(k)
    BY <1>2, <1>6, <1>7, <2>1 DEF HasNone
  <2> QED BY <1>1, <2>2 DEF Removes
<1>8. CASE x # Null /\ Taken(x)
  <2>1. \E u, color, n, p : Unlinked(u, x, color, n, p)
    BY <1>8, Zenon DEF Taken, RemoveInner, RemoveOuter
  <2>2. \/ doomed' = x /\ live' = live /\ pc' = "removeFixUp"
        \/ doomed' = doomed /\ live' = live \ {x} /\ pc' = pc
    BY <2>1, UnlinkedTakes
  <2>3. Bag' = Bag \ {x} /\ x \in Bag /\ State' \in {"idle", "busy"}
    BY <1>1, <1>2, <1>6, <1>8, <2>2 DEF Bag, State
  <2>4. TakesOut(k)
    BY <1>6, <1>8, <2>3 DEF TakesOut
  <2> QED BY <1>1, <2>4 DEF Removes
<1> QED BY <1>5, <1>7, <1>8, RemoveIs

LEMMA NextIsBagStep ==
    ASSUME IInv, [Next]_vars
    PROVE  BagStep
<1>1. live \subseteq Nodes /\ Null \notin live /\ (doomed = Null => Bag = live)
  BY Known DEF Bag
<1>2. CASE UNCHANGED vars
  <2>1. KeepsBag /\ State' = State
    BY <1>2 DEF KeepsBag, Bag, State, vars, loop
  <2> QED BY <2>1 DEF BagStep
<1>3. ASSUME NEW n \in Nodes, Insert(n) PROVE BagStep
  <2>1. /\ pc = "idle" /\ n \notin live /\ live' = live \cup {n} /\ doomed' = doomed
        /\ pc' = "insertFixUp" /\ asked' = <<"insert", n>>
    BY <1>3 DEF Insert
  <2>2. doomed = Null
    BY <2>1 DEF IInv, Stage
  <2>3. n \notin Bag /\ Bag' = Bag \cup {n}
    BY <1>1, <2>1, <2>2 DEF Bag
  <2>4. PutsIn(n)
    BY <2>1, <2>3 DEF PutsIn, State
  <2> QED BY <2>4 DEF BagStep
<1>4. CASE InsertFixUp \/ RemoveFixUp
  <2>1. KeepsBag /\ State' = State
    BY <1>4 DEF InsertFixUp, RemoveFixUp, KeepsBag, Bag, State
  <2> QED BY <2>1 DEF BagStep
<1>5. CASE InsertEnds \/ RemoveEnds
  <2>1. /\ pc \in {"insertFixUp", "removeFixUp"} /\ pc' = "idle" /\ asked' = asked
        /\ \/ live' = live /\ doomed' = doomed
           \/ live' = live \ {doomed} /\ doomed' = Null
    BY <1>5 DEF InsertEnds, RemoveEnds
  <2>2. KeepsBag /\ State = "busy" /\ State' = "idle"
    BY <1>1, <2>1 DEF KeepsBag, Bag, State
  <2> QED BY <2>2 DEF BagStep
<1>6. ASSUME NEW k \in Keys, Remove(k) PROVE BagStep
  <2>1. Removes(k)
    BY <1>6, RemoveTakes
  <2>2. PICK n \in Nodes : k = Key[n]
    BY DEF Keys
  <2> QED BY <2>1, <2>2 DEF BagStep
<1>7. CASE Destroy
  <2>1. /\ pc = "idle" /\ pc' = "destroyed" /\ asked' = asked /\ doomed' = doomed
        /\ live' \subseteq live
    BY <1>7 DEF Destroy
  <2>2. State = "idle" /\ State' = "destroyed" /\ Bag' \subseteq Bag
    BY <2>1 DEF State, Bag
  <2> QED BY <2>1, <2>2 DEF BagStep
<1> QED BY <1>2, <1>3, <1>4, <1>5, <1>6, <1>7 DEF Next

\* The nodes that inOrder() lists are those of the bag.
Listed == Linked = Bag

LEMMA IInvLists == IInv => Listed
BY LinkedIs DEF Bag, Listed

\* rbtree.h is a bag of keys: insert() puts in the node it was asked for, remove()
\* takes out one with the key it was asked for, if and only if there is one, and
\* no step of a repair loop changes what is there.
THEOREM TreeIsKeyBag == Spec => IsKeyBag
<1>1. Init => Abstract!Init
  <2>1. SUFFICES ASSUME Init PROVE Abstract!Init
    OBVIOUS
  <2>2. Linked = {}
    BY <2>1, InitIInv, IInvLists DEF Init, Bag, Listed
  <2> QED BY <2>1, <2>2 DEF Init, State, Abstract!Init
<1>2. IInv /\ [Next]_vars /\ Listed /\ Listed' => [Abstract!Next]_<<Linked, asked, State>>
  <2>1. SUFFICES ASSUME IInv, [Next]_vars, Linked = Bag, Linked' = Bag'
                 PROVE  [Abstract!Next]_<<Linked, asked, State>>
    BY DEF Listed
  <2>2. BagStep
    BY <2>1, NextIsBagStep
  <2>3. CASE KeepsBag /\ State' = State
    BY <2>1, <2>3 DEF KeepsBag
  <2>4. CASE KeepsBag /\ State = "busy" /\ State' = "idle"
    BY <2>1, <2>4 DEF KeepsBag, Abstract!Next, Abstract!Finish
  <2>5. ASSUME NEW n \in Nodes, PutsIn(n) PROVE Abstract!Next
    <3>1. Abstract!Insert(n)
      BY <2>1, <2>5 DEF PutsIn, Abstract!Insert
    <3> QED BY <3>1 DEF Abstract!Next
  <2>6. ASSUME NEW n \in Nodes, Removes(Key[n]) PROVE Abstract!Next
    <3>1. TakesOut(Key[n]) => Abstract!Takes(Key[n])
      BY <2>1 DEF TakesOut, Abstract!Takes
    <3>2. HasNone(Key[n]) => Abstract!FindsNone(Key[n])
      BY <2>1 DEF HasNone, Abstract!FindsNone
    <3>3. Abstract!Remove(Key[n])
      BY <2>6, <3>1, <3>2 DEF Removes, Abstract!Remove
    <3> QED BY <3>3 DEF Abstract!Next
  <2>7. CASE State = "idle" /\ State' = "destroyed" /\ Bag' \subseteq Bag /\ asked' = asked
    BY <2>1, <2>7 DEF Abstract!Next, Abstract!Destroy
  <2> QED BY <2>2, <2>3, <2>4, <2>5, <2>6, <2>7 DEF BagStep
<1> QED BY <1>1, <1>2, SpecIInv, IInvLists, PTL DEF Spec, IsKeyBag, Abstract!Spec

-----------------------------------------------------------------------------
(* The way up.                                                             *)

\* Each step up lowers the rank.
Climbs(t, rank, N) ==
    /\ N \in Nat
    /\ \A x \in Nodes : rank[x] \in Nat /\ rank[x] < N
    /\ \A x \in Nodes : t.parent[x] # Null => rank[t.parent[x]] < rank[x]

LEMMA UpRank ==
    ASSUME NEW t, NEW L, NEW lo, NEW at, NEW hi, Tree(t, L, lo, at, hi), Loose(t, L)
    PROVE  \E rank, N : Climbs(t, rank, N)
<1> DEFINE W == hi[Null] - lo[Null]
           V == IF 0 <= W THEN W ELSE 0
           depth(x) == W - (hi[x] - lo[x])
           rank == [x \in Nodes |-> IF x \in L THEN depth(x) ELSE V + 1]
<1>1. L \subseteq Nodes /\ Null \notin Nodes /\ IsTree(t)
  BY DEF Tree, Shape
<1>2. lo[Null] \in Int /\ hi[Null] \in Int /\ \A x \in Nodes : lo[x] \in Int /\ at[x] \in Int /\ hi[x] \in Int
  BY DEF Tree, Placed, Pointers
<1>3. \A x \in L : depth(x) \in Nat /\ depth(x) <= V
  BY <1>1, <1>2 DEF Tree, Placed
<1>4. V \in Nat
  BY <1>2
<1>5. \A x \in L : x # t.mRoot => t.parent[x] \in L /\ depth(t.parent[x]) < depth(x)
  <2>1. SUFFICES ASSUME NEW x \in L, x # t.mRoot PROVE t.parent[x] \in L /\ depth(t.parent[x]) < depth(x)
    OBVIOUS
  <2> DEFINE p == t.parent[x]
  <2>2. p \in L /\ x # Null /\ \E s \in Sides : t.child[s][p] = x
    BY <2>1, ParentOf
  <2> HIDE DEF p
  <2>3. hi[x] - lo[x] < hi[p] - lo[p] /\ lo[x] \in Int /\ lo[p] \in Int /\ hi[x] \in Int /\ hi[p] \in Int
    BY <2>2, Nested
  <2> QED BY <1>2, <2>2, <2>3 DEF p
<1> HIDE DEF V, depth
<1>6. /\ \A x \in L : rank[x] = depth(x)
      /\ \A x \in Nodes \ L : rank[x] = V + 1
  BY <1>1
<1> HIDE DEF rank
<1>7. \A x \in Nodes : rank[x] \in Nat /\ rank[x] < V + 2
  BY <1>3, <1>4, <1>6
<1>8. ASSUME NEW x \in Nodes, t.parent[x] # Null
      PROVE  rank[t.parent[x]] < rank[x]
  <2> DEFINE p == t.parent[x]
  <2>1. CASE x \in L
    <3>1. x # t.mRoot
      BY <1>8, <2>1 DEF Tree, Shape
    <3> QED BY <1>5, <1>6, <2>1, <3>1
  <2>2. CASE x \notin L
    <3>1. p \in L
      BY <1>8, <2>2 DEF Loose
    <3> HIDE DEF p
    <3>2. rank[p] <= V /\ rank[p] \in Nat /\ rank[x] = V + 1
      BY <1>3, <1>6, <2>2, <3>1
    <3> QED BY <1>4, <3>2 DEF p
  <2> QED BY <2>1, <2>2
<1>9. Climbs(t, rank, V + 2)
  BY <1>4, <1>7, <1>8 DEF Climbs
<1> QED BY <1>9

\* The loop of successor() and of predecessor() is defined.
LEMMA AncestorIsDefined ==
    ASSUME NEW t, IsTree(t), NEW rank, NEW N, Climbs(t, rank, N), NEW s \in Sides
    PROVE  \E f : /\ \A y \in Nodes : f[y] = IF t.parent[y] # Null /\ y = t.child[s][t.parent[y]]
                                             THEN f[t.parent[y]] ELSE t.parent[y]
                  /\ \A x : Ancestor(t, x, s) = f[x]
<1> DEFINE Body(y, f) == IF t.parent[y] # Null /\ y = t.child[s][t.parent[y]] THEN f[t.parent[y]] ELSE t.parent[y]
           Def(f) == f = [y \in Nodes |-> Body(y, f)]
           G == [y \in Nodes |-> [f \in [Nodes -> Pointers] |-> Body(y, f)]]
<1>0. Null \in Pointers
  BY DEF Pointers
<1>1. Recursive(Nodes, Pointers, rank, N, G)
  <2>1. G \in [Nodes -> [[Nodes -> Pointers] -> Pointers]]
    BY DEF IsTree, Pointers
  <2>2. \A x \in Nodes : \A f, g \in [Nodes -> Pointers] :
           (\A y \in Nodes : rank[y] < rank[x] => f[y] = g[y]) => G[x][f] = G[x][g]
    BY DEF IsTree, Pointers, Climbs
  <2>3. N \in Nat /\ \A x \in Nodes : rank[x] \in Nat /\ rank[x] < N
    BY DEF Climbs
  <2> QED BY <2>1, <2>2, <2>3 DEF Recursive
<1>2. \A y \in Nodes : \A f \in [Nodes -> Pointers] : G[y][f] = Body(y, f)
  OBVIOUS
<1> HIDE DEF G
<1>3. PICK f \in [Nodes -> Pointers] : \A y \in Nodes : f[y] = G[y][f]
  BY <1>0, <1>1, Recursion
<1>4. Def(f)
  BY <1>2, <1>3
<1>5. \A x : Ancestor(t, x, s) = (CHOOSE g : Def(g))[x]
  BY Zenon DEF Ancestor
<1> HIDE DEF Def
<1>6. PICK h : h = CHOOSE g : Def(g)
  OBVIOUS
<1>7. Def(h)
  BY <1>4, <1>6, Zenon
<1>8. \A y \in Nodes : h[y] = Body(y, h)
  BY <1>7 DEF Def
<1>9. \A x : Ancestor(t, x, s) = h[x]
  BY <1>5, <1>6, Zenon
<1> QED BY <1>8, <1>9, Zenon

\* What has its place within the bounds of p is p or within those of a child.
LEMMA Between ==
    ASSUME NEW t, NEW L, NEW lo, NEW at, NEW hi, Tree(t, L, lo, at, hi), Loose(t, L),
           NEW p \in L, NEW z \in L, lo[p] < at[z], at[z] < hi[p], z # p
    PROVE  \E r \in Sides : /\ t.child[r][p] # Null /\ t.child[r][p] \in L
                            /\ lo[t.child[r][p]] < at[z] /\ at[z] < hi[t.child[r][p]]
                            /\ r = "left" => at[z] < at[p]
                            /\ r = "right" => at[p] < at[z]
<1>1. PICK W : Walks(t, L, lo, at, hi, W) /\ InOrder(t) = W[t.mRoot]
  BY WalkIs
<1>2. In(z, W[p])
  BY <1>1, Inside
<1>3. PICK r \in Sides : In(z, W[t.child[r][p]])
  BY <1>1, <1>2, SidesAre DEF Walks
<1> DEFINE c == t.child[r][p]
<1>4. c # Null /\ c \in L /\ In(z, W[c]) /\ (r = "left" => at[z] < at[p]) /\ (r = "right" => at[p] < at[z])
  BY <1>1, <1>3, WalkBounds
<1> HIDE DEF c
<1>5. lo[c] < at[z] /\ at[z] < hi[c]
  BY <1>1, <1>4, WalkBounds
<1> QED BY <1>4, <1>5 DEF c

\* z is past x, or past all that is below x, on side s; m is as near as z.
Past(at, s, x, z) == IF s = "right" THEN at[x] < at[z] ELSE at[z] < at[x]
Beyond(lo, at, hi, s, x, z) == IF s = "right" THEN hi[x] <= at[z] ELSE at[z] <= lo[x]
Nearer(at, s, m, z) == IF s = "right" THEN at[m] <= at[z] ELSE at[z] <= at[m]

\* m is the next node of the tree past x, or past what is below x, or there is none.
NextTo(L, at, s, x, m) ==
    /\ m = Null => \A z \in L : ~Past(at, s, x, z)
    /\ m # Null => m \in L /\ Past(at, s, x, m) /\ \A z \in L : Past(at, s, x, z) => Nearer(at, s, m, z)
NextAbove(L, lo, at, hi, s, x, m) ==
    /\ m = Null => \A z \in L : ~Beyond(lo, at, hi, s, x, z)
    /\ m # Null => m \in L /\ Beyond(lo, at, hi, s, x, m)
                   /\ \A z \in L : Beyond(lo, at, hi, s, x, z) => Nearer(at, s, m, z)

LEMMA PlacesAre ==
    ASSUME NEW t, NEW L, NEW lo, NEW at, NEW hi, Tree(t, L, lo, at, hi)
    PROVE  \A x \in L : /\ lo[x] \in Int /\ at[x] \in Int /\ hi[x] \in Int
                        /\ lo[x] < at[x] /\ at[x] < hi[x] /\ x # Null /\ x \in Nodes
BY DEF Tree, Shape, Placed, Pointers

\* The root has everything below it.
LEMMA RootIsAround ==
    ASSUME NEW t, NEW L, NEW lo, NEW at, NEW hi, Tree(t, L, lo, at, hi), Loose(t, L),
           NEW x \in L, x = t.mRoot
    PROVE  \A z \in L : lo[x] < at[z] /\ at[z] < hi[x]
<1>1. PICK W : Walks(t, L, lo, at, hi, W) /\ InOrder(t) = W[t.mRoot]
  BY WalkIs
<1>2. \A z \in L : In(z, W[x])
  BY <1>1, InOrderIs
<1> QED BY <1>1, <1>2, WalkBounds

\* Up from the side s of p: what is past all below x is past all below p.
LEMMA BeyondBoth ==
    ASSUME NEW t, NEW L, NEW lo, NEW at, NEW hi, Tree(t, L, lo, at, hi), Loose(t, L),
           NEW p \in L, NEW s \in Sides, NEW x \in L, t.child[s][p] = x, NEW z \in L
    PROVE  Beyond(lo, at, hi, s, p, z) <=> Beyond(lo, at, hi, s, x, z)
<1>1. /\ lo[p] \in Int /\ at[p] \in Int /\ hi[p] \in Int /\ lo[p] < at[p] /\ at[p] < hi[p]
      /\ lo[x] \in Int /\ at[x] \in Int /\ hi[x] \in Int /\ lo[x] < at[x] /\ at[x] < hi[x] /\ x # Null
      /\ at[z] \in Int
  BY PlacesAre
<1>2. /\ s = "left" => lo[p] <= lo[x] /\ hi[x] <= at[p]
      /\ s = "right" => at[p] <= lo[x] /\ hi[x] <= hi[p]
  BY <1>1, Nested
<1>3. ASSUME lo[p] < at[z], at[z] < hi[p], z # p, Beyond(lo, at, hi, s, x, z) PROVE FALSE
  <2>1. PICK r \in Sides : /\ lo[t.child[r][p]] < at[z] /\ at[z] < hi[t.child[r][p]]
                           /\ r = "left" => at[z] < at[p]
                           /\ r = "right" => at[p] < at[z]
    BY <1>3, Between
  <2>2. CASE r = s
    BY <1>1, <1>3, <2>1, <2>2, SidesAre DEF Beyond
  <2>3. CASE r # s
    BY <1>1, <1>2, <1>3, <2>1, <2>3, SidesAre DEF Beyond
  <2> QED BY <2>2, <2>3
<1>4. s = "left" \/ s = "right"
  BY SidesAre
<1> QED BY <1>1, <1>2, <1>3, <1>4 DEF Beyond

\* Up from the other side of p: p is the next.
LEMMA BeyondOne ==
    ASSUME NEW t, NEW L, NEW lo, NEW at, NEW hi, Tree(t, L, lo, at, hi), Loose(t, L),
           NEW p \in L, NEW s \in Sides, NEW x \in L, t.child[Other(s)][p] = x, NEW z \in L
    PROVE  /\ Beyond(lo, at, hi, s, x, p)
           /\ Beyond(lo, at, hi, s, x, z) => Nearer(at, s, p, z)
<1>1. /\ lo[p] \in Int /\ at[p] \in Int /\ hi[p] \in Int /\ lo[p] < at[p] /\ at[p] < hi[p]
      /\ lo[x] \in Int /\ at[x] \in Int /\ hi[x] \in Int /\ lo[x] < at[x] /\ at[x] < hi[x] /\ x # Null
      /\ at[z] \in Int
  BY PlacesAre
<1>2. (s = "left" /\ Other(s) = "right") \/ (s = "right" /\ Other(s) = "left")
  BY SidesAre
<1>3. /\ s = "right" => lo[p] <= lo[x] /\ hi[x] <= at[p]
      /\ s = "left" => at[p] <= lo[x] /\ hi[x] <= hi[p]
  BY <1>1, <1>2, SidesAre, Nested
<1>4. ASSUME lo[p] < at[z], at[z] < hi[p], z # p, Beyond(lo, at, hi, s, x, z) PROVE Nearer(at, s, p, z)
  <2>1. PICK r \in Sides : /\ lo[t.child[r][p]] < at[z] /\ at[z] < hi[t.child[r][p]]
                           /\ r = "left" => at[z] < at[p]
                           /\ r = "right" => at[p] < at[z]
    BY <1>4, Between
  <2>2. CASE r = Other(s)
    BY <1>1, <1>2, <1>4, <2>1, <2>2 DEF Beyond
  <2>3. CASE r = s
    BY <1>1, <1>2, <2>1, <2>3 DEF Nearer
  <2> QED BY <1>2, <2>2, <2>3, SidesAre
<1> QED BY <1>1, <1>2, <1>3, <1>4 DEF Beyond, Nearer

\* The loop ends at the next node past all that is below x.
LEMMA AncestorIs ==
    ASSUME NEW t, NEW L, NEW lo, NEW at, NEW hi, Tree(t, L, lo, at, hi), Loose(t, L), NEW s \in Sides
    PROVE  \A x \in L : NextAbove(L, lo, at, hi, s, x, Ancestor(t, x, s))
<1>0. IsTree(t) /\ L \subseteq Nodes /\ Null \notin Nodes
  BY DEF Tree, Shape
<1>1. PICK rank, N : Climbs(t, rank, N)
  BY UpRank
<1>2. PICK f : /\ \A y \in Nodes : f[y] = IF t.parent[y] # Null /\ y = t.child[s][t.parent[y]]
                                          THEN f[t.parent[y]] ELSE t.parent[y]
               /\ \A x : Ancestor(t, x, s) = f[x]
  BY <1>0, <1>1, AncestorIsDefined
<1> DEFINE Bad == {x \in L : ~NextAbove(L, lo, at, hi, s, x, f[x])}
<1>3. Bad = {}
  <2>1. SUFFICES ASSUME Bad # {} PROVE FALSE
    OBVIOUS
  <2>2. PICK x \in Bad : x = t.mRoot \/ /\ t.parent[x] \in L /\ t.parent[x] \notin Bad
                                        /\ \E r \in Sides : t.child[r][t.parent[x]] = x
    <3>1. Bad \subseteq L
      OBVIOUS
    <3> HIDE DEF Bad
    <3> QED BY <2>1, <3>1, HighestBad
  <2>3. x \in L /\ x \in Nodes /\ ~NextAbove(L, lo, at, hi, s, x, f[x])
    BY <1>0
  <2> DEFINE p == t.parent[x]
  <2>4. f[x] = IF p # Null /\ x = t.child[s][p] THEN f[p] ELSE p
    BY <1>2, <2>3
  <2>5. CASE x = t.mRoot
    <3>1. f[x] = Null
      BY <2>3, <2>4, <2>5, ParentOf
    <3>2. \A z \in L : lo[x] < at[z] /\ at[z] < hi[x]
      BY <2>3, <2>5, RootIsAround
    <3>3. \A z \in L : at[z] \in Int /\ lo[x] \in Int /\ hi[x] \in Int
      BY <2>3, PlacesAre
    <3>4. \A z \in L : ~Beyond(lo, at, hi, s, x, z)
      BY <3>2, <3>3 DEF Beyond
    <3> QED BY <2>3, <3>1, <3>4 DEF NextAbove
  <2>6. CASE x # t.mRoot
    <3>1. p \in L /\ p # Null /\ NextAbove(L, lo, at, hi, s, p, f[p])
      BY <1>0, <2>2, <2>6
    <3>2. PICK r \in Sides : t.child[r][p] = x /\ t.child[Other(r)][p] # x
      BY <2>3, <3>1, ParentOf
    <3> HIDE DEF p, Bad
    <3>3. CASE r = s
      <4>1. f[x] = f[p]
        BY <2>4, <3>1, <3>2, <3>3
      <4>2. \A z \in L : Beyond(lo, at, hi, s, p, z) <=> Beyond(lo, at, hi, s, x, z)
        BY <2>3, <3>1, <3>2, <3>3, BeyondBoth
      <4> QED BY <2>3, <3>1, <4>1, <4>2 DEF NextAbove
    <3>4. CASE r # s
      <4>1. r = Other(s) /\ s = Other(r)
        BY <3>4, SidesAre
      <4>2. f[x] = p
        BY <2>4, <3>2, <4>1
      <4>3. \A z \in L : Beyond(lo, at, hi, s, x, p) /\ (Beyond(lo, at, hi, s, x, z) => Nearer(at, s, p, z))
        BY <2>3, <3>1, <3>2, <4>1, BeyondOne
      <4> QED BY <2>3, <3>1, <4>2, <4>3 DEF NextAbove
    <3> QED BY <3>3, <3>4
  <2> QED BY <2>5, <2>6
<1> QED BY <1>2, <1>3

\* successor() goes to the right, predecessor() to the left.
Step(t, x, s) == IF s = "right" THEN Successor(t, x) ELSE Predecessor(t, x)

\* Both find the next node of the tree.
LEMMA StepIs ==
    ASSUME NEW t, NEW L, NEW lo, NEW at, NEW hi, Tree(t, L, lo, at, hi), Loose(t, L), NEW s \in Sides, NEW x \in L
    PROVE  NextTo(L, at, s, x, Step(t, x, s))
<1> DEFINE c == t.child[s][x]
<1>1. (s = "left" /\ Other(s) = "right") \/ (s = "right" /\ Other(s) = "left")
  BY SidesAre
<1>2. Step(t, x, s) = IF c # Null THEN Extreme(t, c, Other(s)) ELSE Ancestor(t, x, s)
  BY <1>1 DEF Step, Successor, Predecessor, Minimum, Maximum
<1>3. /\ lo[x] \in Int /\ at[x] \in Int /\ hi[x] \in Int /\ lo[x] < at[x] /\ at[x] < hi[x]
      /\ Null \notin L
  BY PlacesAre
<1>4. CASE c # Null
  <2>1. PICK m : m = Extreme(t, c, Other(s))
    OBVIOUS
  <2>2. /\ m \in L /\ m # x
        /\ s = "right" => at[x] < at[m] /\ \A z \in L : at[x] < at[z] => at[m] <= at[z]
        /\ s = "left" => at[m] < at[x] /\ \A z \in L : at[z] < at[x] => at[z] <= at[m]
    BY <1>4, <2>1, NextPlace
  <2>3. NextTo(L, at, s, x, m)
    BY <1>1, <1>3, <2>2 DEF NextTo, Past, Nearer
  <2> QED BY <1>2, <1>4, <2>1, <2>3
<1>5. CASE c = Null
  <2>1. PICK m : m = Ancestor(t, x, s)
    OBVIOUS
  <2>2. NextAbove(L, lo, at, hi, s, x, m)
    BY <2>1, AncestorIs
  <2>3. ASSUME NEW z \in L PROVE Past(at, s, x, z) <=> Beyond(lo, at, hi, s, x, z)
    <3>1. at[z] \in Int
      BY PlacesAre
    <3>2. ASSUME lo[x] < at[z], at[z] < hi[x], z # x, Past(at, s, x, z) PROVE FALSE
      <4>1. PICK r \in Sides : /\ t.child[r][x] # Null
                               /\ r = "left" => at[z] < at[x]
                               /\ r = "right" => at[x] < at[z]
        BY <3>2, Between
      <4> QED BY <1>1, <1>3, <1>5, <3>1, <3>2, <4>1, SidesAre DEF Past
    <3> QED BY <1>1, <1>3, <3>1, <3>2 DEF Past, Beyond
  <2>4. NextTo(L, at, s, x, m)
    BY <2>2, <2>3 DEF NextTo, NextAbove
  <2> QED BY <1>2, <1>5, <2>1, <2>4
<1> QED BY <1>4, <1>5

\* The next node of the tree is the next of the list.
LEMMA NextOnList ==
    ASSUME NEW L, NEW at \in [Pointers -> Int], L \subseteq Nodes, NEW l, NEW from, NEW to,
           Run(l, L, at, from, to), \A y : In(y, l) <=> y \in L,
           NEW i \in 1 .. Len(l), NEW m
    PROVE  /\ NextTo(L, at, "right", l[i], m) => m = IF i < Len(l) THEN l[i + 1] ELSE Null
           /\ NextTo(L, at, "left", l[i], m) => m = IF i > 1 THEN l[i - 1] ELSE Null
<1> DEFINE n == Len(l)
           place(j) == at[l[j]]
<1>1. n \in Nat /\ \A j \in 1 .. n : l[j] \in L /\ place(j) \in Int
  BY DEF Run, Pointers
<1>2. \A j, k \in 1 .. n : j < k => place(j) < place(k)
  BY DEF Run
<1>3. ASSUME m # Null, m \in L PROVE \E j \in 1 .. n : m = l[j] /\ at[m] = place(j)
  BY <1>3 DEF In
<1> HIDE DEF n
<1>4. ASSUME NextTo(L, at, "right", l[i], m)
      PROVE  m = IF i < n THEN l[i + 1] ELSE Null
  <2>1. m = Null => \A j \in 1 .. n : ~(place(i) < place(j))
    BY <1>1, <1>4 DEF NextTo, Past
  <2>2. m # Null => /\ m \in L /\ place(i) < at[m]
                    /\ \A j \in 1 .. n : place(i) < place(j) => at[m] <= place(j)
    BY <1>1, <1>4 DEF NextTo, Past, Nearer
  <2> HIDE DEF place
  <2>3. CASE m = Null
    <3>1. ~(i < n)
      <4>1. SUFFICES ASSUME i < n PROVE FALSE
        OBVIOUS
      <4>2. n \in 1 .. n /\ i \in 1 .. n
        BY <1>1, <4>1 DEF n
      <4> QED BY <1>2, <2>1, <2>3, <4>1, <4>2
    <3> QED BY <2>3, <3>1
  <2>4. CASE m # Null
    <3>1. PICK j \in 1 .. n : m = l[j] /\ at[m] = place(j)
      BY <1>3, <2>2, <2>4
    <3>2. i \in 1 .. n
      BY DEF n
    <3>3. i < j
      <4>1. ~(j < i) /\ j # i
        BY <1>1, <1>2, <2>2, <2>4, <3>1, <3>2
      <4> QED BY <3>2, <4>1
    <3>4. i < n /\ i + 1 \in 1 .. n
      BY <1>1, <3>2, <3>3
    <3>5. ~(i + 1 < j)
      <4>1. place(i) < place(i + 1)
        BY <1>2, <3>2, <3>4
      <4>2. place(j) <= place(i + 1)
        BY <2>2, <2>4, <3>1, <3>4, <4>1
      <4>3. i + 1 < j => place(i + 1) < place(j)
        BY <1>2, <3>4
      <4> QED BY <1>1, <3>4, <4>2, <4>3
    <3>6. j = i + 1
      BY <3>2, <3>3, <3>5
    <3> QED BY <3>1, <3>4, <3>6
  <2> QED BY <2>3, <2>4
<1>5. ASSUME NextTo(L, at, "left", l[i], m)
      PROVE  m = IF i > 1 THEN l[i - 1] ELSE Null
  <2>1. m = Null => \A j \in 1 .. n : ~(place(j) < place(i))
    BY <1>1, <1>5 DEF NextTo, Past
  <2>2. m # Null => /\ m \in L /\ at[m] < place(i)
                    /\ \A j \in 1 .. n : place(j) < place(i) => place(j) <= at[m]
    BY <1>1, <1>5 DEF NextTo, Past, Nearer
  <2> HIDE DEF place
  <2>3. CASE m = Null
    <3>1. ~(i > 1)
      <4>1. SUFFICES ASSUME i > 1 PROVE FALSE
        OBVIOUS
      <4>2. 1 \in 1 .. n /\ i \in 1 .. n
        BY <1>1, <4>1 DEF n
      <4> QED BY <1>2, <2>1, <2>3, <4>1, <4>2
    <3> QED BY <2>3, <3>1
  <2>4. CASE m # Null
    <3>1. PICK j \in 1 .. n : m = l[j] /\ at[m] = place(j)
      BY <1>3, <2>2, <2>4
    <3>2. i \in 1 .. n
      BY DEF n
    <3>3. j < i
      <4>1. ~(i < j) /\ j # i
        BY <1>1, <1>2, <2>2, <2>4, <3>1, <3>2
      <4> QED BY <3>2, <4>1
    <3>4. i > 1 /\ i - 1 \in 1 .. n
      BY <1>1, <3>2, <3>3
    <3>5. ~(j < i - 1)
      <4>1. place(i - 1) < place(i)
        BY <1>2, <3>2, <3>4
      <4>2. place(i - 1) <= place(j)
        BY <2>2, <2>4, <3>1, <3>4, <4>1
      <4>3. j < i - 1 => place(j) < place(i - 1)
        BY <1>2, <3>4
      <4> QED BY <1>1, <3>4, <4>2, <4>3
    <3>6. j = i - 1
      BY <3>2, <3>3, <3>5
    <3> QED BY <3>1, <3>4, <3>6
  <2> QED BY <2>3, <2>4
<1> QED BY <1>4, <1>5 DEF n

LEMMA IInvNavigates == IInv => Navigation
<1> SUFFICES ASSUME IInv PROVE Navigation
  OBVIOUS
<1> DEFINE L == live \ {doomed}
           l == InOrder(tree)
           n == Len(l)
<1>1. PICK at : Ordered(tree, L, at) /\ Sorted(L, at)
  BY Known
<1>2. PICK lo, hi : Tree(tree, L, lo, at, hi)
  BY <1>1 DEF Ordered
<1>3. Loose(tree, L) /\ L \subseteq Nodes /\ at \in [Pointers -> Int]
  BY <1>2, Known DEF Tree, Shape, Placed
<1> HIDE DEF L
<1>4. Run(l, L, at, lo[Null], hi[Null]) /\ \A y : In(y, l) <=> y \in L
  BY <1>2, <1>3, InOrderIs
<1>5. n \in Nat /\ \A i \in 1 .. n : l[i] \in L
  BY <1>4 DEF Run
<1> HIDE DEF l
<1>6. ASSUME NEW i \in 1 .. n - 1 PROVE Key[l[i]] <= Key[l[i + 1]]
  <2>1. i \in 1 .. n /\ i + 1 \in 1 .. n
    BY <1>5
  <2>2. at[l[i]] < at[l[i + 1]]
    BY <1>4, <2>1 DEF Run
  <2> QED BY <1>1, <1>5, <2>1, <2>2 DEF Sorted
<1>7. ASSUME NEW k \in Keys
      PROVE  IF \E i \in 1 .. n : Key[l[i]] = k THEN Key[Search(tree, k)] = k ELSE Search(tree, k) = Null
  <2>1. k \in Int
    BY KeyIs DEF Keys
  <2>2. /\ Search(tree, k) \in L \cup {Null}
        /\ Search(tree, k) # Null => Key[Search(tree, k)] = k
        /\ Search(tree, k) = Null => \A z \in L : Key[z] # k
    BY <1>1, <1>2, <1>3, <2>1, SearchIs
  <2>3. Search(tree, k) # Null => \E i \in 1 .. n : l[i] = Search(tree, k)
    BY <1>4, <2>2 DEF In
  <2> QED BY <1>5, <2>2, <2>3
<1>8. ASSUME NEW i \in 1 .. n
      PROVE  /\ Successor(tree, l[i]) = IF i < n THEN l[i + 1] ELSE Null
             /\ Predecessor(tree, l[i]) = IF i > 1 THEN l[i - 1] ELSE Null
  <2>1. /\ NextTo(L, at, "right", l[i], Step(tree, l[i], "right"))
        /\ NextTo(L, at, "left", l[i], Step(tree, l[i], "left"))
    BY <1>2, <1>3, <1>5, SidesAre, StepIs
  <2>2. PICK m, p : m = Successor(tree, l[i]) /\ p = Predecessor(tree, l[i])
    OBVIOUS
  <2>3. NextTo(L, at, "right", l[i], m) /\ NextTo(L, at, "left", l[i], p)
    BY <2>1, <2>2 DEF Step
  <2>4. m = IF i < n THEN l[i + 1] ELSE Null
    BY <1>3, <1>4, <2>3, NextOnList
  <2>5. p = IF i > 1 THEN l[i - 1] ELSE Null
    BY <1>3, <1>4, <2>3, NextOnList
  <2> QED BY <2>2, <2>4, <2>5
<1> QED BY <1>6, <1>7, <1>8, Zenon DEF Navigation, l

\* Every search of rbtree.h is right at every moment, in the middle of a repair
\* too: search() finds a key exactly if it is there, inOrder() is sorted, and
\* successor() and predecessor() lead along it, equal keys included.
THEOREM NavigationCorrect == Spec => []Navigation
BY SpecIInv, IInvNavigates, PTL
=============================================================================
