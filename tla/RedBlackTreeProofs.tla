------------------------- MODULE RedBlackTreeProofs -------------------------
(***************************************************************************)
(* What RedBlackTree.h promises of its tree, for every set of keys and     *)
(* every sequence of operations.                                           *)
(*                                                                         *)
(* The inductive invariant TreeInv speaks of two functions that the tree   *)
(* itself does not hold: B, the nodes at and below each node (Shape), and  *)
(* H, the black height of each node (Even).  The lemmas go in this order:  *)
(* what one assignment, one transplant and one rotation change (ChildSet   *)
(* ... Turn); what each does to B and H; induction over a tree, and from   *)
(* it that the code's walks down the links end; erase_node, insert_unique, *)
(* the cases of insert_fixup (Rising) and of erase_fixup (Deficit, Low);   *)
(* the actions; what TreeInv implies, up to the ordered set that the tree  *)
(* implements; and the depths of nodes (Deep), with which the fixups end.  *)
(*                                                                         *)
(* RedBlackTree writes walks as recursive functions.  A proof may use the  *)
(* equation of one only after a function that satisfies it is shown to     *)
(* exist: WalkExists shows it once, by induction over B.                   *)
(***************************************************************************)
EXTENDS RedBlackTree, FiniteSetTheorems, FunctionTheorems, WellFoundedInduction, TLAPS

\* The trees of the model: a root, two links down, one up, and a colour for every cell.
Trees == [root : Cells, child : [Side -> [Cells -> Cells]],
          parent : [Cells -> Cells], color : [Cells -> {"red", "black"}]]

\* The two sides of a node, each the mirror of the other: the code's left and right halves.
LEMMA Sides ==
  /\ Side = {"left", "right"}
  /\ \A s \in Side : /\ Mirror(s) \in Side /\ Mirror(s) # s /\ Mirror(Mirror(s)) = s
                     /\ \A r \in Side : r = s \/ r = Mirror(s)
BY DEF Side, Mirror

\* What a tree of the model holds at every cell: links to cells, and one of two colours.
LEMMA TreeFields ==
  ASSUME NEW t \in Trees
  PROVE  /\ t.root \in Cells
         /\ \A n \in Cells, s \in Side : t.child[s][n] \in Cells
         /\ \A n \in Cells : t.parent[n] \in Cells /\ t.color[n] \in {"red", "black"}
         /\ \A n \in Cells : t.color[n] # "red" <=> t.color[n] = "black"
BY DEF Trees

-----------------------------------------------------------------------------
\* Changes of a tree, field by field: u is t but for what is named.

\* The child of n on side s is v.
ChildSet(t, s, n, v, u) ==
  /\ u \in Trees /\ u.root = t.root /\ u.parent = t.parent /\ u.color = t.color
  /\ \A r \in Side, m \in Cells : u.child[r][m] = IF r = s /\ m = n THEN v ELSE t.child[r][m]

\* The parent of n is v.
ParentSet(t, n, v, u) ==
  /\ u \in Trees /\ u.root = t.root /\ u.child = t.child /\ u.color = t.color
  /\ \A m \in Cells : u.parent[m] = IF m = n THEN v ELSE t.parent[m]

\* The color of n is c.
ColorSet(t, n, c, u) ==
  /\ u \in Trees /\ u.root = t.root /\ u.child = t.child /\ u.parent = t.parent
  /\ \A m \in Cells : u.color[m] = IF m = n THEN c ELSE t.color[m]

\* The link to x, from above or root_, goes to v.
LinkSet(t, x, v, u) ==
  /\ u \in Trees /\ u.parent = t.parent /\ u.color = t.color
  /\ u.root = IF t.parent[x] = Nil THEN v ELSE t.root
  /\ \A r \in Side, m \in Cells :
       u.child[r][m] = IF t.parent[x] # Nil /\ r = SideOf(t, x) /\ m = t.parent[x]
                       THEN v ELSE t.child[r][m]

\* v is in the place of x.
PlaceTaken(t, x, v, u) ==
  /\ u \in Trees /\ u.color = t.color
  /\ u.root = IF t.parent[x] = Nil THEN v ELSE t.root
  /\ \A r \in Side, m \in Cells :
       u.child[r][m] = IF t.parent[x] # Nil /\ r = SideOf(t, x) /\ m = t.parent[x]
                       THEN v ELSE t.child[r][m]
  /\ \A m \in Cells : u.parent[m] = IF m = v THEN t.parent[x] ELSE t.parent[m]

\* y, which was the child of x, is its parent, and z has gone from y to x.
Turn(t, s, x, y, z, u) ==
  /\ u \in Trees /\ u.color = t.color
  /\ u.root = IF t.parent[x] = Nil THEN y ELSE t.root
  /\ \A r \in Side, m \in Cells :
       u.child[r][m] =
         IF r = s /\ m = y THEN x
         ELSE IF r # s /\ m = x THEN z
         ELSE IF t.parent[x] # Nil /\ r = SideOf(t, x) /\ m = t.parent[x] THEN y
         ELSE t.child[r][m]
  /\ \A m \in Cells :
       u.parent[m] = IF m = z /\ z # Nil THEN x
                     ELSE IF m = x THEN y
                     ELSE IF m = y THEN t.parent[x] ELSE t.parent[m]

\* Child, an assignment to n->left or n->right, changes that one link.
LEMMA SetChild ==
  ASSUME NEW t \in Trees, NEW s \in Side, NEW n \in Cells, NEW v \in Cells
  PROVE  ChildSet(t, s, n, v, Child(t, n, s, v))
BY DEF Trees, ChildSet, Child

\* Parent, an assignment to n->parent, changes that one link.
LEMMA SetParent ==
  ASSUME NEW t \in Trees, NEW n \in Cells, NEW v \in Cells
  PROVE  ParentSet(t, n, v, Parent(t, n, v))
BY DEF Trees, ParentSet, Parent

\* Paint, an assignment to n->color, changes that one colour.
LEMMA SetColor ==
  ASSUME NEW t \in Trees, NEW n \in Cells, NEW c \in {"red", "black"}
  PROVE  ColorSet(t, n, c, Paint(t, n, c))
BY DEF Trees, ColorSet, Paint

\* Relink, the first half of transplant and of the rotations, changes the one link that led to x.
LEMMA SetLink ==
  ASSUME NEW t \in Trees, NEW x \in Cells, NEW v \in Cells
  PROVE  LinkSet(t, x, v, Relink(t, x, v))
<1>1. t.parent[x] \in Cells /\ SideOf(t, x) \in Side
  BY TreeFields DEF SideOf, Side
<1>2. PICK u : u = Relink(t, x, v)
  OBVIOUS
<1>3. CASE t.parent[x] = Nil
  <2>1. u = [t EXCEPT !.root = v]
    BY <1>2, <1>3 DEF Relink
  <2>2. u \in Trees /\ u.root = v /\ u.child = t.child /\ u.parent = t.parent /\ u.color = t.color
    BY <2>1 DEF Trees
  <2> QED BY <1>2, <1>3, <2>2 DEF LinkSet
<1>4. CASE t.parent[x] # Nil
  <2>1. PICK p \in Cells, s \in Side : p = t.parent[x] /\ s = SideOf(t, x)
    BY <1>1
  <2>2. u = Child(t, p, s, v)
    BY <1>2, <1>4, <2>1 DEF Relink
  <2>3. ChildSet(t, s, p, v, u)
    BY <2>2, SetChild
  <2> QED BY <1>2, <1>4, <2>1, <2>3 DEF LinkSet, ChildSet
<1> QED BY <1>3, <1>4

\* Transplant puts v where x was: the link to x leads to v, and v has the parent of x.
LEMMA TakePlace ==
  ASSUME NEW t \in Trees, NEW x \in Cells, NEW v \in Cells
  PROVE  PlaceTaken(t, x, v, Transplant(t, x, v))
<1>1. PICK p \in Cells : p = t.parent[x]
  BY TreeFields
<1>2. PICK w : w = Relink(t, x, v)
  OBVIOUS
<1>3. PICK u : u = Parent(w, v, p)
  OBVIOUS
<1>4. Transplant(t, x, v) = u
  BY <1>1, <1>2, <1>3 DEF Transplant
<1>5. LinkSet(t, x, v, w)
  BY <1>2, SetLink
<1>6. w \in Trees
  BY <1>5 DEF LinkSet
<1>7. ParentSet(w, v, p, u)
  BY <1>3, <1>6, SetParent
<1>8. PlaceTaken(t, x, v, u)
  BY <1>1, <1>5, <1>7 DEF LinkSet, ParentSet, PlaceTaken
<1> QED BY <1>4, <1>8

\* Rotate, rotate_left and rotate_right at x, is a turn: y rises above x and z changes sides.
LEMMA TurnRotates ==
  ASSUME NEW t \in Trees, NEW s \in Side, NEW x \in Cells, NEW y \in Cells, NEW z \in Cells,
         y = t.child[Mirror(s)][x], z = t.child[s][y]
  PROVE  Turn(t, s, x, y, z, Rotate(t, s, x))
<1>1. PICK p \in Cells : p = t.parent[x]
  BY TreeFields
<1>2. Mirror(s) \in Side /\ Mirror(s) # s /\ \A r \in Side : r # s <=> r = Mirror(s)
  BY Sides
<1>3. PICK t0 : t0 = Relink(t, x, y)
  OBVIOUS
<1>4. PICK t1 : t1 = Parent(t0, y, p)
  OBVIOUS
<1>5. PICK t2 : t2 = Child(t1, y, s, x)
  OBVIOUS
<1>6. PICK t3 : t3 = Parent(t2, x, y)
  OBVIOUS
<1>7. PICK t4 : t4 = Child(t3, x, Mirror(s), z)
  BY Zenon
<1>8. Rotate(t, s, x) = Adopted(t4, z, x)
  BY <1>1, <1>3, <1>4, <1>5, <1>6, <1>7 DEF Rotate, Attach
<1>11. LinkSet(t, x, y, t0)
  BY <1>3, SetLink
<1>12. ParentSet(t0, y, p, t1)
  <2>1. t0 \in Trees
    BY <1>11 DEF LinkSet
  <2> QED BY <1>4, <2>1, SetParent
<1>13. ChildSet(t1, s, y, x, t2)
  <2>1. t1 \in Trees
    BY <1>12 DEF ParentSet
  <2> QED BY <1>5, <2>1, SetChild
<1>14. ParentSet(t2, x, y, t3)
  <2>1. t2 \in Trees
    BY <1>13 DEF ChildSet
  <2> QED BY <1>6, <2>1, SetParent
<1>15. ChildSet(t3, Mirror(s), x, z, t4)
  <2>1. t3 \in Trees
    BY <1>14 DEF ParentSet
  <2> QED BY <1>2, <1>7, <2>1, SetChild
<1>16. PICK u : u = Adopted(t4, z, x)
  OBVIOUS
<1>17. /\ u \in Trees /\ u.root = t4.root /\ u.child = t4.child /\ u.color = t4.color
       /\ \A m \in Cells : u.parent[m] = IF m = z /\ z # Nil THEN x ELSE t4.parent[m]
  <2>0. t4 \in Trees
    BY <1>15 DEF ChildSet
  <2>1. CASE z = Nil
    BY <2>0, <2>1, <1>16 DEF Adopted
  <2>2. CASE z # Nil
    <3>1. u = Parent(t4, z, x)
      BY <2>2, <1>16 DEF Adopted
    <3>2. ParentSet(t4, z, x, u)
      BY Zenon, <2>0, <3>1, SetParent
    <3> QED BY <2>2, <3>2 DEF ParentSet
  <2> QED BY <2>1, <2>2
<1>20. ASSUME NEW m \in Cells
       PROVE  u.parent[m] = IF m = z /\ z # Nil THEN x ELSE IF m = x THEN y
                            ELSE IF m = y THEN p ELSE t.parent[m]
  BY <1>11, <1>12, <1>13, <1>14, <1>15, <1>17 DEF LinkSet, ChildSet, ParentSet
<1>21. ASSUME NEW r \in Side, NEW m \in Cells
       PROVE  u.child[r][m] = IF r # s /\ m = x THEN z ELSE IF r = s /\ m = y THEN x
                              ELSE IF p # Nil /\ r = SideOf(t, x) /\ m = p THEN y
                              ELSE t.child[r][m]
  BY <1>1, <1>2, <1>11, <1>12, <1>13, <1>14, <1>15, <1>17 DEF LinkSet, ChildSet, ParentSet
<1>22. u \in Trees /\ u.color = t.color /\ u.root = IF p = Nil THEN y ELSE t.root
  BY <1>1, <1>11, <1>12, <1>13, <1>14, <1>15, <1>17 DEF LinkSet, ChildSet, ParentSet
<1>23. Turn(t, s, x, y, z, u)
  BY <1>1, <1>20, <1>21, <1>22 DEF Turn
<1> QED BY <1>8, <1>16, <1>23

-----------------------------------------------------------------------------
\* The shape of a tree t with the nodes N.

\* m comes before n, seen from side s.
Before(s, m, n) == IF s = "left" THEN m < n ELSE n < m

\* Parents and children agree: the root is the one node without a parent, and a node hangs on its
\* parent by one link.
Links(t, N) ==
  /\ t \in Trees /\ N \subseteq Keys /\ IsFiniteSet(N)
  /\ t.root \in N \union {Nil} /\ (t.root # Nil => t.parent[t.root] = Nil)
  /\ \A s \in Side : t.child[s][Nil] = Nil
  /\ \A n \in N, s \in Side :
       /\ t.child[s][n] \in N \union {Nil}
       /\ t.child[s][n] # Nil => t.parent[t.child[s][n]] = n
  /\ \A n \in N : n # t.root => t.parent[n] \in N /\ \E s \in Side : t.child[s][t.parent[n]] = n

\* B says which nodes are at and below each.
Below(t, N, B) ==
  /\ B \in [N \union {Nil} -> SUBSET N]
  /\ B[Nil] = {} /\ B[t.root] = N
  /\ \A n \in N : B[n] = {n} \union B[t.child["left"][n]] \union B[t.child["right"][n]]
  /\ \A n \in N, s \in Side : \A m \in B[t.child[s][n]] : Before(s, m, n)

\* t is a search tree of the nodes N.
Shape(t, N, B) == Links(t, N) /\ Below(t, N, B)

\* The nodes are keys, which are integers, and no key is nil_ or the null pointer.
LEMMA KeysAreIntegers ==
  ASSUME NEW N \in SUBSET Keys
  PROVE  /\ Nil \notin N /\ Null \notin N /\ Nil # Null /\ \A n \in N : n \in Int /\ n \in Cells
         /\ N \union {Nil} \subseteq Cells
BY KeyAssumption DEF Cells

\* Before is a strict total order on the integers, and its mirror the opposite one.
LEMMA BeforeIsOrder ==
  ASSUME NEW s \in Side, NEW m \in Int, NEW n \in Int
  PROVE  /\ ~Before(s, m, m) /\ (Before(s, m, n) <=> Before(Mirror(s), n, m))
         /\ ~(Before(s, m, n) /\ Before(s, n, m)) /\ (m # n => Before(s, m, n) \/ Before(s, n, m))
         /\ \A k \in Int : Before(s, m, n) /\ Before(s, n, k) => Before(s, m, k)
BY DEF Before, Side, Mirror

\* What follows for a node n of the shape, and for its child on side s.
NodeFacts(t, N, B, n) ==
  /\ n \in B[n] /\ n # Nil /\ n \in Cells /\ n \in Int
  /\ B[n] \subseteq N
  /\ (n = t.root <=> t.parent[n] = Nil)
  /\ n # t.root => /\ t.parent[n] \in N /\ SideOf(t, n) \in Side
                   /\ t.child[SideOf(t, n)][t.parent[n]] = n

\* What ChildHas says of the subtree on side s of n.
ChildFacts(t, N, B, n, s) ==
  /\ t.child[s][n] \in N \union {Nil} /\ t.child[s][n] # n /\ t.child[s][n] \in Cells
  /\ B[n] = {n} \union B[t.child[s][n]] \union B[t.child[Mirror(s)][n]]
  /\ B[t.child[s][n]] \intersect B[t.child[Mirror(s)][n]] = {} /\ n \notin B[t.child[s][n]]
  /\ B[t.child[s][n]] \subseteq N
  /\ \A m \in B[t.child[s][n]] : Before(s, m, n)
  /\ t.child[s][n] # Nil =>
       /\ t.child[s][n] \in N /\ t.parent[t.child[s][n]] = n /\ t.child[s][n] # t.root
       /\ SideOf(t, t.child[s][n]) = s /\ t.child[Mirror(s)][n] # t.child[s][n]
       /\ t.child[s][n] \in B[t.child[s][n]]

\* What every node of a search tree satisfies, whatever else is below it.
LEMMA NodeHas ==
  ASSUME NEW t, NEW N, NEW B, Shape(t, N, B), NEW n \in N
  PROVE  NodeFacts(t, N, B, n)
<1>1. /\ t \in Trees /\ N \subseteq Keys /\ n # Nil /\ n \in Cells /\ n \in Int /\ Nil \notin N
  BY KeysAreIntegers DEF Links, Shape
<1>2. n \in B[n] /\ B[n] \subseteq N
  BY <1>1 DEF Below, Shape
<1>3. n = t.root <=> t.parent[n] = Nil
  BY <1>1 DEF Links, Shape
<1>4. n # t.root => t.parent[n] \in N /\ SideOf(t, n) \in Side /\ t.child[SideOf(t, n)][t.parent[n]] = n
  BY Sides DEF Links, SideOf, Shape
<1> QED BY <1>1, <1>2, <1>3, <1>4 DEF NodeFacts

\* What the subtree on one side of a node satisfies: it is apart from the node and from the
\* subtree on the other side, and ordered against the node.
LEMMA ChildHas ==
  ASSUME NEW t, NEW N, NEW B, Shape(t, N, B), NEW n \in N, NEW s \in Side
  PROVE  ChildFacts(t, N, B, n, s)
<1> DEFINE c == t.child[s][n]
           d == t.child[Mirror(s)][n]
<1>0. Links(t, N) /\ Below(t, N, B)
  BY DEF Shape
<1>1. /\ t \in Trees /\ N \subseteq Keys /\ Nil \notin N /\ n # Nil /\ n \in Cells /\ n \in Int
      /\ \A m \in N : m \in Int
  BY <1>0, KeysAreIntegers DEF Links
<1>2. Mirror(s) \in Side /\ Mirror(s) # s /\ Side = {"left", "right"}
  BY Sides
<1>3. c \in N \union {Nil} /\ d \in N \union {Nil}
  BY <1>0, <1>2 DEF Links
<1>4. B[c] \subseteq N /\ B[d] \subseteq N
  BY <1>0, <1>3 DEF Below
<1>5. B[n] = {n} \union B[c] \union B[d]
  <2>1. (s = "left" /\ Mirror(s) = "right") \/ (s = "right" /\ Mirror(s) = "left")
    BY <1>2
  <2> QED BY <1>0, <2>1 DEF Below
<1>6. \A m \in B[c] : Before(s, m, n)
  BY <1>0 DEF Below
<1>7. \A m \in B[d] : Before(Mirror(s), m, n)
  BY <1>0, <1>2 DEF Below
<1>8. B[c] \intersect B[d] = {} /\ n \notin B[c]
  <2>1. \A m \in N : ~(Before(s, m, n) /\ Before(Mirror(s), m, n)) /\ ~Before(s, n, n)
    BY <1>1, <1>2, BeforeIsOrder
  <2> QED BY <2>1, <1>4, <1>6, <1>7
<1>9. ASSUME c # Nil
      PROVE  c \in N /\ t.parent[c] = n /\ c # t.root /\ SideOf(t, c) = s /\ d # c /\ c # n
             /\ c \in B[c]
  <2>1. c \in N /\ t.parent[c] = n
    BY <1>0, <1>3, <1>9 DEF Links
  <2>2. c # t.root
    BY <1>0, <1>1, <2>1 DEF Links
  <2>3. c \in B[c]
    BY <2>1, NodeHas DEF NodeFacts
  <2>4. d # c /\ c # n
    BY <2>3, <1>8
  <2>5. SideOf(t, c) = s
    <3>1. (s = "left" /\ Mirror(s) = "right") \/ (s = "right" /\ Mirror(s) = "left")
      BY <1>2
    <3> QED BY <3>1, <2>1, <2>4 DEF SideOf
  <2> QED BY <2>1, <2>2, <2>3, <2>4, <2>5
<1>10. c \in Cells /\ c # n
  BY Zenon, <1>1, <1>3, <1>9, KeysAreIntegers DEF Cells
<1> QED BY <1>3, <1>4, <1>5, <1>6, <1>8, <1>9, <1>10 DEF ChildFacts

-----------------------------------------------------------------------------
\* Rotations.

\* The links after a rotation, said by nodes.
TurnedLinks(t, N, s, x, y, z, u) ==
  /\ y \in N /\ y # x /\ z \in N \union {Nil} /\ z # x /\ z # y
  /\ u.root = IF t.root = x THEN y ELSE t.root
  /\ u.child[s][y] = x /\ u.child[Mirror(s)][y] = t.child[Mirror(s)][y]
  /\ u.child[s][x] = t.child[s][x] /\ u.child[Mirror(s)][x] = z
  /\ \A n \in Cells \ {x, y}, r \in Side :
       n \in N \union {Nil} => u.child[r][n] = IF t.child[r][n] = x THEN y ELSE t.child[r][n]
  /\ \A n \in Cells \ (N \union {Nil}), r \in Side : u.child[r][n] = t.child[r][n]

\* A rotation replaces the link to x, whichever it is, by one to y.
LEMMA TurnLinks ==
  ASSUME NEW t, NEW N, NEW B, Shape(t, N, B), NEW s \in Side, NEW x \in N,
         NEW y, NEW z, y = t.child[Mirror(s)][x], z = t.child[s][y], y # Nil,
         NEW u, Turn(t, s, x, y, z, u)
  PROVE  TurnedLinks(t, N, s, x, y, z, u)
<1>1. Mirror(s) \in Side /\ Mirror(s) # s /\ \A r \in Side : r = s \/ r = Mirror(s)
  BY Zenon, Sides
<1>2. y \in N /\ y # x /\ t.parent[y] = x /\ x # Nil /\ y # t.root /\ y \in Cells /\ x \in Cells
  <2>1. ChildFacts(t, N, B, x, Mirror(s)) /\ NodeFacts(t, N, B, x)
    BY <1>1, ChildHas, NodeHas
  <2> QED BY <2>1 DEF ChildFacts, NodeFacts
<1>3. ChildFacts(t, N, B, x, Mirror(s)) /\ ChildFacts(t, N, B, y, s) /\ NodeFacts(t, N, B, x)
  BY <1>1, <1>2, ChildHas, NodeHas
<1>4. z \in N \union {Nil} /\ z # y /\ (z # Nil => t.parent[z] = y) /\ z \in Cells
  BY Zenon, <1>2, <1>3 DEF ChildFacts
<1>5. z # x
  <2>1. CASE z = Nil
    BY Zenon, <2>1, <1>2
  <2>2. CASE z # Nil
    <3>1. B[z] \subseteq B[y] /\ z \in B[z]
      BY Zenon, <2>2, <1>3 DEF ChildFacts
    <3>2. x \notin B[y]
      BY Zenon, <1>3 DEF ChildFacts
    <3> QED BY <3>1, <3>2
  <2> QED BY <2>1, <2>2
<1> DEFINE p == t.parent[x]
           q == SideOf(t, x)
<1>6. /\ (x = t.root <=> p = Nil)
      /\ x # t.root => p \in N /\ p \in Cells /\ q \in Side /\ t.child[q][p] = x
  BY <1>3, KeysAreIntegers DEF Links, Shape, NodeFacts
<1>7. p # x /\ p # y
  <2>1. CASE x = t.root
    BY Zenon, <2>1, <1>2, <1>6
  <2>2. CASE x # t.root
    <3>0. ChildFacts(t, N, B, p, q)
      BY <2>2, <1>6, ChildHas
    <3>1. p # x
      BY Zenon, <2>2, <3>0, <1>6 DEF ChildFacts
    <3>2. x \in B[t.child[q][p]] /\ B[t.child[q][p]] \subseteq B[p]
      BY Zenon, <2>2, <3>0, <1>2, <1>6 DEF ChildFacts
    <3>3. x \notin B[y]
      BY <1>3 DEF ChildFacts
    <3> QED BY Zenon, <2>2, <1>6, <3>1, <3>2, <3>3
  <2> QED BY <2>1, <2>2
<1>8. ASSUME NEW n \in N \union {Nil}, NEW r \in Side
      PROVE  t.child[r][n] = x <=> p # Nil /\ r = q /\ n = p
  <2>1. CASE n = Nil
    BY <2>1, <1>2, <1>6 DEF Links, Shape
  <2>2. CASE n \in N
    <3>1. t.child[r][n] = x => t.parent[x] = n /\ SideOf(t, x) = r /\ n # Nil
      <4>1. ChildFacts(t, N, B, n, r) /\ NodeFacts(t, N, B, n)
        BY <2>2, ChildHas, NodeHas
      <4> QED BY <4>1, <1>2 DEF ChildFacts, NodeFacts
    <3>2. p # Nil => t.child[q][p] = x
      BY <1>6
    <3> QED BY Zenon, <3>1, <3>2
  <2> QED BY <2>1, <2>2
<1>9. ASSUME NEW r \in Side, NEW m \in Cells
      PROVE  u.child[r][m] = IF r = s /\ m = y THEN x ELSE IF r # s /\ m = x THEN z
                              ELSE IF p # Nil /\ r = q /\ m = p THEN y ELSE t.child[r][m]
  BY DEF Turn
<1>10. u.root = IF t.root = x THEN y ELSE t.root
  BY Zenon, <1>6 DEF Turn
<1> HIDE DEF p, q
<1>11. /\ u.child[s][y] = x /\ u.child[Mirror(s)][y] = t.child[Mirror(s)][y]
       /\ u.child[s][x] = t.child[s][x] /\ u.child[Mirror(s)][x] = z
  BY <1>1, <1>2, <1>7, <1>9
<1>12. ASSUME NEW n \in Cells \ {x, y}, n \in N \union {Nil}, NEW r \in Side
       PROVE  u.child[r][n] = IF t.child[r][n] = x THEN y ELSE t.child[r][n]
  BY <1>8, <1>9, <1>12
<1>13. ASSUME NEW n \in Cells \ (N \union {Nil}), NEW r \in Side
       PROVE  u.child[r][n] = t.child[r][n]
  <2>1. n # x /\ n # y /\ (p # Nil => n # p)
    BY Zenon, <1>2, <1>6
  <2> QED BY <1>9, <2>1
<1> QED BY <1>2, <1>4, <1>5, <1>10, <1>11, <1>12, <1>13 DEF TurnedLinks

\* A rotation keeps the shape: only the subtrees of the two nodes change.
TurnedBelow(t, s, x, y, z, B) ==
  [B EXCEPT ![x] = {x} \union B[t.child[s][x]] \union B[z], ![y] = B[x]]

\* A rotation leaves parent and child pointers that agree.
LEMMA TurnKeepsLinks ==
  ASSUME NEW t, NEW N, NEW B, Shape(t, N, B), NEW s \in Side, NEW x \in N,
         NEW y, NEW z, y = t.child[Mirror(s)][x], z = t.child[s][y], y # Nil,
         NEW u, Turn(t, s, x, y, z, u)
  PROVE  Links(u, N)
<1>1. Mirror(s) \in Side /\ Mirror(s) # s /\ \A r \in Side : r = s \/ r = Mirror(s)
  BY Sides
<1>2. /\ y \in N /\ y # x /\ z \in N \union {Nil} /\ z # x /\ z # y
      /\ u.root = IF t.root = x THEN y ELSE t.root
      /\ u.child[s][y] = x /\ u.child[Mirror(s)][y] = t.child[Mirror(s)][y]
      /\ u.child[s][x] = t.child[s][x] /\ u.child[Mirror(s)][x] = z
      /\ \A n \in Cells \ {x, y}, r \in Side :
           n \in N \union {Nil} => u.child[r][n] = IF t.child[r][n] = x THEN y ELSE t.child[r][n]
  <2>1. TurnedLinks(t, N, s, x, y, z, u)
    BY TurnLinks
  <2> QED BY Zenon, <2>1 DEF TurnedLinks
<1>3. \A m \in Cells :
         u.parent[m] = IF m = z /\ z # Nil THEN x
                       ELSE IF m = x THEN y ELSE IF m = y THEN t.parent[x] ELSE t.parent[m]
  BY DEF Turn
<1>4. /\ N \subseteq Keys /\ IsFiniteSet(N) /\ u \in Trees /\ Nil \notin N /\ N \subseteq Cells
      /\ Nil \in Cells
  BY Zenon, KeysAreIntegers DEF Links, Shape, Turn, Cells
<1>5. /\ ChildFacts(t, N, B, x, s) /\ ChildFacts(t, N, B, x, Mirror(s))
      /\ ChildFacts(t, N, B, y, s) /\ ChildFacts(t, N, B, y, Mirror(s))
      /\ NodeFacts(t, N, B, x) /\ NodeFacts(t, N, B, y)
  BY <1>1, <1>2, ChildHas, NodeHas
<1>6. /\ t.parent[y] = x /\ (z # Nil => t.parent[z] = y) /\ y # t.root /\ (z # Nil => z # t.root)
  BY Zenon, <1>5, <1>2 DEF ChildFacts
<1>7. u.root \in N \union {Nil} /\ (u.root # Nil => u.parent[u.root] = Nil)
  <2>1. CASE t.root = x
    <3>1. t.parent[x] = Nil
      BY Zenon, <2>1, <1>5 DEF NodeFacts
    <3> QED BY <2>1, <3>1, <1>2, <1>3, <1>4
  <2>2. CASE t.root # x
    <3>1. t.root \in N \union {Nil} /\ (t.root # Nil => t.parent[t.root] = Nil)
      BY Zenon DEF Links, Shape
    <3>2. t.root # Nil => t.root # z /\ t.root # y /\ t.root \in Cells
      BY Zenon, <1>4, <1>6, <3>1
    <3> QED BY <2>2, <3>1, <3>2, <1>2, <1>3
  <2> QED BY <2>1, <2>2
<1>8. \A r \in Side : u.child[r][Nil] = Nil
  <2>1. Nil \in Cells \ {x, y} /\ \A r \in Side : t.child[r][Nil] = Nil
    BY <1>2, <1>4 DEF Links, Shape
  <2> QED BY Zenon, <1>2, <1>4, <2>1
<1>9. ASSUME NEW n \in N, NEW r \in Side
      PROVE  u.child[r][n] \in N \union {Nil}
             /\ (u.child[r][n] # Nil => u.parent[u.child[r][n]] = n)
  <2>1. CASE n = y /\ r = s
    BY Zenon, <2>1, <1>2, <1>3, <1>4
  <2>2. CASE n = y /\ r # s
    <3> DEFINE c == t.child[r][y]
    <3>1. u.child[r][n] = c /\ r = Mirror(s)
      BY <2>2, <1>1, <1>2
    <3>2. c \in N \union {Nil} /\ (c # Nil => t.parent[c] = y /\ c # z /\ c # y)
      BY Zenon, <1>1, <1>2, <1>5, <3>1 DEF ChildFacts
    <3>3. c # Nil => c # x
      <4>1. c # Nil => c \in B[y] /\ x \notin B[y]
        BY Zenon, <1>1, <1>2, <1>5, <3>1, <3>2 DEF ChildFacts
      <4> QED BY <4>1
    <3> QED BY Zenon, <2>2, <3>1, <3>2, <3>3, <1>3, <1>4
  <2>3. CASE n = x /\ r # s
    <3>1. u.child[r][n] = z
      BY Zenon, <2>3, <1>1, <1>2
    <3>2. z # Nil => z \in Cells /\ u.parent[z] = x
      BY Zenon, <1>2, <1>3, <1>4
    <3> QED BY Zenon, <2>3, <3>1, <3>2, <1>2
  <2>4. CASE n = x /\ r = s
    <3> DEFINE c == t.child[s][x]
    <3>1. u.child[r][n] = c
      BY <2>4, <1>2
    <3>2. c \in N \union {Nil} /\ (c # Nil => t.parent[c] = x /\ c # y /\ c # x)
      BY Zenon, <1>1, <1>2, <1>5 DEF ChildFacts
    <3>3. c # Nil => c # z
      BY <3>2, <1>2, <1>6
    <3> QED BY Zenon, <2>4, <3>1, <3>2, <3>3, <1>3, <1>4
  <2>5. CASE n \notin {x, y}
    <3> DEFINE c == t.child[r][n]
    <3>1. u.child[r][n] = IF c = x THEN y ELSE c
      BY Zenon, <2>5, <1>2, <1>4
    <3>2. c \in N \union {Nil} /\ (c # Nil => t.parent[c] = n)
      BY ChildHas DEF ChildFacts
    <3>3. c # Nil => c # y /\ c # z
      BY Zenon, <2>5, <3>2, <1>6
    <3>4. CASE c = x
      <4>1. u.child[r][n] = y /\ t.parent[x] = n /\ y \in Cells
        BY <3>1, <3>2, <3>4, <1>2, <1>4
      <4> QED BY Zenon, <4>1, <1>2, <1>3
    <3>5. CASE c # x
      <4>1. u.child[r][n] = c /\ (c # Nil => c \in Cells /\ u.parent[c] = t.parent[c])
        BY Zenon, <3>1, <3>2, <3>3, <3>5, <1>3, <1>4
      <4> QED BY Zenon, <4>1, <3>2
    <3> QED BY Zenon, <3>4, <3>5
  <2> QED BY Zenon, <2>1, <2>2, <2>3, <2>4, <2>5
<1>10. ASSUME NEW n \in N, n # u.root
      PROVE  u.parent[n] \in N /\ \E r \in Side : u.child[r][u.parent[n]] = n
  <2>1. CASE n = z
    BY Zenon, <2>1, <1>1, <1>2, <1>3, <1>4
  <2>2. CASE n = x
    BY Zenon, <2>2, <1>1, <1>2, <1>3, <1>4
  <2>3. CASE n = y
    <3>1. x # t.root
      BY Zenon, <2>3, <1>10, <1>2
    <3>2. /\ t.parent[x] \in N /\ SideOf(t, x) \in Side /\ t.child[SideOf(t, x)][t.parent[x]] = x
          /\ t.parent[x] # x
      <4>1. /\ t.parent[x] \in N /\ SideOf(t, x) \in Side
            /\ t.child[SideOf(t, x)][t.parent[x]] = x
        BY <3>1, <1>5 DEF NodeFacts
      <4>2. ChildFacts(t, N, B, t.parent[x], SideOf(t, x))
        BY <4>1, ChildHas
      <4> QED BY Zenon, <4>1, <4>2 DEF ChildFacts
    <3>3. t.parent[x] # y
      <4>1. x \in B[x] /\ x \notin B[y]
        BY Zenon, <1>1, <1>5 DEF NodeFacts, ChildFacts
      <4>2. t.parent[x] = y => x \in B[y]
        <5>1. t.parent[x] = y => ChildFacts(t, N, B, y, SideOf(t, x))
          BY Zenon, <3>2, <1>2, ChildHas
        <5> QED BY Zenon, <5>1, <3>2, <4>1 DEF ChildFacts
      <4> QED BY <4>1, <4>2
    <3>4. u.parent[n] = t.parent[x]
      BY Zenon, <2>3, <1>2, <1>3, <1>4
    <3>5. u.child[SideOf(t, x)][t.parent[x]] = y
      BY <3>2, <3>3, <1>2, <1>4
    <3> QED BY <2>3, <3>2, <3>4, <3>5
  <2>4. CASE n \notin {x, y, z}
    <3>1. n # t.root
      BY <2>4, <1>10, <1>2
    <3> DEFINE p == t.parent[n]
               r == SideOf(t, n)
    <3>2. p \in N /\ r \in Side /\ t.child[r][p] = n
      BY <3>1, NodeHas DEF NodeFacts
    <3>3. u.parent[n] = p
      BY <2>4, <1>3, <1>4
    <3>4. u.child[r][p] = n
      <4>1. CASE p \notin {x, y}
        BY Zenon, <4>1, <2>4, <3>2, <1>2, <1>4
      <4>2. CASE p = x
        BY Zenon, <4>2, <2>4, <3>2, <1>1, <1>2
      <4>3. CASE p = y
        BY Zenon, <4>3, <2>4, <3>2, <1>1, <1>2
      <4> QED BY Zenon, <4>1, <4>2, <4>3
    <3> QED BY Zenon, <3>2, <3>3, <3>4
  <2> QED BY <2>1, <2>2, <2>3, <2>4
<1> QED BY Zenon, <1>4, <1>7, <1>8, <1>9, <1>10 DEF Links

\* A rotation keeps the search order: only x and y have other nodes below them.
LEMMA TurnKeepsBelow ==
  ASSUME NEW t, NEW N, NEW B, Shape(t, N, B), NEW s \in Side, NEW x \in N,
         NEW y, NEW z, y = t.child[Mirror(s)][x], z = t.child[s][y], y # Nil,
         NEW u, Turn(t, s, x, y, z, u)
  PROVE  Shape(u, N, TurnedBelow(t, s, x, y, z, B))
<1>1. Mirror(s) \in Side /\ Mirror(s) # s /\ \A r \in Side : r = s \/ r = Mirror(s)
  BY Sides
<1>2. /\ y \in N /\ y # x /\ z \in N \union {Nil} /\ z # x /\ z # y
      /\ u.root = IF t.root = x THEN y ELSE t.root
      /\ u.child[s][y] = x /\ u.child[Mirror(s)][y] = t.child[Mirror(s)][y]
      /\ u.child[s][x] = t.child[s][x] /\ u.child[Mirror(s)][x] = z
      /\ \A n \in Cells \ {x, y}, r \in Side :
           n \in N \union {Nil} => u.child[r][n] = IF t.child[r][n] = x THEN y ELSE t.child[r][n]
  <2>1. TurnedLinks(t, N, s, x, y, z, u)
    BY TurnLinks
  <2> QED BY Zenon, <2>1 DEF TurnedLinks
<1>3. /\ N \subseteq Cells /\ Nil \notin N /\ \A m \in N : m \in Int
  BY KeysAreIntegers DEF Links, Shape
<1>4. /\ ChildFacts(t, N, B, x, s) /\ ChildFacts(t, N, B, x, Mirror(s))
      /\ ChildFacts(t, N, B, y, s) /\ ChildFacts(t, N, B, y, Mirror(s))
      /\ NodeFacts(t, N, B, x) /\ NodeFacts(t, N, B, y)
  BY <1>1, <1>2, ChildHas, NodeHas
<1>5. PICK D : D = TurnedBelow(t, s, x, y, z, B)
  OBVIOUS
<1> DEFINE c == t.child[s][x]
           d == t.child[Mirror(s)][y]
<1>6. /\ c \in N \union {Nil} /\ c # x /\ c # y /\ d \in N \union {Nil} /\ d # y
      /\ B[x] = {x} \union B[c] \union B[y] /\ B[y] = {y} \union B[z] \union B[d]
      /\ x \in N /\ B[x] \subseteq N /\ B[y] \subseteq N /\ B[c] \subseteq N
  BY Zenon, <1>1, <1>2, <1>3, <1>4 DEF ChildFacts, NodeFacts
<1>7. x # d
  <2>1. x \notin B[y] /\ (d # Nil => d \in B[y])
    BY Zenon, <1>1, <1>4 DEF ChildFacts
  <2>2. x # Nil
    BY <1>3
  <2> QED BY <2>1, <2>2
<1>8. /\ D \in [N \union {Nil} -> SUBSET N]
      /\ \A n \in N \union {Nil} :
           D[n] = IF n = y THEN B[x] ELSE IF n = x THEN {x} \union B[c] \union B[z] ELSE B[n]
  <2>1. B \in [N \union {Nil} -> SUBSET N] /\ B[z] \subseteq N
    BY Zenon, <1>6 DEF Below, Shape
  <2> QED BY Zenon, <2>1, <1>2, <1>5, <1>6 DEF TurnedBelow
<1> HIDE DEF c, d
<1>9. D[Nil] = {} /\ D[u.root] = N
  <2>1. B[Nil] = {} /\ B[t.root] = N /\ t.root \in N \union {Nil} /\ t.root # y
    BY Zenon, <1>1, <1>2, <1>4 DEF Below, Links, Shape, ChildFacts
  <2> QED BY Zenon, <2>1, <1>2, <1>3, <1>8
<1>10. ASSUME NEW n \in N
      PROVE  /\ D[n] = {n} \union D[u.child[s][n]] \union D[u.child[Mirror(s)][n]]
             /\ \A r \in Side : \A m \in D[u.child[r][n]] : Before(r, m, n)
  <2>1. CASE n = x
    <3>1. D[u.child[s][n]] = B[c] /\ D[u.child[Mirror(s)][n]] = B[z]
      <4>1. u.child[s][n] = c /\ u.child[Mirror(s)][n] = z
        BY <2>1, <1>2 DEF c
      <4> QED BY Zenon, <4>1, <1>2, <1>6, <1>8
    <3>2. B[z] \subseteq B[y] /\ D[n] = {x} \union B[c] \union B[z]
      BY Zenon, <2>1, <1>2, <1>6, <1>8
    <3>3. /\ \A m \in B[c] : Before(s, m, x)
          /\ \A m \in B[y] : Before(Mirror(s), m, x)
      BY Zenon, <1>4 DEF ChildFacts, c
    <3> QED BY Zenon, <2>1, <3>1, <3>2, <3>3, <1>1
  <2>2. CASE n = y
    <3>1. D[u.child[s][n]] = {x} \union B[c] \union B[z] /\ D[u.child[Mirror(s)][n]] = B[d]
      BY Zenon, <2>2, <1>2, <1>3, <1>6, <1>7, <1>8 DEF d
    <3>2. D[n] = B[x]
      BY <2>2, <1>8
    <3>3. /\ \A m \in B[z] : Before(s, m, y)
          /\ \A m \in B[d] : Before(Mirror(s), m, y)
          /\ \A m \in B[c] : Before(s, m, x)
          /\ \A m \in B[y] : Before(Mirror(s), m, x)
      BY Zenon, <1>4 DEF ChildFacts, c, d
    <3>4. Before(s, x, y)
      <4>1. Before(Mirror(s), y, x)
        BY Zenon, <3>3, <1>6
      <4>2. x \in Int /\ y \in Int
        BY <1>2, <1>3
      <4> QED BY <4>1, <4>2, BeforeIsOrder
    <3>5. \A m \in B[c] : Before(s, m, y)
      <4> SUFFICES ASSUME NEW m \in B[c] PROVE Before(s, m, y)
        OBVIOUS
      <4>1. m \in Int /\ x \in Int /\ y \in Int /\ Before(s, m, x)
        BY Zenon, <3>3, <1>2, <1>3, <1>6
      <4> QED BY <4>1, <3>4, BeforeIsOrder
    <3> QED BY Zenon, <2>2, <3>1, <3>2, <3>3, <3>4, <3>5, <1>1, <1>6
  <2>3. CASE n \notin {x, y}
    <3>1. ASSUME NEW r \in Side PROVE D[u.child[r][n]] = B[t.child[r][n]]
      <4>1. u.child[r][n] = IF t.child[r][n] = x THEN y ELSE t.child[r][n]
        BY Zenon, <2>3, <1>2, <1>3
      <4>2. t.child[r][n] \in N \union {Nil} /\ t.child[r][n] # y
        <5>1. ChildFacts(t, N, B, n, r)
          BY ChildHas
        <5>2. t.parent[y] = x /\ y # Nil
          BY Zenon, <1>4 DEF ChildFacts
        <5> QED BY <2>3, <5>1, <5>2 DEF ChildFacts
      <4> QED BY Zenon, <4>1, <4>2, <1>8, <1>2
    <3>2. D[n] = B[n]
      BY Zenon, <2>3, <1>8
    <3>3. /\ B[n] = {n} \union B[t.child[s][n]] \union B[t.child[Mirror(s)][n]]
          /\ \A r \in Side : \A m \in B[t.child[r][n]] : Before(r, m, n)
      BY ChildHas DEF ChildFacts
    <3> QED BY <3>1, <3>2, <3>3, <1>1
  <2> QED BY <2>1, <2>2, <2>3
<1>11. ASSUME NEW n \in N
       PROVE  D[n] = {n} \union D[u.child["left"][n]] \union D[u.child["right"][n]]
  <2>1. (s = "left" /\ Mirror(s) = "right") \/ (s = "right" /\ Mirror(s) = "left")
    BY Zenon, Sides
  <2> QED BY <2>1, <1>10
<1>12. Below(u, N, D)
  BY <1>8, <1>9, <1>10, <1>11 DEF Below
<1> QED BY <1>5, <1>12, TurnKeepsLinks DEF Shape

-----------------------------------------------------------------------------
\* Black heights.

\* The black node that is missing below n on side s.
Extra(spot, n, s) == IF spot = <<n, s>> THEN 1 ELSE 0
\* What a node adds to the black height.
Weight(t, n) == IF t.color[n] = "black" THEN 1 ELSE 0

\* H is a black height for all nodes but those in S: the same on both sides.
EvenBut(t, N, H, spot, S) ==
  /\ H \in [N \union {Nil} -> Nat] /\ H[Nil] = 0
  /\ \A n \in N \ S, s \in Side : H[n] = H[t.child[s][n]] + Extra(spot, n, s) + Weight(t, n)

\* H is a black height for all nodes of N.
Even(t, N, H, spot) == EvenBut(t, N, H, spot, {})

\* The weights that black heights are sums of are 0 or 1.
LEMMA ExtraIs ==
  /\ \A n, s : Extra(NoSpot, n, s) = 0
  /\ \A p, q, n, s : Extra(<<p, q>>, n, s) = IF n = p /\ s = q THEN 1 ELSE 0
  /\ \A spot, n, s : Extra(spot, n, s) \in {0, 1}
  /\ \A t, n : Weight(t, n) \in {0, 1}
BY DEF Extra, NoSpot, Weight

\* A rotation keeps black heights if they are right at the two nodes that turn.
TurnedHeight(H, x, y, h) == [H EXCEPT ![x] = h, ![y] = H[x]]

\* A rotation keeps every black height but those of the two nodes it turns, and those two are
\* right when the three subtrees below them add up.
LEMMA TurnKeepsEven ==
  ASSUME NEW t, NEW N, NEW B, Shape(t, N, B), NEW s \in Side, NEW x \in N,
         NEW y, NEW z, y = t.child[Mirror(s)][x], z = t.child[s][y], y # Nil,
         NEW u, Turn(t, s, x, y, z, u),
         NEW H, NEW spot, EvenBut(t, N, H, spot, {x, y}), NEW h \in Nat,
         H[x] = h + Extra(spot, y, s) + Weight(t, y),
         H[x] = H[t.child[Mirror(s)][y]] + Extra(spot, y, Mirror(s)) + Weight(t, y),
         h = H[t.child[s][x]] + Extra(spot, x, s) + Weight(t, x),
         h = H[z] + Extra(spot, x, Mirror(s)) + Weight(t, x)
  PROVE  Even(u, N, TurnedHeight(H, x, y, h), spot)
<1>1. Mirror(s) \in Side /\ Mirror(s) # s /\ \A r \in Side : r = s \/ r = Mirror(s)
  BY Sides
<1>2. /\ y \in N /\ y # x /\ z \in N \union {Nil} /\ z # x /\ z # y
      /\ u.child[s][y] = x /\ u.child[Mirror(s)][y] = t.child[Mirror(s)][y]
      /\ u.child[s][x] = t.child[s][x] /\ u.child[Mirror(s)][x] = z
      /\ \A n \in Cells \ {x, y}, r \in Side :
           n \in N \union {Nil} => u.child[r][n] = IF t.child[r][n] = x THEN y ELSE t.child[r][n]
  <2>1. TurnedLinks(t, N, s, x, y, z, u)
    BY TurnLinks
  <2> QED BY Zenon, <2>1 DEF TurnedLinks
<1>3. N \subseteq Cells /\ Nil \notin N
  BY Zenon, KeysAreIntegers DEF Links, Shape
<1>4. /\ ChildFacts(t, N, B, x, s) /\ ChildFacts(t, N, B, x, Mirror(s))
      /\ ChildFacts(t, N, B, y, s) /\ ChildFacts(t, N, B, y, Mirror(s))
      /\ NodeFacts(t, N, B, x)
  BY Zenon, <1>1, <1>2, ChildHas, NodeHas
<1>5. PICK D : D = TurnedHeight(H, x, y, h)
  BY Zenon
<1>6. \A n : Weight(u, n) = Weight(t, n)
  BY Zenon DEF Turn, Weight
<1> DEFINE c == t.child[s][x]
           d == t.child[Mirror(s)][y]
<1>7. c \in N \union {Nil} /\ c # x /\ c # y /\ d \in N \union {Nil} /\ d # y
  BY Zenon, <1>1, <1>2, <1>4 DEF ChildFacts
<1>8. x # d
  <2>1. x \notin B[y] /\ (d # Nil => d \in B[y])
    BY Zenon, <1>1, <1>4 DEF ChildFacts
  <2> QED BY <2>1, <1>3
<1>9. /\ D \in [N \union {Nil} -> Nat]
      /\ \A n \in N \union {Nil} : D[n] = IF n = y THEN H[x] ELSE IF n = x THEN h ELSE H[n]
  <2>1. H \in [N \union {Nil} -> Nat]
    BY Zenon DEF EvenBut
  <2> QED BY Zenon, <2>1, <1>2, <1>5 DEF TurnedHeight
<1>10. D[Nil] = 0
  <2>1. H[Nil] = 0
    BY Zenon DEF EvenBut
  <2> QED BY Zenon, <2>1, <1>2, <1>3, <1>9
<1>11. ASSUME NEW n \in N, NEW r \in Side
       PROVE  D[n] = D[u.child[r][n]] + Extra(spot, n, r) + Weight(u, n)
  <2>1. CASE n = x /\ r = s
    <3>1. D[n] = h /\ D[u.child[r][n]] = H[c]
      BY Zenon, <2>1, <1>2, <1>7, <1>9
    <3> QED BY <2>1, <3>1, <1>6
  <2>2. CASE n = x /\ r = Mirror(s)
    <3>1. D[n] = h /\ D[u.child[r][n]] = H[z]
      BY Zenon, <2>2, <1>2, <1>9
    <3> QED BY <2>2, <3>1, <1>6
  <2>3. CASE n = y /\ r = s
    <3>1. D[n] = H[x] /\ D[u.child[r][n]] = h
      BY Zenon, <2>3, <1>2, <1>9
    <3> QED BY <2>3, <3>1, <1>6
  <2>4. CASE n = y /\ r = Mirror(s)
    <3>1. D[n] = H[x] /\ D[u.child[r][n]] = H[d]
      BY Zenon, <2>4, <1>2, <1>7, <1>8, <1>9
    <3> QED BY <2>4, <3>1, <1>6
  <2>5. CASE n \notin {x, y}
    <3>1. D[n] = H[n] /\ H[n] = H[t.child[r][n]] + Extra(spot, n, r) + Weight(t, n)
      BY Zenon, <2>5, <1>9 DEF EvenBut
    <3>2. u.child[r][n] = IF t.child[r][n] = x THEN y ELSE t.child[r][n]
      BY Zenon, <2>5, <1>2, <1>3
    <3>3. t.child[r][n] \in N \union {Nil} /\ t.child[r][n] # y
      <4>1. ChildFacts(t, N, B, n, r)
        BY ChildHas
      <4>2. t.parent[y] = x /\ y # Nil
        BY Zenon, <1>4 DEF ChildFacts
      <4> QED BY Zenon, <2>5, <4>1, <4>2 DEF ChildFacts
    <3>4. D[u.child[r][n]] = H[t.child[r][n]]
      BY Zenon, <3>2, <3>3, <1>2, <1>9
    <3> QED BY Zenon, <3>1, <3>4, <1>6
  <2> QED BY Zenon, <2>1, <2>2, <2>3, <2>4, <2>5, <1>1
<1> QED BY Zenon, <1>5, <1>9, <1>10, <1>11 DEF Even, EvenBut

-----------------------------------------------------------------------------
\* A node with one child is taken out.

\* The links to a node and what becomes of them, said by nodes.
LEMMA PlaceLinks ==
  ASSUME NEW t, NEW N, NEW B, Shape(t, N, B), NEW y \in N, NEW x \in Cells,
         NEW u, PlaceTaken(t, y, x, u)
  PROVE  /\ u \in Trees /\ u.color = t.color
         /\ u.root = IF t.root = y THEN x ELSE t.root
         /\ \A n \in Cells, r \in Side :
              n \in N \union {Nil} =>
                u.child[r][n] = IF t.child[r][n] = y THEN x ELSE t.child[r][n]
         /\ \A n \in Cells \ (N \union {Nil}), r \in Side : u.child[r][n] = t.child[r][n]
         /\ \A m \in Cells : u.parent[m] = IF m = x THEN t.parent[y] ELSE t.parent[m]
<1>1. PICK p, q : p = t.parent[y] /\ q = SideOf(t, y)
  OBVIOUS
<1>2. /\ (y = t.root <=> p = Nil) /\ y # Nil /\ y \in Cells
      /\ y # t.root => p \in N /\ p \in Cells /\ q \in Side /\ t.child[q][p] = y
  <2>1. NodeFacts(t, N, B, y)
    BY NodeHas
  <2>2. N \subseteq Cells
    BY KeysAreIntegers DEF Shape, Links
  <2> QED BY <1>1, <2>1, <2>2 DEF NodeFacts
<1>3. ASSUME NEW n \in N \union {Nil}, NEW r \in Side
      PROVE  t.child[r][n] = y <=> p # Nil /\ r = q /\ n = p
  <2>1. CASE n = Nil
    BY <2>1, <1>2 DEF Links, Shape
  <2>2. CASE n \in N
    <3>1. t.child[r][n] = y => t.parent[y] = n /\ SideOf(t, y) = r /\ n # Nil
      <4>1. ChildFacts(t, N, B, n, r) /\ NodeFacts(t, N, B, n)
        BY <2>2, ChildHas, NodeHas
      <4> QED BY <4>1, <1>2 DEF ChildFacts, NodeFacts
    <3> QED BY <3>1, <1>1, <1>2
  <2> QED BY <2>1, <2>2
<1>4. ASSUME NEW r \in Side, NEW m \in Cells
      PROVE  u.child[r][m] = IF p # Nil /\ r = q /\ m = p THEN x ELSE t.child[r][m]
  BY <1>1 DEF PlaceTaken
<1>5. u.root = IF t.root = y THEN x ELSE t.root
  BY <1>1, <1>2 DEF PlaceTaken
<1>6. ASSUME NEW n \in Cells, n \in N \union {Nil}, NEW r \in Side
      PROVE  u.child[r][n] = IF t.child[r][n] = y THEN x ELSE t.child[r][n]
  BY <1>3, <1>4, <1>6
<1>7. ASSUME NEW n \in Cells \ (N \union {Nil}), NEW r \in Side
      PROVE  u.child[r][n] = t.child[r][n]
  <2>1. p # Nil => n # p
    BY <1>2
  <2> QED BY <1>4, <2>1
<1>8. /\ u \in Trees /\ u.color = t.color
      /\ \A m \in Cells : u.parent[m] = IF m = x THEN t.parent[y] ELSE t.parent[m]
  BY DEF PlaceTaken
<1> QED BY <1>5, <1>6, <1>7, <1>8

\* The nodes below each node, without y.
SplicedBelow(N, B, y) == [n \in (N \ {y}) \union {Nil} |-> B[n] \ {y}]

\* Taking out a node that has at most one child keeps the search tree of the other nodes:
\* erase_node's transplant of the node by that child.
LEMMA SpliceKeepsShape ==
  ASSUME NEW t, NEW N, NEW B, Shape(t, N, B), NEW y \in N, NEW s \in Side,
         t.child[Mirror(s)][y] = Nil, NEW x, x = t.child[s][y],
         NEW u, PlaceTaken(t, y, x, u)
  PROVE  Shape(u, N \ {y}, SplicedBelow(N, B, y))
<1> DEFINE M == N \ {y}
<1>1. Mirror(s) \in Side /\ Mirror(s) # s /\ \A r \in Side : r = s \/ r = Mirror(s)
  BY Sides
<1>2. /\ N \subseteq Keys /\ IsFiniteSet(N) /\ Nil \notin N /\ N \subseteq Cells /\ Nil \in Cells
      /\ y # Nil
  BY KeysAreIntegers DEF Links, Shape, Cells
<1>3. ChildFacts(t, N, B, y, s) /\ NodeFacts(t, N, B, y)
  BY ChildHas, NodeHas
<1>4. /\ x \in N \union {Nil} /\ x # y /\ x \in Cells /\ (x # Nil => t.parent[x] = y /\ x # t.root)
      /\ B[y] = {y} \union B[x] /\ y \notin B[x] /\ y \in B[y]
  <2>1. B[Nil] = {}
    BY DEF Shape, Below
  <2> QED BY <2>1, <1>3 DEF ChildFacts, NodeFacts
<1>5. /\ u \in Trees
      /\ u.root = IF t.root = y THEN x ELSE t.root
      /\ \A n \in N \union {Nil}, r \in Side :
           u.child[r][n] = IF t.child[r][n] = y THEN x ELSE t.child[r][n]
      /\ \A m \in Cells : u.parent[m] = IF m = x THEN t.parent[y] ELSE t.parent[m]
  <2>1. N \union {Nil} \subseteq Cells
    BY <1>2
  <2> QED BY <2>1, <1>4, PlaceLinks
<1>6. u.root \in M \union {Nil} /\ (u.root # Nil => u.parent[u.root] = Nil)
  <2>1. CASE t.root = y
    <3>1. t.parent[y] = Nil
      BY <2>1, <1>3 DEF NodeFacts
    <3> QED BY <2>1, <3>1, <1>4, <1>5
  <2>2. CASE t.root # y
    <3>1. t.root \in N \union {Nil} /\ (t.root # Nil => t.parent[t.root] = Nil)
      BY DEF Links, Shape
    <3>2. t.root # Nil => t.root # x /\ t.root \in Cells
      BY <1>2, <1>4, <3>1
    <3> QED BY <2>2, <3>1, <3>2, <1>5
  <2> QED BY <2>1, <2>2
<1>7. \A r \in Side : u.child[r][Nil] = Nil
  <2>1. \A r \in Side : t.child[r][Nil] = Nil
    BY DEF Links, Shape
  <2> QED BY <2>1, <1>2, <1>5
<1>8. ASSUME NEW n \in M, NEW r \in Side
      PROVE  u.child[r][n] \in M \union {Nil}
             /\ (u.child[r][n] # Nil => u.parent[u.child[r][n]] = n)
  <2>1. ChildFacts(t, N, B, n, r)
    BY ChildHas
  <2>2. CASE t.child[r][n] = y
    <3>1. u.child[r][n] = x /\ t.parent[y] = n
      BY <2>1, <2>2, <1>2, <1>5 DEF ChildFacts
    <3> QED BY <3>1, <1>4, <1>5
  <2>3. CASE t.child[r][n] # y
    <3>1. u.child[r][n] = t.child[r][n]
      BY <2>3, <1>5
    <3>2. t.child[r][n] # Nil => t.parent[t.child[r][n]] = n /\ t.child[r][n] \in N
      BY <2>1 DEF ChildFacts
    <3>3. t.child[r][n] # Nil => t.child[r][n] # x
      BY <3>2, <1>4
    <3> QED BY <2>3, <3>1, <3>2, <3>3, <1>2, <1>5
  <2> QED BY <2>2, <2>3
<1>9. ASSUME NEW n \in M, n # u.root
      PROVE  u.parent[n] \in M /\ \E r \in Side : u.child[r][u.parent[n]] = n
  <2>1. CASE n = x
    <3>1. y # t.root
      BY <2>1, <1>5, <1>9
    <3>2. PICK p, q : p = t.parent[y] /\ q = SideOf(t, y)
      OBVIOUS
    <3>3. p \in N /\ q \in Side /\ t.child[q][p] = y
      BY <3>1, <3>2, <1>3 DEF NodeFacts
    <3>4. p # y
      <4>1. ChildFacts(t, N, B, p, q)
        BY <3>3, ChildHas
      <4> QED BY <4>1, <3>3 DEF ChildFacts
    <3>5. u.parent[n] = p /\ u.child[q][p] = x
      BY <2>1, <3>2, <3>3, <1>2, <1>5
    <3> QED BY <2>1, <3>3, <3>4, <3>5
  <2>2. CASE n # x
    <3>1. NodeFacts(t, N, B, n) /\ n # t.root
      BY <2>2, <1>5, <1>9, NodeHas
    <3>2. PICK p, q : p = t.parent[n] /\ q = SideOf(t, n)
      OBVIOUS
    <3>3. p \in N /\ q \in Side /\ t.child[q][p] = n
      BY <3>1, <3>2 DEF NodeFacts
    <3>4. p # y
      <4>1. p = y => q # s /\ q # Mirror(s)
        BY <2>2, <3>3, <1>2
      <4> QED BY <4>1, <3>3, <1>1
    <3>5. u.parent[n] = p /\ u.child[q][p] = n
      BY <2>2, <3>2, <3>3, <1>2, <1>5
    <3> QED BY <3>3, <3>4, <3>5
  <2> QED BY <2>1, <2>2
<1>10. IsFiniteSet(M)
  BY <1>2, FS_Subset
<1>11. Links(u, M)
  BY <1>2, <1>5, <1>6, <1>7, <1>8, <1>9, <1>10 DEF Links
<1>12. PICK D : D = SplicedBelow(N, B, y)
  OBVIOUS
<1>13. /\ D \in [M \union {Nil} -> SUBSET M]
       /\ \A n \in M \union {Nil} : D[n] = B[n] \ {y}
  <2>1. \A n \in M \union {Nil} : B[n] \subseteq N
    BY DEF Below, Shape
  <2> QED BY <2>1, <1>12 DEF SplicedBelow
<1>14. B[Nil] = {} /\ B[t.root] = N
  BY DEF Below, Shape
<1>15. D[Nil] = {} /\ D[u.root] = M
  BY <1>4, <1>5, <1>6, <1>13, <1>14
<1>16. ASSUME NEW n \in M, NEW r \in Side
       PROVE  D[u.child[r][n]] = B[t.child[r][n]] \ {y}
  <2>1. CASE t.child[r][n] = y
    <3>1. u.child[r][n] = x /\ x \in M \union {Nil}
      BY <2>1, <1>4, <1>5
    <3> QED BY <2>1, <3>1, <1>4, <1>13
  <2>2. CASE t.child[r][n] # y
    <3>1. u.child[r][n] = t.child[r][n] /\ u.child[r][n] \in M \union {Nil}
      BY <2>2, <1>5, <1>8
    <3> QED BY <3>1, <1>13
  <2> QED BY <2>1, <2>2
<1>17. ASSUME NEW n \in M
       PROVE  /\ D[n] = {n} \union D[u.child["left"][n]] \union D[u.child["right"][n]]
              /\ \A r \in Side : \A m \in D[u.child[r][n]] : Before(r, m, n)
  <2>1. /\ B[n] = {n} \union B[t.child["left"][n]] \union B[t.child["right"][n]]
        /\ \A r \in Side : \A m \in B[t.child[r][n]] : Before(r, m, n)
    BY DEF Below, Shape
  <2>2. "left" \in Side /\ "right" \in Side /\ n # y
    BY DEF Side
  <2>3. D[n] = B[n] \ {y}
    BY <1>13
  <2> QED BY <2>1, <2>2, <2>3, <1>16
<1>18. Below(u, M, D)
  BY <1>13, <1>15, <1>17 DEF Below
<1> QED BY <1>11, <1>12, <1>18 DEF Shape

\* The link at which a black node is missing, if y was black.
SpliceSpot(t, y) ==
  IF t.color[y] = "black" /\ t.root # y THEN <<t.parent[y], SideOf(t, y)>> ELSE NoSpot

\* Taking out a red node keeps the black heights; taking out a black one leaves one missing, at
\* the link where the node was.
LEMMA SpliceKeepsEven ==
  ASSUME NEW t, NEW N, NEW B, Shape(t, N, B), NEW y \in N, NEW s \in Side,
         t.child[Mirror(s)][y] = Nil, NEW x, x = t.child[s][y],
         NEW u, PlaceTaken(t, y, x, u), NEW H, Even(t, N, H, NoSpot)
  PROVE  Even(u, N \ {y}, [n \in (N \ {y}) \union {Nil} |-> H[n]], SpliceSpot(t, y))
<1> DEFINE M == N \ {y}
<1>1. PICK D : D = [n \in M \union {Nil} |-> H[n]]
  OBVIOUS
<1>2. PICK spot : spot = SpliceSpot(t, y)
  OBVIOUS
<1>3. N \subseteq Cells /\ Nil \in Cells /\ Nil \notin N
  BY KeysAreIntegers DEF Links, Shape, Cells
<1>4. x \in N \union {Nil} /\ x # y /\ x \in Cells
  <2>1. ChildFacts(t, N, B, y, s)
    BY ChildHas
  <2> QED BY <2>1 DEF ChildFacts
<1>5. /\ u.color = t.color
      /\ \A n \in N \union {Nil}, r \in Side :
           u.child[r][n] = IF t.child[r][n] = y THEN x ELSE t.child[r][n]
  <2>1. /\ u.color = t.color
        /\ \A n \in Cells, r \in Side :
             n \in N \union {Nil} =>
               u.child[r][n] = IF t.child[r][n] = y THEN x ELSE t.child[r][n]
    BY <1>4, PlaceLinks
  <2>2. \A n \in N \union {Nil} : n \in Cells
    BY <1>3
  <2> QED BY <2>1, <2>2
<1>6. /\ H \in [N \union {Nil} -> Nat] /\ H[Nil] = 0
      /\ \A n \in N, r \in Side : H[n] = H[t.child[r][n]] + Weight(t, n)
  <2>1. \A n \in N, r \in Side : /\ H[n] = H[t.child[r][n]] + Extra(NoSpot, n, r) + Weight(t, n)
                                 /\ t.child[r][n] \in N \union {Nil}
    BY ChildHas DEF Even, EvenBut, ChildFacts
  <2>2. H \in [N \union {Nil} -> Nat] /\ H[Nil] = 0
    BY DEF Even, EvenBut
  <2> QED BY <2>1, <2>2, ExtraIs
<1>7. /\ D \in [M \union {Nil} -> Nat] /\ D[Nil] = 0
      /\ \A n \in M \union {Nil} : D[n] = H[n] /\ H[n] \in Nat
  <2>1. \A n \in M \union {Nil} : H[n] \in Nat
    BY <1>6
  <2> QED BY <2>1, <1>1, <1>6
<1>8. H[y] = H[x] + Weight(t, y) /\ H[x] \in Nat
  BY <1>4, <1>6
<1>9. \A n : Weight(u, n) = Weight(t, n) /\ Weight(t, n) \in {0, 1}
  BY <1>5 DEF Weight
<1>10. ASSUME NEW n \in M, NEW r \in Side
       PROVE  D[n] = D[u.child[r][n]] + Extra(spot, n, r) + Weight(u, n)
  <2>1. ChildFacts(t, N, B, n, r) /\ NodeFacts(t, N, B, y)
    BY ChildHas, NodeHas
  <2>2. D[n] = H[n] /\ H[n] = H[t.child[r][n]] + Weight(t, n)
    BY <1>6, <1>7
  <2>3. CASE t.child[r][n] = y
    <3>1. u.child[r][n] = x /\ D[x] = H[x]
      BY <2>3, <1>4, <1>5, <1>7
    <3>2. t.parent[y] = n /\ SideOf(t, y) = r /\ t.root # y
      BY <2>1, <2>3, <1>3 DEF ChildFacts
    <3>3. Extra(spot, n, r) = Weight(t, y)
      <4>1. CASE t.color[y] = "black"
        BY <4>1, <3>2, <1>2, ExtraIs DEF SpliceSpot, Weight
      <4>2. CASE t.color[y] # "black"
        BY <4>2, <1>2, ExtraIs DEF SpliceSpot, Weight
      <4> QED BY <4>1, <4>2
    <3> QED BY <2>2, <2>3, <3>1, <3>3, <1>8, <1>9
  <2>4. CASE t.child[r][n] # y
    <3>1. u.child[r][n] = t.child[r][n] /\ t.child[r][n] \in M \union {Nil}
      BY <2>1, <2>4, <1>5 DEF ChildFacts
    <3>2. Extra(spot, n, r) = 0
      <4>1. CASE spot = NoSpot
        BY <4>1, ExtraIs
      <4>2. CASE spot # NoSpot
        <5>1. spot = <<t.parent[y], SideOf(t, y)>> /\ t.root # y
          BY <4>2, <1>2 DEF SpliceSpot
        <5>2. ~(n = t.parent[y] /\ r = SideOf(t, y))
          BY <5>1, <2>1, <2>4 DEF NodeFacts
        <5> QED BY <5>1, <5>2, ExtraIs
      <4> QED BY <4>1, <4>2
    <3>3. D[u.child[r][n]] = H[t.child[r][n]] /\ H[t.child[r][n]] \in Nat
      BY <3>1, <1>7
    <3> QED BY <2>2, <3>2, <3>3, <1>9
  <2> QED BY <2>3, <2>4
<1> QED BY <1>1, <1>2, <1>7, <1>10 DEF Even, EvenBut

-----------------------------------------------------------------------------
\* A node takes the place of another.

\* u is t with y instead of z.
Renamed(t, M, z, y, u) ==
  /\ u \in Trees
  /\ u.root = IF t.root = z THEN y ELSE t.root
  /\ \A n \in (M \ {z}) \union {Nil}, r \in Side :
       u.child[r][n] = IF t.child[r][n] = z THEN y ELSE t.child[r][n]
  /\ \A r \in Side : u.child[r][y] = t.child[r][z]
  /\ \A m \in M \ {z} : u.parent[m] = IF t.parent[m] = z THEN y ELSE t.parent[m]
  /\ u.parent[y] = t.parent[z]

\* The nodes below each node with y in the place of z.
RenamedBelow(M, B, z, y) ==
  [n \in (M \ {z}) \union {y, Nil} |->
     IF n = y THEN (B[z] \ {z}) \union {y}
     ELSE IF z \in B[n] THEN (B[n] \ {z}) \union {y} ELSE B[n]]

\* A node that takes another one's links, and lies between the same keys, keeps the search tree:
\* erase_node's successor y in the place of z.
LEMMA RenameKeepsShape ==
  ASSUME NEW t, NEW M, NEW B, Shape(t, M, B), NEW z \in M, NEW y \in Keys \ M,
         NEW u, Renamed(t, M, z, y, u),
         \A r \in Side : \A m \in B[t.child[r][z]] : Before(r, m, y),
         \A n \in M, r \in Side : z \in B[t.child[r][n]] => Before(r, y, n)
  PROVE  Shape(u, (M \ {z}) \union {y}, RenamedBelow(M, B, z, y))
<1>1. PICK N : N = (M \ {z}) \union {y}
  OBVIOUS
<1>2. /\ N \subseteq Keys /\ Nil \notin M /\ Nil \notin N /\ IsFiniteSet(N) /\ u \in Trees
  <2>1. M \subseteq Keys /\ IsFiniteSet(M) /\ Nil \notin M
    BY KeysAreIntegers DEF Shape, Links
  <2>2. IsFiniteSet(M \ {z})
    BY <2>1, FS_Subset
  <2>3. IsFiniteSet(N)
    BY <2>2, <1>1, FS_AddElement
  <2> QED BY <2>1, <2>3, <1>1, KeysAreIntegers DEF Renamed
<1>3. /\ u.root = IF t.root = z THEN y ELSE t.root
      /\ \A n \in (M \ {z}) \union {Nil}, r \in Side :
           u.child[r][n] = IF t.child[r][n] = z THEN y ELSE t.child[r][n]
      /\ \A r \in Side : u.child[r][y] = t.child[r][z]
      /\ \A m \in M \ {z} : u.parent[m] = IF t.parent[m] = z THEN y ELSE t.parent[m]
      /\ u.parent[y] = t.parent[z]
  BY DEF Renamed
<1>4. y # z /\ y \notin M /\ y # Nil /\ z # Nil
  BY <1>1, <1>2
<1>5. u.root \in N \union {Nil} /\ (u.root # Nil => u.parent[u.root] = Nil)
  <2>1. t.root \in M \union {Nil} /\ (t.root # Nil => t.parent[t.root] = Nil)
    BY DEF Shape, Links
  <2> QED BY <2>1, <1>1, <1>3, <1>4
<1>6. \A r \in Side : u.child[r][Nil] = Nil
  <2>1. \A r \in Side : t.child[r][Nil] = Nil
    BY DEF Shape, Links
  <2> QED BY <2>1, <1>3, <1>4
<1>7. ASSUME NEW n \in N, NEW r \in Side
      PROVE  u.child[r][n] \in N \union {Nil}
             /\ (u.child[r][n] # Nil => u.parent[u.child[r][n]] = n)
  <2>1. CASE n = y
    <3>1. ChildFacts(t, M, B, z, r)
      BY ChildHas
    <3> QED BY <2>1, <3>1, <1>1, <1>3 DEF ChildFacts
  <2>2. CASE n # y
    <3>1. ChildFacts(t, M, B, n, r) /\ n \in M \ {z}
      BY <2>2, <1>1, ChildHas
    <3>2. CASE t.child[r][n] = z
      BY <3>1, <3>2, <1>1, <1>3, <1>4 DEF ChildFacts
    <3>3. CASE t.child[r][n] # z
      BY <3>1, <3>3, <1>1, <1>3, <1>4 DEF ChildFacts
    <3> QED BY <3>2, <3>3
  <2> QED BY <2>1, <2>2
<1>8. ASSUME NEW n \in N, n # u.root
      PROVE  u.parent[n] \in N /\ \E r \in Side : u.child[r][u.parent[n]] = n
  <2>1. PICK m \in M : (n = y /\ m = z) \/ (n # y /\ n # z /\ m = n)
    BY <1>1, <1>4
  <2>2. m # t.root /\ NodeFacts(t, M, B, m)
    BY <2>1, <1>3, <1>4, <1>8, NodeHas
  <2>3. PICK p, q : p = t.parent[m] /\ q = SideOf(t, m)
    OBVIOUS
  <2>4. p \in M /\ q \in Side /\ t.child[q][p] = m
    BY <2>2, <2>3 DEF NodeFacts
  <2>5. ChildFacts(t, M, B, p, q)
    BY <2>4, ChildHas
  <2>6. p # m
    BY <2>4, <2>5 DEF ChildFacts
  <2>7. u.parent[n] = IF p = z THEN y ELSE p
    BY <2>1, <2>3, <2>6, <1>3
  <2>8. u.child[q][u.parent[n]] = n
    BY <2>1, <2>4, <2>6, <2>7, <1>3, <1>4
  <2>9. u.parent[n] \in N
    BY <2>4, <2>7, <1>1
  <2> QED BY <2>4, <2>8, <2>9
<1>9. Links(u, N)
  BY <1>2, <1>5, <1>6, <1>7, <1>8 DEF Links
<1>10. PICK D : D = RenamedBelow(M, B, z, y)
  OBVIOUS
<1>11. /\ B \in [M \union {Nil} -> SUBSET M] /\ B[Nil] = {} /\ B[t.root] = M
       /\ \A n \in M \union {Nil} : B[n] \subseteq M
  BY DEF Shape, Below
<1>12. /\ D \in [N \union {Nil} -> SUBSET N]
       /\ D[y] = (B[z] \ {z}) \union {y}
       /\ \A n \in (M \ {z}) \union {Nil} :
            D[n] = IF z \in B[n] THEN (B[n] \ {z}) \union {y} ELSE B[n]
  BY <1>1, <1>4, <1>10, <1>11 DEF RenamedBelow
<1>13. z \in B[z]
  BY NodeHas DEF NodeFacts
<1>14. D[Nil] = {} /\ D[u.root] = N
  <2>1. t.root \in M \union {Nil}
    BY DEF Shape, Links
  <2>2. t.root # Nil
    BY <1>11, <1>13
  <2> QED BY <2>1, <2>2, <1>1, <1>3, <1>11, <1>12
<1>15. ASSUME NEW n \in (M \ {z}) \union {Nil}, NEW r \in Side, t.child[r][n] \in M \union {Nil}
       PROVE  D[u.child[r][n]] = IF z \in B[t.child[r][n]]
                                 THEN (B[t.child[r][n]] \ {z}) \union {y} ELSE B[t.child[r][n]]
  BY Zenon, <1>3, <1>12, <1>13, <1>15
<1>16. ASSUME NEW n \in M \ {z}
       PROVE  /\ D[n] = {n} \union D[u.child["left"][n]] \union D[u.child["right"][n]]
              /\ \A r \in Side : \A m \in D[u.child[r][n]] : Before(r, m, n)
  <2>1. /\ B[n] = {n} \union B[t.child["left"][n]] \union B[t.child["right"][n]]
        /\ \A r \in Side : \A m \in B[t.child[r][n]] : Before(r, m, n)
    BY DEF Below, Shape
  <2>2. \A r \in Side : t.child[r][n] \in M \union {Nil}
    BY ChildHas DEF ChildFacts
  <2>3. "left" \in Side /\ "right" \in Side
    BY DEF Side
  <2>4. D[n] = IF z \in B[n] THEN (B[n] \ {z}) \union {y} ELSE B[n]
    BY <1>12
  <2>5. \A r \in Side : z \in B[t.child[r][n]] => Before(r, y, n)
    OBVIOUS
  <2>6. ASSUME NEW r \in Side
        PROVE  D[u.child[r][n]] = IF z \in B[t.child[r][n]]
                                  THEN (B[t.child[r][n]] \ {z}) \union {y} ELSE B[t.child[r][n]]
    BY <2>2, <1>15
  <2>7. D[n] = {n} \union D[u.child["left"][n]] \union D[u.child["right"][n]]
    <3>1. PICK b, c : b = B[t.child["left"][n]] /\ c = B[t.child["right"][n]]
      OBVIOUS
    <3>2. /\ D[u.child["left"][n]] = IF z \in b THEN (b \ {z}) \union {y} ELSE b
          /\ D[u.child["right"][n]] = IF z \in c THEN (c \ {z}) \union {y} ELSE c
      BY <2>3, <2>6, <3>1
    <3>3. B[n] = {n} \union b \union c /\ n # z
      BY <2>1, <3>1
    <3> QED BY <2>4, <3>2, <3>3
  <2>8. ASSUME NEW r \in Side, NEW m \in D[u.child[r][n]] PROVE Before(r, m, n)
    <3>1. PICK b : b = B[t.child[r][n]]
      OBVIOUS
    <3>2. (\A k \in b : Before(r, k, n)) /\ (z \in b => Before(r, y, n))
      BY <2>1, <2>5, <3>1
    <3>3. m \in IF z \in b THEN (b \ {z}) \union {y} ELSE b
      BY <2>6, <2>8, <3>1
    <3> QED BY <3>2, <3>3
  <2> QED BY <2>7, <2>8
<1>17. ASSUME NEW r \in Side
       PROVE  D[u.child[r][y]] = B[t.child[r][z]] /\ z \notin B[t.child[r][z]]
  <2>1. ChildFacts(t, M, B, z, r)
    BY ChildHas
  <2>2. PICK c : c = t.child[r][z]
    OBVIOUS
  <2>3. c \in (M \ {z}) \union {Nil} /\ z \notin B[c] /\ u.child[r][y] = c
    BY <2>1, <2>2, <1>3 DEF ChildFacts
  <2>4. D[c] = B[c]
    BY <2>3, <1>12
  <2> QED BY <2>2, <2>3, <2>4
<1>18. /\ D[y] = {y} \union D[u.child["left"][y]] \union D[u.child["right"][y]]
       /\ \A r \in Side : \A m \in D[u.child[r][y]] : Before(r, m, y)
  <2>1. PICK b, c : b = B[t.child["left"][z]] /\ c = B[t.child["right"][z]]
    OBVIOUS
  <2>2. B[z] = {z} \union b \union c
    BY <2>1 DEF Below, Shape
  <2>3. "left" \in Side /\ "right" \in Side
    BY DEF Side
  <2>4. /\ D[u.child["left"][y]] = b /\ D[u.child["right"][y]] = c
        /\ z \notin b /\ z \notin c
    BY <2>1, <2>3, <1>17
  <2>5. D[y] = {y} \union b \union c
    BY <2>2, <2>4, <1>12
  <2>6. ASSUME NEW r \in Side, NEW m \in D[u.child[r][y]] PROVE Before(r, m, y)
    BY <2>6, <1>17
  <2> QED BY <2>4, <2>5, <2>6
<1>19. Below(u, N, D)
  <2>1. \A n \in N : n = y \/ n \in M \ {z}
    BY <1>1
  <2>2. \A n \in N : D[n] = {n} \union D[u.child["left"][n]] \union D[u.child["right"][n]]
    BY <2>1, <1>16, <1>18
  <2>3. \A n \in N, r \in Side : \A m \in D[u.child[r][n]] : Before(r, m, n)
    BY <2>1, <1>16, <1>18
  <2> QED BY <2>2, <2>3, <1>12, <1>14 DEF Below
<1> QED BY <1>1, <1>9, <1>10, <1>19 DEF Shape

\* The black heights with y in the place of z.
RenamedHeight(M, H, z, y) == [n \in (M \ {z}) \union {y, Nil} |-> IF n = y THEN H[z] ELSE H[n]]

\* A node that takes another one's links and colour keeps the black heights.
LEMMA RenameKeepsEven ==
  ASSUME NEW t, NEW M, NEW B, Shape(t, M, B), NEW z \in M, NEW y \in Keys \ M,
         NEW u, Renamed(t, M, z, y, u),
         u.color[y] = t.color[z], \A n \in M \ {z} : u.color[n] = t.color[n],
         NEW H, NEW spot, Even(t, M, H, spot), NEW seen,
         \A n \in M \ {z}, r \in Side : Extra(seen, n, r) = Extra(spot, n, r),
         \A r \in Side : Extra(seen, y, r) = Extra(spot, z, r)
  PROVE  Even(u, (M \ {z}) \union {y}, RenamedHeight(M, H, z, y), seen)
<1>1. PICK N, D : N = (M \ {z}) \union {y} /\ D = RenamedHeight(M, H, z, y)
  OBVIOUS
<1>2. M \subseteq Cells /\ Nil \notin M /\ y # Nil /\ z # Nil /\ y # z
  BY KeysAreIntegers, KeyAssumption DEF Shape, Links
<1>3. /\ \A n \in (M \ {z}) \union {Nil}, r \in Side :
           u.child[r][n] = IF t.child[r][n] = z THEN y ELSE t.child[r][n]
      /\ \A r \in Side : u.child[r][y] = t.child[r][z]
  BY DEF Renamed
<1>4. /\ H \in [M \union {Nil} -> Nat] /\ H[Nil] = 0
      /\ \A n \in M, s \in Side : H[n] = H[t.child[s][n]] + Extra(spot, n, s) + Weight(t, n)
  BY DEF Even, EvenBut
<1>5. /\ D \in [N \union {Nil} -> Nat] /\ D[y] = H[z]
      /\ \A n \in (M \ {z}) \union {Nil} : D[n] = H[n]
  BY <1>1, <1>2, <1>4 DEF RenamedHeight
<1>6. D[Nil] = 0
  BY <1>2, <1>4, <1>5
<1>7. ASSUME NEW n \in N, NEW r \in Side
      PROVE  D[n] = D[u.child[r][n]] + Extra(seen, n, r) + Weight(u, n)
  <2>1. CASE n = y
    <3>1. PICK c : c = t.child[r][z]
      OBVIOUS
    <3>2. ChildFacts(t, M, B, z, r)
      BY ChildHas
    <3>3. c \in (M \ {z}) \union {Nil} /\ u.child[r][n] = c
      BY <2>1, <3>1, <3>2, <1>3 DEF ChildFacts
    <3>4. D[c] = H[c] /\ Weight(u, n) = Weight(t, z) /\ Extra(seen, n, r) = Extra(spot, z, r)
      BY <2>1, <3>3, <1>5 DEF Weight
    <3> QED BY <2>1, <3>1, <3>3, <3>4, <1>4, <1>5
  <2>2. CASE n # y
    <3>1. n \in M \ {z} /\ t.child[r][n] \in M \union {Nil}
      BY <2>2, <1>1, ChildHas DEF ChildFacts
    <3>2. D[u.child[r][n]] = H[t.child[r][n]]
      BY <3>1, <1>3, <1>5
    <3>3. Weight(u, n) = Weight(t, n) /\ Extra(seen, n, r) = Extra(spot, n, r) /\ D[n] = H[n]
      BY <3>1, <1>5 DEF Weight
    <3> QED BY <3>1, <3>2, <3>3, <1>4
  <2> QED BY <2>1, <2>2
<1> QED BY <1>1, <1>5, <1>6, <1>7 DEF Even, EvenBut

-----------------------------------------------------------------------------
\* Induction over the nodes, from the leaves up and from the root down.

\* A nonempty family of subsets of a finite set has a smallest member.
LEMMA LeastSet ==
  ASSUME NEW N, IsFiniteSet(N), NEW T \in SUBSET (SUBSET N), T # {}
  PROVE  \E a \in T : \A b \in T : b \subseteq a => b = a
<1>1. T \subseteq FiniteSubsetsOf(N)
  BY FS_Subset DEF FiniteSubsetsOf
<1>2. IsWellFoundedOn(StrictSubsetOrdering(N), FiniteSubsetsOf(N))
  BY FS_StrictSubsetOrderingWellFounded
<1>3. PICK a \in T : \A b \in T : ~ (<<b, a>> \in StrictSubsetOrdering(N))
  BY <1>1, <1>2, WFMin
<1> QED BY <1>1, <1>3 DEF StrictSubsetOrdering

\* Induction from the leaves: a set that contains nil_, and a node whenever it contains its
\* children, contains every node.
LEMMA UpFromLeaves ==
  ASSUME NEW t, NEW N, NEW B, Shape(t, N, B), NEW S, Nil \in S,
         \A n \in N : (\A r \in Side : t.child[r][n] \in S) => n \in S
  PROVE  N \subseteq S
<1> SUFFICES ASSUME N \ S # {} PROVE FALSE
  OBVIOUS
<1>1. IsFiniteSet(N) /\ \A n \in N : B[n] \subseteq N
  BY DEF Shape, Links, Below
<1>2. PICK n \in N \ S : \A m \in N \ S : B[m] \subseteq B[n] => B[m] = B[n]
  <2>1. PICK T : T = {B[m] : m \in N \ S}
    OBVIOUS
  <2>2. T \in SUBSET (SUBSET N) /\ T # {}
    BY <1>1, <2>1
  <2>3. PICK a \in T : \A b \in T : b \subseteq a => b = a
    BY <1>1, <2>2, LeastSet
  <2>4. PICK k \in N \ S : a = B[k]
    BY <2>1
  <2>5. \A m \in N \ S : B[m] \in T
    BY <2>1
  <2>6. \A m \in N \ S : B[m] \subseteq B[k] => B[m] = B[k]
    BY <2>3, <2>4, <2>5
  <2> QED BY <2>6
<1>3. PICK r \in Side : t.child[r][n] \notin S
  OBVIOUS
<1>4. ChildFacts(t, N, B, n, r) /\ NodeFacts(t, N, B, n)
  BY ChildHas, NodeHas
<1>5. PICK c : c = t.child[r][n]
  OBVIOUS
<1>6. c \in N \ S /\ B[c] \subseteq B[n] /\ n \notin B[c] /\ n \in B[n]
  BY <1>3, <1>4, <1>5 DEF ChildFacts, NodeFacts
<1> QED BY <1>2, <1>6

\* Induction from the root: a set that contains the root, and a node whenever it contains its
\* parent, contains every node.
LEMMA DownFromRoot ==
  ASSUME NEW t, NEW N, NEW B, Shape(t, N, B), NEW S, t.root \in S,
         \A n \in N : t.parent[n] \in S => n \in S
  PROVE  N \subseteq S
<1> SUFFICES ASSUME N \ S # {} PROVE FALSE
  OBVIOUS
<1>1. IsFiniteSet(N) /\ \A n \in N : B[n] \subseteq N
  BY DEF Shape, Links, Below
<1>2. PICK n \in N \ S : \A m \in N \ S : N \ B[m] \subseteq N \ B[n] => N \ B[m] = N \ B[n]
  <2>1. PICK T : T = {N \ B[m] : m \in N \ S}
    OBVIOUS
  <2>2. T \in SUBSET (SUBSET N) /\ T # {}
    BY <1>1, <2>1
  <2>3. PICK a \in T : \A b \in T : b \subseteq a => b = a
    BY <1>1, <2>2, LeastSet
  <2>4. PICK k \in N \ S : a = N \ B[k]
    BY <2>1
  <2>5. \A m \in N \ S : N \ B[m] \in T
    BY <2>1
  <2>6. \A m \in N \ S : N \ B[m] \subseteq N \ B[k] => N \ B[m] = N \ B[k]
    BY <2>3, <2>4, <2>5
  <2> QED BY <2>6
<1>3. n # t.root /\ t.parent[n] \notin S
  OBVIOUS
<1>4. PICK p, q : p = t.parent[n] /\ q = SideOf(t, n)
  OBVIOUS
<1>5. p \in N \ S /\ q \in Side /\ t.child[q][p] = n /\ n # Nil
  BY <1>3, <1>4, NodeHas DEF NodeFacts
<1>6. ChildFacts(t, N, B, p, q) /\ NodeFacts(t, N, B, p)
  BY <1>5, ChildHas, NodeHas
<1>7. B[n] \subseteq B[p] /\ p \notin B[n] /\ p \in B[p]
  BY <1>5, <1>6 DEF ChildFacts, NodeFacts
<1> QED BY <1>1, <1>2, <1>5, <1>7

\* What is below a node that is below n is below n.
LEMMA BelowIsTransitive ==
  ASSUME NEW t, NEW N, NEW B, Shape(t, N, B)
  PROVE  \A n \in N : \A m \in B[n] : /\ m \in N /\ B[m] \subseteq B[n]
                                      /\ \A r \in Side : t.child[r][m] \in B[n] \union {Nil}
<1>1. PICK S : S = {n \in N \union {Nil} : \A m \in B[n] : B[m] \subseteq B[n]}
  OBVIOUS
<1>2. Nil \in S
  BY <1>1 DEF Shape, Below
<1>3. ASSUME NEW n \in N, \A r \in Side : t.child[r][n] \in S
      PROVE  n \in S
  <2>1. PICK a, b : a = t.child["left"][n] /\ b = t.child["right"][n]
    OBVIOUS
  <2>2. B[n] = {n} \union B[a] \union B[b]
    BY <2>1 DEF Shape, Below
  <2>3. a \in S /\ b \in S
    BY <1>3, <2>1 DEF Side
  <2> QED BY <1>1, <2>2, <2>3
<1>4. N \subseteq S
  BY <1>2, <1>3, UpFromLeaves
<1>5. ASSUME NEW n \in N, NEW m \in B[n], NEW r \in Side
      PROVE  m \in N /\ B[m] \subseteq B[n] /\ t.child[r][m] \in B[n] \union {Nil}
  <2>1. m \in N /\ B[m] \subseteq B[n]
    BY <1>1, <1>4 DEF Shape, Below
  <2>2. ChildFacts(t, N, B, m, r)
    BY <2>1, ChildHas
  <2> QED BY <2>1, <2>2 DEF ChildFacts
<1> QED BY <1>5, Sides

-----------------------------------------------------------------------------
\* Recursion along the tree.

\* The links of keys that are not in the tree lead into it.
Loose(t, N) == \A n \in Keys \ N, r \in Side : t.child[r][n] \in N \union {Nil}

\* f is computed at every key of K from its values at the two children.
Walks(t, f, K, base, step) ==
  /\ f[Nil] = base
  /\ \A n \in K : f[n] = step[<<n, f[t.child["left"][n]], f[t.child["right"][n]]>>]

\* What is computed at a node from its values at the two children is a function of the nodes: no
\* walk of the code down the links runs in a circle.
LEMMA WalkExists ==
  ASSUME NEW t, NEW N, NEW B, Shape(t, N, B), Loose(t, N), NEW V, NEW base \in V,
         NEW step \in [Keys \X V \X V -> V]
  PROVE  \E f \in [Cells -> V] : Walks(t, f, Keys, base, step)
<1> DEFINE S == {n \in N \union {Nil} : \E f \in [B[n] \union {Nil} -> V] :
                                           Walks(t, f, B[n], base, step)}
<1>1. N \subseteq Keys /\ Nil \notin N /\ Nil \notin Keys /\ Cells = Keys \union {Nil}
  BY KeyAssumption DEF Shape, Links, Cells
<1>2. Nil \in S
  <2>1. B[Nil] = {}
    BY DEF Shape, Below
  <2>2. [m \in B[Nil] \union {Nil} |-> base] \in [B[Nil] \union {Nil} -> V]
    OBVIOUS
  <2>3. Walks(t, [m \in B[Nil] \union {Nil} |-> base], B[Nil], base, step)
    BY <2>1 DEF Walks
  <2> QED BY <2>2, <2>3
<1>3. ASSUME NEW n \in N, \A r \in Side : t.child[r][n] \in S
      PROVE  n \in S
  <2>1. PICK a, b : a = t.child["left"][n] /\ b = t.child["right"][n]
    OBVIOUS
  <2>2. "left" \in Side /\ "right" \in Side /\ Mirror("left") = "right"
    BY DEF Side, Mirror
  <2>3. PICK fa \in [B[a] \union {Nil} -> V] : Walks(t, fa, B[a], base, step)
    BY <1>3, <2>1, <2>2
  <2>4. PICK fb \in [B[b] \union {Nil} -> V] : Walks(t, fb, B[b], base, step)
    BY <1>3, <2>1, <2>2
  <2>5. ChildFacts(t, N, B, n, "left") /\ ChildFacts(t, N, B, n, "right")
    BY <2>2, ChildHas
  <2>6. /\ B[n] = {n} \union B[a] \union B[b] /\ B[a] \intersect B[b] = {}
        /\ n \notin B[a] /\ n \notin B[b] /\ B[a] \subseteq N /\ B[b] \subseteq N
        /\ a \in N \union {Nil} /\ b \in N \union {Nil} /\ a # n /\ b # n
        /\ (a # Nil => a \in B[a]) /\ (b # Nil => b \in B[b])
    BY <2>1, <2>2, <2>5 DEF ChildFacts
  <2>7. PICK v : v = step[<<n, fa[a], fb[b]>>]
    OBVIOUS
  <2>8. v \in V
    <3>1. fa[a] \in V /\ fb[b] \in V /\ n \in Keys
      BY <1>1, <2>6
    <3> QED BY <3>1, <2>7
  <2>9. PICK f : f = [m \in B[n] \union {Nil} |->
                        IF m = n THEN v ELSE IF m \in B[a] THEN fa[m]
                        ELSE IF m \in B[b] THEN fb[m] ELSE base]
    OBVIOUS
  <2>10. f \in [B[n] \union {Nil} -> V]
    BY <2>6, <2>8, <2>9
  <2>11. f[Nil] = base /\ f[n] = v
    BY <1>1, <2>6, <2>9
  <2>12. \A m \in B[a] \union {Nil} : f[m] = fa[m]
    BY <1>1, <2>3, <2>6, <2>9, <2>11 DEF Walks
  <2>13. \A m \in B[b] \union {Nil} : f[m] = fb[m]
    BY <1>1, <2>4, <2>6, <2>9, <2>11 DEF Walks
  <2>14. ASSUME NEW m \in B[n]
         PROVE  f[m] = step[<<m, f[t.child["left"][m]], f[t.child["right"][m]]>>]
    <3>1. CASE m = n
      BY <3>1, <2>1, <2>6, <2>7, <2>11, <2>12, <2>13
    <3>2. CASE m \in B[a]
      <4>1. a \in N
        BY <3>2, <2>6 DEF Shape, Below
      <4>2. t.child["left"][m] \in B[a] \union {Nil} /\ t.child["right"][m] \in B[a] \union {Nil}
        BY <3>2, <4>1, <2>2, BelowIsTransitive
      <4>3. fa[m] = step[<<m, fa[t.child["left"][m]], fa[t.child["right"][m]]>>]
        BY <3>2, <2>3 DEF Walks
      <4> QED BY <3>2, <4>2, <4>3, <2>12
    <3>3. CASE m \in B[b]
      <4>1. b \in N
        BY <3>3, <2>6 DEF Shape, Below
      <4>2. t.child["left"][m] \in B[b] \union {Nil} /\ t.child["right"][m] \in B[b] \union {Nil}
        BY <3>3, <4>1, <2>2, BelowIsTransitive
      <4>3. fb[m] = step[<<m, fb[t.child["left"][m]], fb[t.child["right"][m]]>>]
        BY <3>3, <2>4 DEF Walks
      <4> QED BY <3>3, <4>2, <4>3, <2>13
    <3> QED BY Zenon, <3>1, <3>2, <3>3, <2>6
  <2>15. Walks(t, f, B[n], base, step)
    BY <2>11, <2>14 DEF Walks
  <2> QED BY <2>10, <2>15
<1>4. N \subseteq S
  <2> HIDE DEF S
  <2> QED BY <1>2, <1>3, UpFromLeaves
<1>5. PICK g \in [N \union {Nil} -> V] : Walks(t, g, N, base, step)
  <2>1. CASE t.root = Nil
    <3>1. N = {}
      BY <2>1 DEF Shape, Below
    <3>2. [m \in N \union {Nil} |-> base] \in [N \union {Nil} -> V]
      OBVIOUS
    <3>3. Walks(t, [m \in N \union {Nil} |-> base], N, base, step)
      BY <3>1 DEF Walks
    <3> QED BY <3>2, <3>3
  <2>2. CASE t.root # Nil
    <3>1. t.root \in S /\ B[t.root] = N
      BY <2>2, <1>4 DEF Shape, Links, Below
    <3> QED BY <3>1
  <2> QED BY <2>1, <2>2
<1>6. PICK f : f = [n \in Cells |-> IF n \in N \union {Nil} THEN g[n]
                     ELSE step[<<n, g[t.child["left"][n]], g[t.child["right"][n]]>>]]
  OBVIOUS
<1>7. \A n \in Keys : t.child["left"][n] \in N \union {Nil} /\ t.child["right"][n] \in N \union {Nil}
  BY DEF Loose, Shape, Links, Side
<1>8. f \in [Cells -> V]
  <2>1. ASSUME NEW n \in Cells PROVE f[n] \in V
    <3>1. CASE n \in N \union {Nil}
      BY <3>1, <1>6
    <3>2. CASE n \notin N \union {Nil}
      <4>1. /\ n \in Keys /\ g[t.child["left"][n]] \in V /\ g[t.child["right"][n]] \in V
        BY <3>2, <1>1, <1>7
      <4> QED BY <3>2, <4>1, <1>6
    <3> QED BY <3>1, <3>2
  <2> QED BY <2>1, <1>6
<1>9. Walks(t, f, Keys, base, step)
  <2>1. f[Nil] = base
    BY Zenon, <1>1, <1>5, <1>6 DEF Walks
  <2>2. \A n \in N \union {Nil} : f[n] = g[n]
    BY <1>1, <1>6
  <2>3. ASSUME NEW n \in Keys
        PROVE  f[n] = step[<<n, f[t.child["left"][n]], f[t.child["right"][n]]>>]
    <3>1. CASE n \in N
      BY <3>1, <2>2, <1>5, <1>7 DEF Walks
    <3>2. CASE n \notin N
      BY Zenon, <3>2, <2>2, <1>1, <1>6, <1>7
    <3> QED BY <3>1, <3>2
  <2> QED BY <2>1, <2>3 DEF Walks
<1> QED BY <1>8, <1>9

\* The cells are the keys and nil_, which is no key.
LEMMA CellsAreKeys ==
  /\ Cells = Keys \union {Nil} /\ Nil \notin Keys /\ Nil \in Cells /\ Keys \subseteq Cells
  /\ \A k \in Keys : k \in Int /\ k # Nil
  /\ "left" \in Side /\ "right" \in Side /\ Mirror("left") = "right" /\ Mirror("right") = "left"
BY KeyAssumption DEF Cells, Side, Mirror

\* A step that goes on from n to its child on the side dir[n], unless stop[n] is a cell.
LEMMA PathExists ==
  ASSUME NEW t, NEW N, NEW B, Shape(t, N, B), Loose(t, N),
         NEW dir \in [Keys -> Side], NEW halt \in [Keys -> BOOLEAN]
  PROVE  \E f \in [Cells -> Cells] :
           /\ f[Nil] = Nil
           /\ \A n \in Keys : f[n] = IF halt[n] THEN n ELSE f[t.child[dir[n]][n]]
<1>1. PICK step : step = [a \in Keys \X Cells \X Cells |->
                            IF halt[a[1]] THEN a[1] ELSE IF dir[a[1]] = "left" THEN a[2] ELSE a[3]]
  OBVIOUS
<1>2. step \in [Keys \X Cells \X Cells -> Cells]
  BY <1>1, CellsAreKeys
<1>3. PICK f \in [Cells -> Cells] : Walks(t, f, Keys, Nil, step)
  BY <1>2, CellsAreKeys, WalkExists
<1>4. ASSUME NEW n \in Keys
      PROVE  f[n] = IF halt[n] THEN n ELSE f[t.child[dir[n]][n]]
  <2>1. PICK a, b : a = f[t.child["left"][n]] /\ b = f[t.child["right"][n]]
    OBVIOUS
  <2>2. t.child["left"][n] \in Cells /\ t.child["right"][n] \in Cells
    <3>1. t \in Trees /\ n \in Cells
      BY CellsAreKeys DEF Shape, Links
    <3> QED BY <3>1, TreeFields, CellsAreKeys
  <2>3. f[n] = step[<<n, a, b>>] /\ a \in Cells /\ b \in Cells
    BY <1>3, <2>1, <2>2 DEF Walks
  <2>4. f[n] = IF halt[n] THEN n ELSE IF dir[n] = "left" THEN a ELSE b
    BY <1>1, <2>3
  <2>5. dir[n] = "left" \/ dir[n] = "right"
    BY DEF Side
  <2> QED BY <2>1, <2>4, <2>5
<1> QED BY <1>3, <1>4 DEF Walks

\* Outermost, the loop of leftmost and rightmost, satisfies its recursive equation in a tree.
LEMMA OutermostWalk ==
  ASSUME NEW t, NEW N, NEW B, Shape(t, N, B), Loose(t, N), NEW s \in Side
  PROVE  \A n \in Cells : Outermost(t, s, n) = IF t.child[s][n] = Nil THEN n
                                               ELSE Outermost(t, s, t.child[s][n])
<1> DEFINE f == CHOOSE f : f = [m \in Cells |-> IF t.child[s][m] = Nil THEN m
                                                 ELSE f[t.child[s][m]]]
<1>1. PICK halt, dir : halt = [n \in Keys |-> t.child[s][n] = Nil] /\ dir = [n \in Keys |-> s]
  OBVIOUS
<1>2. halt \in [Keys -> BOOLEAN] /\ dir \in [Keys -> Side]
  BY <1>1
<1>3. PICK g \in [Cells -> Cells] :
           /\ g[Nil] = Nil
           /\ \A n \in Keys : g[n] = IF halt[n] THEN n ELSE g[t.child[dir[n]][n]]
  BY <1>2, PathExists
<1>4. t.child[s][Nil] = Nil
  BY DEF Shape, Links
<1>5. ASSUME NEW n \in Cells
      PROVE  g[n] = IF t.child[s][n] = Nil THEN n ELSE g[t.child[s][n]]
  BY <1>1, <1>3, <1>4, CellsAreKeys
<1>6. g = [m \in Cells |-> IF t.child[s][m] = Nil THEN m ELSE g[t.child[s][m]]]
  BY <1>3, <1>5
<1>7. f = [m \in Cells |-> IF t.child[s][m] = Nil THEN m ELSE f[t.child[s][m]]]
  BY <1>6
<1>8. \A n : Outermost(t, s, n) = f[n]
  BY DEF Outermost
<1> HIDE DEF f
<1> QED BY <1>7, <1>8

\* The walk to the end of side s ends at the first node of that side.
LEMMA OutermostIs ==
  ASSUME NEW t, NEW N, NEW B, Shape(t, N, B), Loose(t, N), NEW s \in Side, NEW n \in N
  PROVE  /\ Outermost(t, s, n) \in B[n] /\ Outermost(t, s, n) \in N
         /\ t.child[s][Outermost(t, s, n)] = Nil
         /\ \A m \in B[n] : m = Outermost(t, s, n) \/ Before(s, Outermost(t, s, n), m)
<1> DEFINE P(m) == /\ Outermost(t, s, m) \in B[m] /\ t.child[s][Outermost(t, s, m)] = Nil
                   /\ \A k \in B[m] : k = Outermost(t, s, m) \/ Before(s, Outermost(t, s, m), k)
           S == {m \in N \union {Nil} : m # Nil => P(m)}
<1>1. N \subseteq Keys /\ \A m \in N : m \in Int /\ m \in Cells /\ m # Nil
  BY KeysAreIntegers, CellsAreKeys DEF Shape, Links
<1>2. Mirror(s) \in Side /\ Mirror(Mirror(s)) = s
  BY Sides
<1>3. ASSUME NEW m \in N, \A r \in Side : t.child[r][m] \in S
      PROVE  m \in S
  <2>1. PICK c, d, y : c = t.child[s][m] /\ d = t.child[Mirror(s)][m] /\ y = Outermost(t, s, m)
    OBVIOUS
  <2>2. ChildFacts(t, N, B, m, s) /\ ChildFacts(t, N, B, m, Mirror(s))
    BY <1>2, ChildHas
  <2>3. /\ B[m] = {m} \union B[c] \union B[d] /\ B[c] \subseteq N /\ B[d] \subseteq N
        /\ c \in N \union {Nil}
        /\ \A k \in B[c] : Before(s, k, m)
        /\ \A k \in B[d] : Before(Mirror(s), k, m)
    BY <2>1, <2>2, <1>2 DEF ChildFacts
  <2>4. \A k \in B[d] : Before(s, m, k)
    BY <2>3, <1>1, <1>2, BeforeIsOrder
  <2>5. y = IF c = Nil THEN m ELSE Outermost(t, s, c)
    BY <2>1, <1>1, OutermostWalk
  <2>6. CASE c = Nil
    <3>1. B[c] = {} /\ y = m
      BY <2>5, <2>6 DEF Shape, Below
    <3> QED BY <2>1, <2>3, <2>4, <2>6, <3>1
  <2>7. CASE c # Nil
    <3>1. y = Outermost(t, s, c)
      BY <2>5, <2>7
    <3>2. P(c)
      BY <2>1, <2>7, <1>3
    <3>3. y \in B[c] /\ t.child[s][y] = Nil /\ \A k \in B[c] : k = y \/ Before(s, y, k)
      BY <3>1, <3>2
    <3>4. Before(s, y, m) /\ y \in Int
      BY <3>3, <2>3, <1>1
    <3>5. \A k \in B[d] : Before(s, y, k)
      BY <3>4, <2>3, <2>4, <1>1, BeforeIsOrder
    <3>6. \A k \in B[m] : k = y \/ Before(s, y, k)
      BY <3>3, <3>4, <3>5, <2>3
    <3>7. P(m)
      BY <2>1, <2>3, <3>3, <3>6
    <3> QED BY <3>7
  <2> QED BY <2>6, <2>7
<1>4. N \subseteq S
  <2>1. Nil \in S
    OBVIOUS
  <2> HIDE DEF S
  <2> QED BY <2>1, <1>3, UpFromLeaves
<1>5. P(n)
  BY <1>1, <1>4
<1>6. B[n] \subseteq N
  BY DEF Shape, Below
<1> QED BY <1>5, <1>6

-----------------------------------------------------------------------------
\* Erasing: the tree with a node taken out.

\* There is one link to a node.
LEMMA LinkTo ==
  ASSUME NEW t, NEW N, NEW B, Shape(t, N, B), NEW z \in N
  PROVE  \A n \in N \union {Nil}, r \in Side :
           t.child[r][n] = z <=> t.parent[z] # Nil /\ r = SideOf(t, z) /\ n = t.parent[z]
<1>1. NodeFacts(t, N, B, z)
  BY NodeHas
<1>2. ASSUME NEW n \in N \union {Nil}, NEW r \in Side, t.child[r][n] = z
      PROVE  t.parent[z] # Nil /\ r = SideOf(t, z) /\ n = t.parent[z]
  <2>1. z # Nil /\ n \in N
    BY <1>1, <1>2 DEF Shape, Links, NodeFacts
  <2>2. ChildFacts(t, N, B, n, r) /\ NodeFacts(t, N, B, n)
    BY <2>1, ChildHas, NodeHas
  <2> QED BY <1>2, <2>1, <2>2 DEF ChildFacts, NodeFacts
<1> QED BY <1>1, <1>2 DEF NodeFacts

\* A node of colour lost is missing above x, at <<p, q>> or at the root.
Gap(t, N, x, lost) ==
  /\ x \in N \union {Nil}
  /\ \/ x = t.root /\ \E H : Even(t, N, H, NoSpot)
     \/ \E p \in N, q \in Side :
          /\ t.parent[x] = p /\ t.child[q][p] = x
          /\ \E H : Even(t, N, H, IF lost = "black" THEN <<p, q>> ELSE NoSpot)

\* Only x may be a red child of a red node or a red root.
RedOnly(t, N, x) ==
  /\ t.color[Nil] = "black"
  /\ \A n \in N, r \in Side :
       t.color[n] = "red" /\ t.color[t.child[r][n]] = "red" => t.child[r][n] = x
  /\ t.color[t.root] = "red" => t.root = x

\* A tree as a caller sees it.
NoRed(t, N) ==
  /\ t.color[Nil] = "black" /\ t.color[t.root] = "black"
  /\ \A n \in N, r \in Side : ~(t.color[n] = "red" /\ t.color[t.child[r][n]] = "red")

\* A tree from which erase_node has cut a node of the colour lost, and x is where it was.
Cut(t, M, x, lost) ==
  /\ \E B : Shape(t, M, B)
  /\ Loose(t, M) /\ Gap(t, M, x, lost)
  /\ IF lost = "black" THEN RedOnly(t, M, x) ELSE NoRed(t, M)

\* Nothing is left of the fields of a key that is not in the tree.
Bare(t, N) == \A n \in Keys \ N : t.parent[n] = Nil /\ \A r \in Side : t.child[r][n] = Nil

\* erase_node's splice of a node with at most one child leaves the others a search tree, with what
\* the colour of the node has cost.
LEMMA SpliceCuts ==
  ASSUME NEW t, NEW N, NEW B, Shape(t, N, B), Bare(t, N), NEW y \in N, NEW s \in Side,
         t.child[Mirror(s)][y] = Nil, NEW x, x = t.child[s][y],
         NEW u, PlaceTaken(t, y, x, u), NEW H, Even(t, N, H, NoSpot), NoRed(t, N)
  PROVE  Cut(u, N \ {y}, x, t.color[y]) /\ Bare(u, N)
<1>0. PICK M : M = N \ {y}
  OBVIOUS
<1>1. ChildFacts(t, N, B, y, s) /\ NodeFacts(t, N, B, y)
  BY ChildHas, NodeHas
<1>2. x \in M \union {Nil} /\ x \in Cells /\ N \subseteq Keys
  BY <1>0, <1>1 DEF ChildFacts, Shape, Links
<1>3. /\ u.color = t.color
      /\ u.root = IF t.root = y THEN x ELSE t.root
      /\ \A n \in Cells, r \in Side :
           n \in N \union {Nil} => u.child[r][n] = IF t.child[r][n] = y THEN x ELSE t.child[r][n]
      /\ \A n \in Cells \ (N \union {Nil}), r \in Side : u.child[r][n] = t.child[r][n]
      /\ \A m \in Cells : u.parent[m] = IF m = x THEN t.parent[y] ELSE t.parent[m]
  BY <1>2, PlaceLinks
<1>4. \A n \in N \union {Nil} : n \in Cells
  BY <1>2, CellsAreKeys
<1>5. \A n \in N, r \in Side : t.child[r][n] \in N \union {Nil} /\ t.child[r][n] # n
  BY ChildHas DEF ChildFacts
<1>6. \E D : Shape(u, M, D)
  BY <1>0, SpliceKeepsShape
<1>7. Bare(u, N)
  <2>1. ASSUME NEW n \in Keys \ N
        PROVE  u.parent[n] = Nil /\ \A r \in Side : u.child[r][n] = Nil
    <3>1. n \in Cells \ (N \union {Nil}) /\ n # x
      BY <1>0, <1>2, CellsAreKeys
    <3> QED BY <3>1, <1>3 DEF Bare
  <2> QED BY <2>1 DEF Bare
<1>8. Loose(u, M)
  <2>1. ASSUME NEW n \in Keys \ M, NEW r \in Side
        PROVE  u.child[r][n] \in M \union {Nil}
    <3>1. CASE n = y
      <4>1. t.child[r][y] \in N \union {Nil} /\ t.child[r][y] # y
        BY <1>5
      <4> QED BY <3>1, <4>1, <1>0, <1>3, <1>4
    <3>2. CASE n # y
      BY <3>2, <1>0, <1>7 DEF Bare
    <3> QED BY <3>1, <3>2
  <2> QED BY <2>1 DEF Loose
<1>9. PICK D : Even(u, M, D, SpliceSpot(t, y))
  BY <1>0, SpliceKeepsEven
<1>10. Gap(u, M, x, t.color[y])
  <2>1. CASE t.root = y
    BY <2>1, <1>2, <1>3, <1>9 DEF Gap, SpliceSpot
  <2>2. CASE t.root # y
    <3>1. PICK p, q : p = t.parent[y] /\ q = SideOf(t, y)
      OBVIOUS
    <3>2. p \in N /\ q \in Side /\ t.child[q][p] = y /\ p # y
      BY <2>2, <3>1, <1>1, <1>5 DEF NodeFacts
    <3>3. p \in M /\ u.parent[x] = p /\ u.child[q][p] = x
      BY <3>1, <3>2, <1>0, <1>2, <1>3, <1>4
    <3>4. Even(u, M, D, IF t.color[y] = "black" THEN <<p, q>> ELSE NoSpot)
      BY <2>2, <3>1, <1>9 DEF SpliceSpot
    <3> QED BY <3>2, <3>3, <3>4, <1>2 DEF Gap
  <2> QED BY <2>1, <2>2
<1>11. t.color[y] # "black" => t.color[x] # "red" /\ t.root # y
  BY <1>1, TreeFields DEF NoRed, NodeFacts, Shape, Links
<1>12. ASSUME NEW n \in M, NEW r \in Side, u.color[n] = "red", u.color[u.child[r][n]] = "red"
       PROVE  u.child[r][n] = x /\ t.color[x] = "red"
  <2>1. u.child[r][n] = IF t.child[r][n] = y THEN x ELSE t.child[r][n]
    BY <1>0, <1>3, <1>4
  <2>2. ~(t.color[n] = "red" /\ t.color[t.child[r][n]] = "red")
    BY <1>0 DEF NoRed
  <2> QED BY <2>1, <2>2, <1>3, <1>12
<1>13. RedOnly(u, M, x)
  BY <1>3, <1>12 DEF RedOnly, NoRed
<1>14. t.color[y] # "black" => NoRed(u, M)
  <2>1. SUFFICES ASSUME t.color[y] # "black" PROVE NoRed(u, M)
    OBVIOUS
  <2>2. u.color[Nil] = "black" /\ u.color[u.root] = "black"
    BY <2>1, <1>3, <1>11 DEF NoRed
  <2> QED BY <2>1, <2>2, <1>11, <1>12 DEF NoRed
<1> QED BY <1>0, <1>6, <1>7, <1>8, <1>10, <1>13, <1>14 DEF Cut

\* f is t without y, but y has got the child z has on the right then: the first part
\* of an erasure of z, which has two children, if y is the node after z.
Freed(t, N, z, y, x, c, f) ==
  /\ f \in Trees /\ f.color = t.color /\ f.root = t.root
  /\ f.child["right"][y] = c.child["right"][z]
  /\ \A n \in (N \ {y, z}) \union {Nil}, r \in Side : f.child[r][n] = c.child[r][n]
  /\ \A r \in Side : f.child[r][z] \in N \ {z}
  /\ f.parent[z] = t.parent[z]
  /\ \A m \in (N \ {y, z}) \union {x} :
       f.parent[m] = IF m = c.child["right"][z] THEN y ELSE c.parent[m]
  /\ \A n \in Keys \ N : f.parent[n] = t.parent[n] /\ \A r \in Side : f.child[r][n] = t.child[r][n]

\* erase_node frees the successor y from its place, as a child of z or as a deeper node.
LEMMA FreedIs ==
  ASSUME NEW t, NEW N, NEW B, Shape(t, N, B), NEW z \in N,
         NEW v, NEW w, v = t.child["left"][z], w = t.child["right"][z], v # Nil, w # Nil,
         NEW y \in B[w], NEW x, x = t.child["right"][y], t.child["left"][y] = Nil,
         NEW c, PlaceTaken(t, y, x, c)
  PROVE  /\ t.parent[y] = z => Freed(t, N, z, y, x, c, Parent(t, x, y))
         /\ t.parent[y] # z => Freed(t, N, z, y, x, c, Attach(c, y, "right", w))
<1>1. /\ ChildFacts(t, N, B, z, "right") /\ ChildFacts(t, N, B, z, "left")
      /\ NodeFacts(t, N, B, z)
  BY Zenon, CellsAreKeys, ChildHas, NodeHas
<1>2. /\ y \in N /\ y # z /\ v \in N /\ w \in N /\ v # z /\ w # z /\ v # y /\ v # w
      /\ t.parent[v] = z /\ t.parent[w] = z
  <2>1. v \in B[v]
    BY <1>1 DEF ChildFacts
  <2> QED BY Zenon, <2>1, <1>1, CellsAreKeys DEF ChildFacts
<1>3. /\ x \in N \union {Nil} /\ x # y /\ x # z /\ x # w /\ (x # Nil => t.parent[x] = y)
  <2>1. ChildFacts(t, N, B, y, "right")
    BY <1>2, CellsAreKeys, ChildHas
  <2>2. x # z
    <3>1. x # Nil => x \in B[x] /\ B[x] \subseteq B[y]
      BY Zenon, <2>1 DEF ChildFacts
    <3>2. B[y] \subseteq B[w] /\ z \notin B[w]
      BY <1>1, <1>2, BelowIsTransitive DEF ChildFacts
    <3> QED BY <3>1, <3>2, <1>1 DEF NodeFacts
  <2>3. x = w => w \in B[y] /\ y \notin B[w]
    BY <2>1, <1>2 DEF ChildFacts
  <2> QED BY <2>1, <2>2, <2>3 DEF ChildFacts
<1>4. N \subseteq Keys /\ t \in Trees /\ y \in Cells /\ x \in Cells /\ z \in Cells /\ w \in Cells
      /\ \A n \in N \union {Nil} : n \in Cells
  BY <1>2, <1>3, CellsAreKeys DEF Shape, Links
<1>5. /\ c \in Trees /\ c.color = t.color
      /\ c.root = IF t.root = y THEN x ELSE t.root
      /\ \A n \in Cells, r \in Side :
           n \in N \union {Nil} => c.child[r][n] = IF t.child[r][n] = y THEN x ELSE t.child[r][n]
      /\ \A n \in Cells \ (N \union {Nil}), r \in Side : c.child[r][n] = t.child[r][n]
      /\ \A m \in Cells : c.parent[m] = IF m = x THEN t.parent[y] ELSE t.parent[m]
  BY <1>2, <1>4, PlaceLinks
<1>6. t.root # y /\ t.parent[y] \in N
  <2>1. y # t.root
    <3>1. t.root = y => B[y] = N
      BY DEF Shape, Below
    <3>2. B[y] \subseteq B[w] /\ z \notin B[w]
      BY <1>1, <1>2, BelowIsTransitive DEF ChildFacts
    <3> QED BY <3>1, <3>2
  <2> QED BY <2>1, <1>2, NodeHas DEF NodeFacts
<1>7. \A n \in N, r \in Side : t.child[r][n] = y <=> r = SideOf(t, y) /\ n = t.parent[y]
  <2>1. t.parent[y] # Nil
    BY <1>4, <1>6, CellsAreKeys
  <2> QED BY <2>1, <1>2, LinkTo
<1>8. t.parent[y] = z => w = y
  <2>1. SideOf(t, y) \in Side /\ t.child[SideOf(t, y)][t.parent[y]] = y
    BY <1>2, <1>6, NodeHas DEF NodeFacts
  <2>2. SideOf(t, y) = "left" \/ SideOf(t, y) = "right"
    BY <2>1 DEF Side
  <2> QED BY <2>1, <2>2, <1>2
<1>9. \A n \in Keys \ N : n \in Cells \ (N \union {Nil}) /\ n # x
  BY <1>3, <1>4, CellsAreKeys
<1>10. ASSUME t.parent[y] = z, NEW f, f = Parent(t, x, y)
       PROVE  Freed(t, N, z, y, x, c, f)
  <2>1. ParentSet(t, x, y, f)
    BY <1>4, <1>10, SetParent
  <2>2. /\ f \in Trees /\ f.color = t.color /\ f.root = t.root /\ f.child = t.child
        /\ \A m \in Cells : f.parent[m] = IF m = x THEN y ELSE t.parent[m]
    BY <2>1 DEF ParentSet
  <2>3. c.child["right"][z] = x /\ w = y
    BY <1>4, <1>5, <1>8, <1>10, CellsAreKeys
  <2>4. \A n \in (N \ {y, z}) \union {Nil}, r \in Side : f.child[r][n] = c.child[r][n]
    <3>1. ASSUME NEW n \in (N \ {y, z}) \union {Nil}, NEW r \in Side
          PROVE  t.child[r][n] # y
      <4>1. n = Nil => t.child[r][n] = Nil
        BY DEF Shape, Links
      <4>2. y # Nil
        BY <1>2, <1>4, CellsAreKeys
      <4> QED BY <4>1, <4>2, <1>7, <1>10
    <3> QED BY <3>1, <2>2, <1>4, <1>5
  <2>5. \A r \in Side : f.child[r][z] \in N \ {z}
    <3>1. \A r \in Side : r = "left" \/ r = "right"
      BY DEF Side
    <3> QED BY <3>1, <2>2, <1>2
  <2>6. \A m \in (N \ {y, z}) \union {x} :
          f.parent[m] = IF m = c.child["right"][z] THEN y ELSE c.parent[m]
    BY <2>2, <2>3, <1>4, <1>5
  <2>7. \A n \in Keys \ N :
          f.parent[n] = t.parent[n] /\ \A r \in Side : f.child[r][n] = t.child[r][n]
    BY <2>2, <1>9
  <2>8. f.child["right"][y] = c.child["right"][z] /\ f.parent[z] = t.parent[z]
    BY <2>2, <2>3, <1>3, <1>4
  <2> QED BY <2>2, <2>4, <2>5, <2>6, <2>7, <2>8 DEF Freed
<1>11. ASSUME t.parent[y] # z, NEW f, f = Attach(c, y, "right", w)
       PROVE  Freed(t, N, z, y, x, c, f)
  <2>1. PICK e : e = Child(c, y, "right", w)
    OBVIOUS
  <2>2. ChildSet(c, "right", y, w, e)
    BY <2>1, <1>4, <1>5, CellsAreKeys, SetChild
  <2>3. ParentSet(e, w, y, f)
    BY <2>1, <2>2, <1>4, <1>11, SetParent DEF ChildSet, Attach
  <2>4. /\ f \in Trees /\ f.color = t.color /\ f.root = t.root
        /\ \A r \in Side, m \in Cells :
             f.child[r][m] = IF r = "right" /\ m = y THEN w ELSE c.child[r][m]
        /\ \A m \in Cells : f.parent[m] = IF m = w THEN y ELSE c.parent[m]
    BY <2>2, <2>3, <1>5, <1>6 DEF ChildSet, ParentSet
  <2>5. c.child["right"][z] = w /\ c.child["left"][z] = v /\ c.parent[z] = t.parent[z] /\ w # y
    <3>1. t.child["right"][z] # y
      BY <1>7, <1>11, CellsAreKeys
    <3> QED BY <3>1, <1>2, <1>3, <1>4, <1>5, CellsAreKeys
  <2>6. \A n \in (N \ {y, z}) \union {Nil}, r \in Side : f.child[r][n] = c.child[r][n]
    <3>1. y # Nil
      BY <1>2, <1>4, CellsAreKeys
    <3> QED BY <3>1, <2>4, <1>4
  <2>7. \A r \in Side : f.child[r][z] \in N \ {z}
    <3>1. \A r \in Side : r = "left" \/ r = "right"
      BY DEF Side
    <3>2. \A r \in Side : f.child[r][z] = c.child[r][z]
      BY <2>4, <1>2, <1>4
    <3> QED BY <3>1, <3>2, <2>5, <1>2
  <2>8. \A m \in (N \ {y, z}) \union {x} :
          f.parent[m] = IF m = c.child["right"][z] THEN y ELSE c.parent[m]
    BY <2>4, <2>5, <1>4
  <2>9. \A n \in Keys \ N :
          f.parent[n] = t.parent[n] /\ \A r \in Side : f.child[r][n] = t.child[r][n]
    BY <2>4, <1>2, <1>5, <1>9
  <2>10. f.child["right"][y] = w /\ f.parent[z] = t.parent[z]
    BY <2>4, <2>5, <1>2, <1>4, CellsAreKeys
  <2> QED BY <2>4, <2>5, <2>6, <2>7, <2>8, <2>9, <2>10 DEF Freed
<1> QED BY <1>10, <1>11

\* Once y has z's place, its left child and its colour, only names have changed.
LEMMA MovedIs ==
  ASSUME NEW t, NEW N, NEW B, Shape(t, N, B), NEW z \in N,
         NEW v, NEW w, v = t.child["left"][z], w = t.child["right"][z], v # Nil, w # Nil,
         NEW y \in B[w], NEW x, x = t.child["right"][y], t.child["left"][y] = Nil,
         NEW c, PlaceTaken(t, y, x, c), NEW f, Freed(t, N, z, y, x, c, f),
         NEW u, u = Paint(Attach(Transplant(f, z, y), y, "left", v), y, t.color[z])
  PROVE  /\ Renamed(c, N \ {y}, z, y, u)
         /\ \A n \in Cells : u.color[n] = IF n = y THEN t.color[z] ELSE t.color[n]
         /\ u.parent[x] = IF c.parent[x] = z THEN y ELSE c.parent[x]
         /\ \A r \in Side : u.child[r][z] \in N \ {z}
         /\ \A n \in Keys \ N : u.parent[n] = t.parent[n]
                                /\ \A r \in Side : u.child[r][n] = t.child[r][n]
         /\ y \in N /\ y # z /\ x \in (N \ {y, z}) \union {Nil} /\ t.root # y
<1>1. /\ ChildFacts(t, N, B, z, "right") /\ ChildFacts(t, N, B, z, "left")
      /\ NodeFacts(t, N, B, z)
  BY Zenon, CellsAreKeys, ChildHas, NodeHas
<1>2. /\ y \in N /\ y # z /\ v \in N /\ w \in N /\ v # z /\ w # z /\ v # y /\ v # w
      /\ t.parent[v] = z /\ t.parent[w] = z /\ v \notin B[w]
  <2>1. v \in B[v]
    BY Zenon, <1>1 DEF ChildFacts
  <2> QED BY Zenon, <2>1, <1>1, CellsAreKeys DEF ChildFacts
<1>3. x \in N \union {Nil} /\ x # y /\ x # z /\ x # w /\ x # v
  <2>1. ChildFacts(t, N, B, y, "right")
    BY Zenon, <1>2, CellsAreKeys, ChildHas
  <2>2. B[y] \subseteq B[w] /\ z \notin B[w] /\ (x # Nil => x \in B[y])
    BY <1>1, <1>2, <2>1, BelowIsTransitive DEF ChildFacts
  <2>3. x = w => w \in B[y] /\ y \notin B[w]
    BY <2>1, <1>2 DEF ChildFacts
  <2>4. x # y /\ x \in N \union {Nil}
    BY <2>1 DEF ChildFacts
  <2>5. z \notin B[y] /\ v \notin B[y]
    BY <2>2, <1>1, <1>2 DEF ChildFacts
  <2>6. z # Nil /\ v # Nil /\ w # Nil
    BY <1>1, <1>2, CellsAreKeys DEF Shape, Links
  <2> QED BY <2>2, <2>3, <2>4, <2>5, <2>6, <1>2
<1>4. /\ N \subseteq Keys /\ t \in Trees /\ y \in Cells /\ x \in Cells /\ z \in Cells /\ w \in Cells
      /\ v \in Cells /\ y # Nil /\ z # Nil /\ \A n \in N \union {Nil} : n \in Cells
  BY <1>2, <1>3, CellsAreKeys DEF Shape, Links
<1>5. /\ c \in Trees /\ c.color = t.color
      /\ c.root = IF t.root = y THEN x ELSE t.root
      /\ \A n \in Cells, r \in Side :
           n \in N \union {Nil} => c.child[r][n] = IF t.child[r][n] = y THEN x ELSE t.child[r][n]
      /\ \A m \in Cells : c.parent[m] = IF m = x THEN t.parent[y] ELSE t.parent[m]
  BY <1>2, <1>4, PlaceLinks
<1>6. t.root # y
  <2>1. t.root = y => B[y] = N
    BY Zenon DEF Shape, Below
  <2>2. B[y] \subseteq B[w] /\ z \notin B[w]
    BY <1>1, <1>2, BelowIsTransitive DEF ChildFacts
  <2> QED BY <2>1, <2>2
<1>7. PICK C : Shape(c, N \ {y}, C)
  <2>1. Mirror("right") = "left"
    BY CellsAreKeys
  <2> QED BY <2>1, <1>2, CellsAreKeys, SpliceKeepsShape
<1>8. /\ c.child["left"][z] = v /\ c.child["right"][z] = (IF w = y THEN x ELSE w)
      /\ c.parent[z] = t.parent[z]
  BY <1>2, <1>3, <1>4, <1>5, CellsAreKeys
<1>9. PICK p, q : p = t.parent[z] /\ q = SideOf(t, z)
  OBVIOUS
<1>10. \A n \in N \union {Nil}, r \in Side : t.child[r][n] = z <=> p # Nil /\ r = q /\ n = p
  BY <1>9, LinkTo
<1>11. /\ p = Nil <=> t.root = z
       /\ p # Nil => p \in N /\ q \in Side /\ t.child[q][p] = z
  BY <1>1, <1>9 DEF NodeFacts
<1>12. p # Nil => p # z /\ p # y
  <2>1. p # Nil => ChildFacts(t, N, B, p, q)
    BY Zenon, <1>11, ChildHas
  <2>2. B[y] \subseteq B[w] /\ z \notin B[w]
    BY <1>1, <1>2, BelowIsTransitive DEF ChildFacts
  <2>3. p = y => z \in B[p]
    BY <2>1, <1>4, <1>11, <1>1 DEF ChildFacts, NodeFacts
  <2> QED BY <2>1, <2>2, <2>3, <1>11 DEF ChildFacts
<1>13. \A n \in (N \ {y}) \union {Nil}, r \in Side : c.child[r][n] = z <=> p # Nil /\ r = q /\ n = p
  BY <1>2, <1>3, <1>4, <1>5, <1>10
<1>14. /\ f \in Trees /\ f.color = t.color /\ f.root = t.root
       /\ f.child["right"][y] = c.child["right"][z]
       /\ \A n \in (N \ {y, z}) \union {Nil}, r \in Side : f.child[r][n] = c.child[r][n]
       /\ \A r \in Side : f.child[r][z] \in N \ {z}
       /\ f.parent[z] = p
       /\ \A m \in (N \ {y, z}) \union {x} :
            f.parent[m] = IF m = c.child["right"][z] THEN y ELSE c.parent[m]
       /\ \A n \in Keys \ N : f.parent[n] = t.parent[n]
                              /\ \A r \in Side : f.child[r][n] = t.child[r][n]
  BY <1>9 DEF Freed
<1>15. p # Nil => SideOf(f, z) = q
  <2>1. SUFFICES ASSUME p # Nil PROVE SideOf(f, z) = q
    OBVIOUS
  <2>2. \A r \in Side : f.child[r][p] = z <=> r = q
    BY <2>1, <1>11, <1>12, <1>13, <1>14
  <2>3. q = "left" \/ q = "right"
    BY <2>1, <1>11 DEF Side
  <2> QED BY <2>2, <2>3, <1>14, CellsAreKeys DEF SideOf
<1>16. PICK g : g = Transplant(f, z, y)
  OBVIOUS
<1>17. /\ g \in Trees /\ g.color = t.color
       /\ g.root = IF p = Nil THEN y ELSE t.root
       /\ \A r \in Side, m \in Cells :
            g.child[r][m] = IF p # Nil /\ r = q /\ m = p THEN y ELSE f.child[r][m]
       /\ \A m \in Cells : g.parent[m] = IF m = y THEN p ELSE f.parent[m]
  <2>1. PlaceTaken(f, z, y, g)
    BY <1>4, <1>14, <1>16, TakePlace
  <2> QED BY <2>1, <1>14, <1>15 DEF PlaceTaken
<1>18. PICK e, h : e = Child(g, y, "left", v) /\ h = Parent(e, v, y)
  OBVIOUS
<1>19. ChildSet(g, "left", y, v, e)
  BY <1>4, <1>17, <1>18, CellsAreKeys, SetChild
<1>20. ParentSet(e, v, y, h)
  BY <1>4, <1>18, <1>19, SetParent DEF ChildSet
<1>21. ColorSet(h, y, t.color[z], u)
  <2>1. u = Paint(h, y, t.color[z])
    BY <1>16, <1>18 DEF Attach
  <2>2. t.color[z] \in {"red", "black"} /\ h \in Trees
    BY Zenon, <1>4, <1>20, TreeFields DEF ParentSet
  <2> QED BY <2>1, <2>2, <1>4, SetColor
<1>22. /\ u \in Trees
       /\ u.root = IF p = Nil THEN y ELSE t.root
       /\ \A r \in Side, m \in Cells :
            u.child[r][m] = IF r = "left" /\ m = y THEN v
                            ELSE IF p # Nil /\ r = q /\ m = p THEN y ELSE f.child[r][m]
       /\ \A m \in Cells : u.parent[m] = IF m = v THEN y ELSE IF m = y THEN p ELSE f.parent[m]
       /\ \A n \in Cells : u.color[n] = IF n = y THEN t.color[z] ELSE t.color[n]
  BY <1>17, <1>19, <1>20, <1>21 DEF ChildSet, ParentSet, ColorSet
<1>23. u.root = IF c.root = z THEN y ELSE c.root
  BY <1>5, <1>6, <1>11, <1>22
<1>24. \A n \in (N \ {y, z}) \union {Nil}, r \in Side :
         u.child[r][n] = IF c.child[r][n] = z THEN y ELSE c.child[r][n]
  <2>1. ASSUME NEW n \in (N \ {y, z}) \union {Nil}, NEW r \in Side
        PROVE  u.child[r][n] = IF c.child[r][n] = z THEN y ELSE c.child[r][n]
    <3>1. u.child[r][n] = IF p # Nil /\ r = q /\ n = p THEN y ELSE f.child[r][n]
      BY <1>4, <1>22
    <3> QED BY Zenon, <3>1, <1>13, <1>14
  <2> QED BY <2>1
<1>25. \A r \in Side : u.child[r][y] = c.child[r][z]
  <2>1. u.child["left"][y] = v /\ u.child["right"][y] = f.child["right"][y]
    BY <1>4, <1>12, <1>22, CellsAreKeys
  <2>2. \A r \in Side : r = "left" \/ r = "right"
    BY DEF Side
  <2> QED BY Zenon, <2>1, <2>2, <1>8, <1>14
<1>26. \A m \in N \ {y, z} : c.parent[m] = z => m = v \/ m = c.child["right"][z]
  <2>1. ASSUME NEW m \in N \ {y, z}, c.parent[m] = z
        PROVE  m = v \/ m = c.child["right"][z]
    <3>1. NodeFacts(c, N \ {y}, C, m)
      BY <1>7, NodeHas
    <3>2. SideOf(c, m) \in Side /\ c.child[SideOf(c, m)][z] = m
      BY <2>1, <3>1, <1>4 DEF NodeFacts
    <3>3. SideOf(c, m) = "left" \/ SideOf(c, m) = "right"
      BY <3>2 DEF Side
    <3> QED BY <3>2, <3>3, <1>8
  <2> QED BY <2>1
<1>27. c.child["right"][z] # Nil => c.parent[c.child["right"][z]] = z
  <2>1. z \in N \ {y}
    BY <1>2
  <2> QED BY <2>1, <1>7, CellsAreKeys DEF Shape, Links
<1>28. c.parent[v] = z
  BY <1>2, <1>3, <1>4, <1>5
<1>29. ASSUME NEW m \in N \ {y, z}
       PROVE  u.parent[m] = IF c.parent[m] = z THEN y ELSE c.parent[m]
  <2>1. u.parent[m] = IF m = v \/ m = c.child["right"][z] THEN y ELSE c.parent[m]
    BY <1>4, <1>14, <1>22
  <2>2. m # Nil
    BY <1>4, CellsAreKeys
  <2> QED BY Zenon, <2>1, <2>2, <1>26, <1>27, <1>28
<1>30. u.parent[x] = IF c.parent[x] = z THEN y ELSE c.parent[x]
  <2>1. u.parent[x] = IF x = c.child["right"][z] THEN y ELSE c.parent[x]
    BY <1>3, <1>4, <1>14, <1>22
  <2>2. c.parent[x] = t.parent[y]
    BY <1>4, <1>5
  <2>3. t.parent[y] = z <=> w = y
    <3>1. SideOf(t, y) \in Side /\ t.child[SideOf(t, y)][t.parent[y]] = y
      BY <1>2, <1>6, NodeHas DEF NodeFacts
    <3>2. SideOf(t, y) = "left" \/ SideOf(t, y) = "right"
      BY Zenon, <3>1 DEF Side
    <3> QED BY <3>1, <3>2, <1>2
  <2> QED BY Zenon, <2>1, <2>2, <2>3, <1>3, <1>8
<1>31. \A r \in Side : u.child[r][z] \in N \ {z}
  <2>1. \A r \in Side : u.child[r][z] = f.child[r][z]
    BY Zenon, <1>2, <1>4, <1>12, <1>22
  <2> QED BY Zenon, <2>1, <1>14
<1>32. ASSUME NEW n \in Keys \ N
       PROVE  u.parent[n] = t.parent[n] /\ \A r \in Side : u.child[r][n] = t.child[r][n]
  <2>1. n \in Cells /\ n # y /\ n # v /\ (p # Nil => n # p)
    BY Zenon, <1>2, <1>11, CellsAreKeys
  <2> QED BY <2>1, <1>14, <1>22
<1>33. u.parent[y] = c.parent[z]
  BY <1>2, <1>4, <1>8, <1>9, <1>22
<1>34. Renamed(c, N \ {y}, z, y, u)
  <2>1. \A n \in ((N \ {y}) \ {z}) \union {Nil} : n \in (N \ {y, z}) \union {Nil}
    OBVIOUS
  <2>2. \A n \in (N \ {y}) \ {z} : n \in N \ {y, z}
    OBVIOUS
  <2> QED BY Zenon, <2>1, <2>2, <1>22, <1>23, <1>24, <1>25, <1>29, <1>33 DEF Renamed
<1> QED BY Zenon, <1>2, <1>3, <1>6, <1>22, <1>30, <1>31, <1>32, <1>34

\* The whole of erase_node before erase_fixup.
LEMMA UnlinkCuts ==
  ASSUME NEW t, NEW N, NEW B, Shape(t, N, B), Bare(t, N), NoRed(t, N),
         NEW H, Even(t, N, H, NoSpot), NEW z \in N, NEW k, k = Unlinked(t, z)
  PROVE  Cut(k.tree, N \ {z}, k.x, k.color) /\ Bare(k.tree, N) /\ k.color \in {"red", "black"}
<1>1. /\ t \in Trees /\ z \in Cells /\ N \subseteq Keys /\ t.child["left"][z] \in N \union {Nil}
      /\ t.child["right"][z] \in N \union {Nil} /\ \A n \in N \union {Nil} : n \in Cells
  BY CellsAreKeys DEF Shape, Links
<1>2. Loose(t, N)
  BY DEF Loose, Bare
<1>3. ASSUME NEW s \in Side, t.child[Mirror(s)][z] = Nil,
             k.tree = Transplant(t, z, t.child[s][z]), k.x = t.child[s][z], k.color = t.color[z]
      PROVE  Cut(k.tree, N \ {z}, k.x, k.color) /\ Bare(k.tree, N) /\ k.color \in {"red", "black"}
  <2>1. k.x \in Cells
    BY <1>1, <1>3, TreeFields
  <2>2. PlaceTaken(t, z, k.x, k.tree)
    BY <2>1, <1>1, <1>3, TakePlace
  <2>3. Cut(k.tree, N \ {z}, k.x, k.color) /\ Bare(k.tree, N)
    BY <2>2, <1>3, SpliceCuts
  <2> QED BY <2>3, <1>1, <1>3, TreeFields
<1>4. CASE t.child["left"][z] = Nil
  <2>1. /\ k.tree = Transplant(t, z, t.child["right"][z]) /\ k.x = t.child["right"][z]
        /\ k.color = t.color[z]
    BY <1>4 DEF Unlinked
  <2> QED BY <2>1, <1>3, <1>4, CellsAreKeys
<1>5. CASE t.child["left"][z] # Nil /\ t.child["right"][z] = Nil
  <2>1. /\ k.tree = Transplant(t, z, t.child["left"][z]) /\ k.x = t.child["left"][z]
        /\ k.color = t.color[z]
    BY <1>5 DEF Unlinked
  <2> QED BY <2>1, <1>3, <1>5, CellsAreKeys
<1>6. CASE t.child["left"][z] # Nil /\ t.child["right"][z] # Nil
  <2>1. PICK v, w : v = t.child["left"][z] /\ w = t.child["right"][z]
    OBVIOUS
  <2>2. PICK y : y = Outermost(t, "left", w)
    OBVIOUS
  <2>3. PICK x : x = t.child["right"][y]
    OBVIOUS
  <2>4. PICK c : c = Transplant(t, y, x)
    OBVIOUS
  <2>5. PICK f : f = IF t.parent[y] = z THEN Parent(t, x, y) ELSE Attach(c, y, "right", w)
    OBVIOUS
  <2>6. PICK u : u = Paint(Attach(Transplant(f, z, y), y, "left", v), y, t.color[z])
    OBVIOUS
  <2>7. k.tree = u /\ k.x = x /\ k.color = t.color[y]
    BY Zenon, <2>1, <2>2, <2>3, <2>4, <2>5, <2>6, <1>6 DEF Unlinked
  <2>8. w \in N /\ v # Nil /\ w # Nil
    BY <2>1, <1>1, <1>6
  <2>9. /\ y \in B[w] /\ y \in N /\ t.child["left"][y] = Nil
        /\ \A m \in B[w] : m = y \/ Before("left", y, m)
    BY <2>2, <2>8, <1>2, CellsAreKeys, OutermostIs
  <2>10. PlaceTaken(t, y, x, c)
    <3>1. y \in Cells /\ x \in Cells
      BY <2>3, <2>9, <1>1, TreeFields, CellsAreKeys
    <3> QED BY <3>1, <2>4, <1>1, TakePlace
  <2>11. Freed(t, N, z, y, x, c, f)
    <3>1. /\ t.parent[y] = z => Freed(t, N, z, y, x, c, Parent(t, x, y))
          /\ t.parent[y] # z => Freed(t, N, z, y, x, c, Attach(c, y, "right", w))
      BY Zenon, <2>1, <2>3, <2>8, <2>9, <2>10, FreedIs
    <3> QED BY <3>1, <2>5
  <2>12. /\ Renamed(c, N \ {y}, z, y, u)
         /\ \A n \in Cells : u.color[n] = IF n = y THEN t.color[z] ELSE t.color[n]
         /\ u.parent[x] = IF c.parent[x] = z THEN y ELSE c.parent[x]
         /\ \A r \in Side : u.child[r][z] \in N \ {z}
         /\ \A n \in Keys \ N : u.parent[n] = t.parent[n]
                                /\ \A r \in Side : u.child[r][n] = t.child[r][n]
         /\ y \in N /\ y # z /\ x \in (N \ {y, z}) \union {Nil} /\ t.root # y
    BY <2>1, <2>3, <2>6, <2>8, <2>9, <2>10, <2>11, MovedIs
  <2>13. PICK M, C, D : M = N \ {y} /\ C = SplicedBelow(N, B, y)
                        /\ D = [n \in (N \ {y}) \union {Nil} |-> H[n]]
    OBVIOUS
  <2>14. Shape(c, M, C) /\ Even(c, M, D, SpliceSpot(t, y)) /\ Cut(c, M, x, t.color[y])
    BY <2>3, <2>9, <2>10, <2>13, CellsAreKeys, SpliceKeepsShape, SpliceKeepsEven, SpliceCuts
  <2>15. /\ c.color = t.color
         /\ \A n \in N \union {Nil}, r \in Side :
              c.child[r][n] = IF t.child[r][n] = y THEN x ELSE t.child[r][n]
         /\ c.parent[x] = t.parent[y]
    <3>1. x \in Cells
      BY <2>12, <1>1
    <3>2. /\ c.color = t.color
          /\ \A n \in Cells, r \in Side :
              n \in N \union {Nil} =>
                c.child[r][n] = IF t.child[r][n] = y THEN x ELSE t.child[r][n]
          /\ \A m \in Cells : c.parent[m] = IF m = x THEN t.parent[y] ELSE t.parent[m]
      BY <3>1, <2>9, <2>10, PlaceLinks
    <3> QED BY <3>1, <3>2, <1>1
  <2>16. z \in M /\ y \in Keys \ M /\ (M \ {z}) \union {y} = N \ {z}
    BY <2>12, <2>13, <1>1
  <2>17. \A n \in N, r \in Side : C[c.child[r][n]] \subseteq B[t.child[r][n]] \ {y}
    <3>1. ASSUME NEW n \in N, NEW r \in Side
          PROVE  C[c.child[r][n]] \subseteq B[t.child[r][n]] \ {y}
      <4>1. t.child[r][n] \in N \union {Nil}
        BY ChildHas DEF ChildFacts
      <4>2. CASE t.child[r][n] = y
        <5>1. ChildFacts(t, N, B, y, "right")
          BY <2>9, CellsAreKeys, ChildHas
        <5>2. B[x] \subseteq B[y]
          BY <5>1, <2>3 DEF ChildFacts
        <5>3. C[x] = B[x] \ {y}
          BY <2>12, <2>13 DEF SplicedBelow
        <5> QED BY <4>2, <5>2, <5>3, <2>15
      <4>3. CASE t.child[r][n] # y
        <5>1. C[t.child[r][n]] = B[t.child[r][n]] \ {y}
          BY <4>1, <4>3, <2>13 DEF SplicedBelow
        <5> QED BY <4>3, <5>1, <2>15
      <4> QED BY <4>2, <4>3
    <3> QED BY <3>1
  <2>18. \A n \in N : n \in Int
    BY <1>1, CellsAreKeys
  <2>19. /\ ChildFacts(t, N, B, z, "left") /\ ChildFacts(t, N, B, z, "right")
    BY CellsAreKeys, ChildHas
  <2>20. \A r \in Side : \A m \in C[c.child[r][z]] : Before(r, m, y)
    <3>1. ASSUME NEW m \in C[c.child["left"][z]] PROVE Before("left", m, y)
      <4>1. m \in B[v] /\ B[v] \subseteq N /\ Before("left", m, z) /\ Before("right", y, z)
        BY <3>1, <2>1, <2>9, <2>17, <2>19, CellsAreKeys DEF ChildFacts
      <4>2. Before("left", z, y) /\ m \in Int /\ z \in Int /\ y \in Int
        BY <4>1, <2>9, <2>18, BeforeIsOrder, CellsAreKeys
      <4> QED BY <4>1, <4>2, BeforeIsOrder, CellsAreKeys
    <3>2. ASSUME NEW m \in C[c.child["right"][z]] PROVE Before("right", m, y)
      <4>1. m \in B[w] /\ B[w] \subseteq N /\ m # y
        BY <3>2, <2>1, <2>17, <2>19, CellsAreKeys DEF ChildFacts
      <4>2. Before("left", y, m) /\ m \in Int /\ y \in Int
        BY <4>1, <2>9, <2>18
      <4> QED BY <4>2, BeforeIsOrder, CellsAreKeys
    <3> QED BY <3>1, <3>2 DEF Side
  <2>21. \A n \in M, r \in Side : z \in C[c.child[r][n]] => Before(r, y, n)
    <3>1. ASSUME NEW n \in M, NEW r \in Side, z \in C[c.child[r][n]] PROVE Before(r, y, n)
      <4>1. PICK b : b = t.child[r][n]
        OBVIOUS
      <4>2. n \in N /\ z \in B[b] /\ ChildFacts(t, N, B, n, r)
        BY <3>1, <4>1, <2>13, <2>17, ChildHas
      <4>3. b \in N
        BY Zenon, <4>1, <4>2 DEF ChildFacts, Shape, Below
      <4>4. B[z] \subseteq B[b] /\ B[w] \subseteq B[z]
        BY <4>2, <4>3, <2>1, <2>19, BelowIsTransitive DEF ChildFacts
      <4> QED BY <4>1, <4>2, <4>4, <2>9 DEF ChildFacts
    <3> QED BY <3>1
  <2>22. \E E : Shape(u, N \ {z}, E)
    BY <2>12, <2>13, <2>14, <2>16, <2>20, <2>21, RenameKeepsShape
  <2>23. PICK p, q : p = t.parent[y] /\ q = SideOf(t, y)
    OBVIOUS
  <2>24. p \in N /\ q \in Side /\ t.child[q][p] = y /\ p # y
    <3>1. NodeFacts(t, N, B, y)
      BY <2>9, NodeHas
    <3>2. p \in N /\ q \in Side /\ t.child[q][p] = y
      BY <3>1, <2>12, <2>23 DEF NodeFacts
    <3>3. ChildFacts(t, N, B, p, q)
      BY <3>2, ChildHas
    <3> QED BY <3>2, <3>3 DEF ChildFacts
  <2>25. PICK o, seen : /\ o = (IF p = z THEN y ELSE p)
                        /\ seen = (IF t.color[y] = "black" THEN <<o, q>> ELSE NoSpot)
    OBVIOUS
  <2>26. /\ o \in N \ {z} /\ u.parent[x] = o /\ u.child[q][o] = x
    <3>1. u.parent[x] = o
      BY <2>12, <2>15, <2>23, <2>25
    <3>2. c.child[q][p] = x /\ p \in M /\ x # z
      BY <2>12, <2>13, <2>15, <2>24, <1>1, CellsAreKeys
    <3>3. u.child[q][o] = x
      BY <3>2, <2>12, <2>24, <2>25 DEF Renamed
    <3> QED BY <3>1, <3>3, <2>12, <2>24, <2>25
  <2>27. \E E : Even(u, N \ {z}, E, seen)
    <3>1. PICK spot : spot = SpliceSpot(t, y)
      OBVIOUS
    <3>2. spot = IF t.color[y] = "black" THEN <<p, q>> ELSE NoSpot
      BY <3>1, <2>12, <2>23 DEF SpliceSpot
    <3>3. \A n \in M \ {z}, r \in Side : Extra(seen, n, r) = Extra(spot, n, r)
      <4>1. \A n \in M \ {z} : n # y /\ n # z
        BY <2>13
      <4> QED BY <4>1, <3>2, <2>25, ExtraIs
    <3>4. \A r \in Side : Extra(seen, y, r) = Extra(spot, z, r)
      BY <3>2, <2>24, <2>25, ExtraIs
    <3>5. u.color[y] = c.color[z] /\ \A n \in M \ {z} : u.color[n] = c.color[n]
      BY <2>9, <2>12, <2>13, <2>15, <1>1
    <3>6. Even(c, M, D, spot)
      BY <3>1, <2>14
    <3>7. Shape(c, M, C) /\ Renamed(c, M, z, y, u)
      BY <2>12, <2>13, <2>14
    <3>8. Even(u, (M \ {z}) \union {y}, RenamedHeight(M, D, z, y), seen)
      BY <3>3, <3>4, <3>5, <3>6, <3>7, <2>16, RenameKeepsEven
    <3> QED BY <3>8, <2>16
  <2>28. Gap(u, N \ {z}, x, t.color[y])
    <3>1. \E E : Even(u, N \ {z}, E, IF t.color[y] = "black" THEN <<o, q>> ELSE NoSpot)
      BY <2>25, <2>27
    <3> QED BY <3>1, <2>12, <2>24, <2>26 DEF Gap
  <2>29. Bare(u, N)
    BY <2>12 DEF Bare
  <2>30. Loose(u, N \ {z})
    <3>1. ASSUME NEW n \in Keys \ (N \ {z}), NEW r \in Side
          PROVE  u.child[r][n] \in (N \ {z}) \union {Nil}
      <4>1. CASE n = z
        BY <4>1, <2>12
      <4>2. CASE n # z
        BY <4>2, <2>29 DEF Bare
      <4> QED BY <4>1, <4>2
    <3> QED BY <3>1 DEF Loose
  <2>31. ASSUME NEW n \in N \ {z}, NEW r \in Side, u.color[n] = "red", u.color[u.child[r][n]] = "red"
         PROVE  \E m \in M : /\ c.color[m] = "red" /\ c.color[c.child[r][m]] = "red"
                             /\ c.child[r][m] = x => u.child[r][n] = x
    <3>1. PICK m \in M : m = IF n = y THEN z ELSE n
      BY <2>13, <2>16
    <3>2. c.color[m] = "red"
      BY <2>12, <2>15, <3>1, <2>31, <1>1
    <3>3. c.child[r][m] \in M \union {Nil} /\ c.child[r][m] # m
      BY <2>14, ChildHas DEF ChildFacts
    <3>4. u.child[r][n] = IF c.child[r][m] = z THEN y ELSE c.child[r][m]
      <4>1. CASE n = y
        BY <3>1, <3>3, <4>1, <2>12 DEF Renamed
      <4>2. CASE n # y
        BY <3>1, <4>2, <2>12, <2>13 DEF Renamed
      <4> QED BY <4>1, <4>2
    <3>5. c.child[r][m] \in Cells /\ c.child[r][m] # y
      BY <3>3, <2>13, <1>1, <2>9, CellsAreKeys
    <3>6. c.color[c.child[r][m]] = u.color[u.child[r][n]]
      BY <3>4, <3>5, <2>12, <2>15, <1>1
    <3>7. x # z
      BY <2>12, <1>1, CellsAreKeys
    <3> QED BY <3>2, <3>4, <3>6, <3>7, <2>31
  <2>32. u.root = (IF c.root = z THEN y ELSE c.root) /\ u.color[Nil] = c.color[Nil]
         /\ u.color[u.root] = c.color[c.root] /\ (c.root = x => u.root = x)
    <3>1. u.root = IF c.root = z THEN y ELSE c.root
      BY <2>12 DEF Renamed
    <3>2. c.root \in M \union {Nil}
      BY <2>14 DEF Shape, Links
    <3>3. x # z /\ Nil # y
      BY <2>12, <1>1, CellsAreKeys
    <3> QED BY <3>1, <3>2, <3>3, <2>9, <2>12, <2>13, <2>15, <1>1, CellsAreKeys
  <2>33. t.color[y] = "black" => RedOnly(u, N \ {z}, x)
    <3>1. SUFFICES ASSUME t.color[y] = "black" PROVE RedOnly(u, N \ {z}, x)
      OBVIOUS
    <3>2. RedOnly(c, M, x)
      BY <3>1, <2>14 DEF Cut
    <3> QED BY <3>2, <2>31, <2>32 DEF RedOnly
  <2>34. t.color[y] # "black" => NoRed(u, N \ {z})
    <3>1. SUFFICES ASSUME t.color[y] # "black" PROVE NoRed(u, N \ {z})
      OBVIOUS
    <3>2. NoRed(c, M)
      BY <3>1, <2>14 DEF Cut
    <3> QED BY <3>2, <2>31, <2>32 DEF NoRed
  <2>35. t.color[y] \in {"red", "black"}
    BY <2>9, <1>1, TreeFields
  <2> QED BY <2>7, <2>22, <2>28, <2>29, <2>30, <2>33, <2>34, <2>35 DEF Cut
<1> QED BY <1>4, <1>5, <1>6

-----------------------------------------------------------------------------
\* Inserting: the tree with a new leaf.

\* The side insert_unique goes to at a node is the side of the key.
LEMMA KeySide ==
  ASSUME NEW k \in Keys
  PROVE  /\ \A n : SideOfKey(k, n) \in Side
         /\ \A n \in Keys \ {k} : Before(SideOfKey(k, n), k, n)
BY CellsAreKeys DEF SideOfKey, Before, Side

\* insert_unique's search for a parent is a walk down the links, one side at each node.
LEMMA InsertWalk ==
  ASSUME NEW t, NEW N, NEW B, Shape(t, N, B), Loose(t, N), NEW k \in Keys
  PROVE  \E f : /\ \A n \in Cells : f[n] = IF t.child[SideOfKey(k, n)][n] = Nil THEN n
                                           ELSE f[t.child[SideOfKey(k, n)][n]]
                /\ InsertParent(t, k) = IF t.root = Nil THEN Nil ELSE f[t.root]
<1> DEFINE f == CHOOSE f : f = [n \in Cells |-> IF t.child[SideOfKey(k, n)][n] = Nil THEN n
                                                 ELSE f[t.child[SideOfKey(k, n)][n]]]
<1>1. PICK halt, dir : /\ halt = [n \in Keys |-> t.child[SideOfKey(k, n)][n] = Nil]
                       /\ dir = [n \in Keys |-> SideOfKey(k, n)]
  OBVIOUS
<1>2. halt \in [Keys -> BOOLEAN] /\ dir \in [Keys -> Side]
  BY <1>1, KeySide
<1>3. PICK g \in [Cells -> Cells] :
           /\ g[Nil] = Nil
           /\ \A n \in Keys : g[n] = IF halt[n] THEN n ELSE g[t.child[dir[n]][n]]
  BY <1>2, PathExists
<1>4. t.child[SideOfKey(k, Nil)][Nil] = Nil
  BY KeySide DEF Shape, Links
<1>5. ASSUME NEW n \in Cells
      PROVE  g[n] = IF t.child[SideOfKey(k, n)][n] = Nil THEN n
                    ELSE g[t.child[SideOfKey(k, n)][n]]
  BY Zenon, <1>1, <1>3, <1>4, CellsAreKeys
<1>6. g = [n \in Cells |-> IF t.child[SideOfKey(k, n)][n] = Nil THEN n
                           ELSE g[t.child[SideOfKey(k, n)][n]]]
  BY <1>3, <1>5
<1>7. f = [n \in Cells |-> IF t.child[SideOfKey(k, n)][n] = Nil THEN n
                           ELSE f[t.child[SideOfKey(k, n)][n]]]
  BY Zenon, <1>6
<1>8. InsertParent(t, k) = IF t.root = Nil THEN Nil ELSE f[t.root]
  BY DEF InsertParent
<1> HIDE DEF f
<1> QED BY <1>7, <1>8

\* The new key is on the right side of every node above its parent.
LEMMA InsertParentIs ==
  ASSUME NEW t, NEW N, NEW B, Shape(t, N, B), Loose(t, N), NEW k \in Keys \ N,
         NEW p, p = InsertParent(t, k)
  PROVE  /\ t.root = Nil => p = Nil
         /\ t.root # Nil => /\ p \in N /\ t.child[SideOfKey(k, p)][p] = Nil
                            /\ \A n \in N, r \in Side : p \in B[t.child[r][n]] => Before(r, k, n)
<1>1. PICK f : /\ \A n \in Cells : f[n] = IF t.child[SideOfKey(k, n)][n] = Nil THEN n
                                          ELSE f[t.child[SideOfKey(k, n)][n]]
               /\ InsertParent(t, k) = IF t.root = Nil THEN Nil ELSE f[t.root]
  BY InsertWalk
<1> DEFINE P(n) == /\ f[n] \in B[n] /\ t.child[SideOfKey(k, f[n])][f[n]] = Nil
                   /\ \A m \in B[n], r \in Side : f[n] \in B[t.child[r][m]] => Before(r, k, m)
           S == {n \in N \union {Nil} : n # Nil => P(n)}
<1>2. N \subseteq Keys /\ \A n \in N : n \in Cells /\ n # Nil /\ n # k /\ n \in Keys
  BY CellsAreKeys DEF Shape, Links
<1>3. ASSUME NEW n \in N, \A r \in Side : t.child[r][n] \in S
      PROVE  n \in S
  <2>1. PICK s, c, d, y : /\ s = SideOfKey(k, n) /\ c = t.child[s][n]
                          /\ d = t.child[Mirror(s)][n] /\ y = f[n]
    OBVIOUS
  <2>2. s \in Side /\ Mirror(s) \in Side /\ (\A r \in Side : r = s \/ r = Mirror(s))
        /\ Mirror(Mirror(s)) = s /\ Before(s, k, n)
    BY <2>1, <1>2, KeySide, Sides
  <2>3. ChildFacts(t, N, B, n, s) /\ ChildFacts(t, N, B, n, Mirror(s)) /\ NodeFacts(t, N, B, n)
    BY Zenon, <2>2, ChildHas, NodeHas
  <2>4. /\ B[n] = {n} \union B[c] \union B[d] /\ B[c] \intersect B[d] = {}
        /\ B[c] \subseteq N /\ B[d] \subseteq N /\ c \in N \union {Nil} /\ d \in N \union {Nil}
        /\ n \notin B[c] /\ n \notin B[d]
    BY <2>1, <2>2, <2>3 DEF ChildFacts
  <2>5. \A e \in N \union {Nil} : \A m \in B[e], r \in Side : B[t.child[r][m]] \subseteq B[e]
    <3>1. ASSUME NEW e \in N \union {Nil}, NEW m \in B[e], NEW r \in Side
          PROVE  B[t.child[r][m]] \subseteq B[e]
      <4>1. e \in N
        BY DEF Shape, Below
      <4>2. m \in N /\ B[m] \subseteq B[e]
        BY <4>1, BelowIsTransitive
      <4>3. ChildFacts(t, N, B, m, r)
        BY <4>2, ChildHas
      <4> QED BY <4>2, <4>3 DEF ChildFacts
    <3> QED BY <3>1
  <2>6. CASE c = Nil
    <3>1. y = n /\ t.child[SideOfKey(k, y)][y] = Nil
      BY <2>1, <2>6, <1>1, <1>2
    <3>2. \A m \in B[n], r \in Side : n \notin B[t.child[r][m]]
      <4>1. SUFFICES ASSUME NEW m \in B[n], NEW r \in Side PROVE n \notin B[t.child[r][m]]
        OBVIOUS
      <4>2. CASE m = n
        BY <4>2, <2>1, <2>2, <2>4
      <4>3. CASE m \in B[c] \/ m \in B[d]
        <5>1. B[t.child[r][m]] \subseteq B[c] \/ B[t.child[r][m]] \subseteq B[d]
          BY <4>3, <2>4, <2>5
        <5> QED BY <5>1, <2>4
      <4> QED BY <4>2, <4>3, <2>4
    <3>3. P(n)
      BY <3>1, <3>2, <2>1, <2>3 DEF NodeFacts
    <3> QED BY <3>3
  <2>7. CASE c # Nil
    <3>1. y = f[c]
      BY <2>1, <2>7, <1>1, <1>2
    <3>2. P(c)
      BY <2>1, <2>2, <2>7, <1>3
    <3>3. /\ y \in B[c] /\ t.child[SideOfKey(k, y)][y] = Nil
          /\ \A m \in B[c], r \in Side : y \in B[t.child[r][m]] => Before(r, k, m)
      BY <3>1, <3>2
    <3>4. ASSUME NEW m \in B[n], NEW r \in Side, y \in B[t.child[r][m]]
          PROVE  Before(r, k, m)
      <4>1. CASE m = n
        BY <4>1, <3>3, <3>4, <2>1, <2>2, <2>4
      <4>2. CASE m \in B[c]
        BY <4>2, <3>3, <3>4
      <4>3. CASE m \in B[d]
        BY <4>3, <3>3, <3>4, <2>4, <2>5
      <4> QED BY <4>1, <4>2, <4>3, <2>4
    <3>5. P(n)
      BY <3>3, <3>4, <2>1, <2>4
    <3> QED BY <3>5
  <2> QED BY <2>6, <2>7
<1>4. N \subseteq S
  <2>1. Nil \in S
    OBVIOUS
  <2> HIDE DEF S
  <2> QED BY <2>1, <1>3, UpFromLeaves
<1>5. CASE t.root # Nil
  <2>1. t.root \in N /\ B[t.root] = N
    BY <1>5 DEF Shape, Links, Below
  <2>2. P(t.root)
    BY <2>1, <1>2, <1>4
  <2>3. p = f[t.root]
    BY <1>1, <1>5
  <2> QED BY <2>1, <2>2, <2>3, <1>5
<1> QED BY <1>1, <1>5

\* u is t with the new red leaf k below p.
Grown(t, k, p, u) ==
  /\ u \in Trees
  /\ u.root = IF p = Nil THEN k ELSE t.root
  /\ \A n \in Cells, r \in Side :
       u.child[r][n] = IF n = k THEN Nil
                       ELSE IF n = p /\ p # Nil /\ r = SideOfKey(k, p) THEN k ELSE t.child[r][n]
  /\ \A n \in Cells : u.parent[n] = IF n = k THEN p ELSE t.parent[n]
  /\ \A n \in Cells : u.color[n] = IF n = k THEN "red" ELSE t.color[n]

\* Linked, insert_unique's new node, changes the links of the new node and one of its parent.
LEMMA LinkedGrows ==
  ASSUME NEW t \in Trees, NEW k \in Keys, NEW p \in Cells \ {k}, p = InsertParent(t, k)
  PROVE  Grown(t, k, p, Linked(t, k))
<1>1. PICK e : e = Leaf(t, k, p)
  OBVIOUS
<1>2. /\ e \in Trees /\ e.root = t.root
      /\ \A n \in Cells, r \in Side : e.child[r][n] = IF n = k THEN Nil ELSE t.child[r][n]
      /\ \A n \in Cells : e.parent[n] = IF n = k THEN p ELSE t.parent[n]
      /\ \A n \in Cells : e.color[n] = IF n = k THEN "red" ELSE t.color[n]
  BY <1>1, CellsAreKeys DEF Leaf, Trees, Side
<1>3. PICK u : u = Linked(t, k)
  OBVIOUS
<1>4. CASE p = Nil
  <2>1. u = [e EXCEPT !.root = k]
    BY <1>1, <1>3, <1>4 DEF Linked
  <2>2. u \in Trees /\ u.root = k /\ u.child = e.child /\ u.parent = e.parent /\ u.color = e.color
    BY <2>1, <1>2, CellsAreKeys DEF Trees
  <2> QED BY <2>2, <1>2, <1>3, <1>4 DEF Grown
<1>5. CASE p # Nil
  <2>1. u = Child(e, p, SideOfKey(k, p), k)
    BY <1>1, <1>3, <1>5 DEF Linked
  <2>2. ChildSet(e, SideOfKey(k, p), p, k, u)
    BY <2>1, <1>2, CellsAreKeys, KeySide, SetChild
  <2> QED BY <2>2, <1>2, <1>3, <1>5 DEF Grown, ChildSet
<1> QED BY <1>4, <1>5

\* insert_unique links a key that is not in the tree where the search order wants it, in a free
\* place.
LEMMA GrowKeepsShape ==
  ASSUME NEW t, NEW N, NEW B, Shape(t, N, B), Loose(t, N), NEW k \in Keys \ N,
         NEW p, p = InsertParent(t, k), NEW u, Grown(t, k, p, u)
  PROVE  /\ \E D : Shape(u, N \union {k}, D)
         /\ p \in N \union {Nil} /\ (p = Nil <=> t.root = Nil) /\ (t.root = Nil <=> N = {})
         /\ p # Nil => t.child[SideOfKey(k, p)][p] = Nil
<1>1. /\ t.root = Nil => p = Nil
      /\ t.root # Nil => /\ p \in N /\ t.child[SideOfKey(k, p)][p] = Nil
                         /\ \A n \in N, r \in Side : p \in B[t.child[r][n]] => Before(r, k, n)
  BY InsertParentIs
<1>2. /\ N \subseteq Keys /\ IsFiniteSet(N) /\ k # Nil /\ k \notin N /\ Nil \notin N
      /\ \A n \in N \union {Nil} : n \in Cells
  BY CellsAreKeys DEF Shape, Links
<1>3. t.root = Nil <=> N = {}
  BY DEF Shape, Links, Below
<1>4. p \in N \union {Nil} /\ (p = Nil <=> t.root = Nil)
  BY <1>1, <1>2
<1>5. PICK q, M : q = SideOfKey(k, p) /\ M = N \union {k}
  OBVIOUS
<1>6. q \in Side /\ (p # Nil => Before(q, k, p) /\ t.child[q][p] = Nil)
  BY <1>1, <1>2, <1>4, <1>5, KeySide
<1>7. /\ u \in Trees /\ u.root = IF p = Nil THEN k ELSE t.root
      /\ \A r \in Side : u.child[r][k] = Nil
      /\ \A n \in N \union {Nil}, r \in Side :
           u.child[r][n] = IF n = p /\ p # Nil /\ r = q THEN k ELSE t.child[r][n]
      /\ u.parent[k] = p
      /\ \A n \in N : u.parent[n] = t.parent[n]
  BY <1>2, <1>5, CellsAreKeys DEF Grown
<1>8. \A n \in N, r \in Side : t.child[r][n] \in N \union {Nil}
  BY DEF Shape, Links
<1>9. Links(u, M)
  <2>1. M \subseteq Keys /\ IsFiniteSet(M)
    BY <1>2, <1>5, FS_AddElement
  <2>2. u.root \in M \union {Nil} /\ (u.root # Nil => u.parent[u.root] = Nil)
    <3>1. t.root \in N \union {Nil} /\ (t.root # Nil => t.parent[t.root] = Nil)
      BY DEF Shape, Links
    <3> QED BY <3>1, <1>4, <1>5, <1>7
  <2>3. \A r \in Side : u.child[r][Nil] = Nil
    BY <1>7 DEF Shape, Links
  <2>4. ASSUME NEW n \in M, NEW r \in Side
        PROVE  u.child[r][n] \in M \union {Nil}
               /\ (u.child[r][n] # Nil => u.parent[u.child[r][n]] = n)
    <3>1. CASE n = k
      BY <3>1, <1>7
    <3>2. CASE n # k /\ n = p /\ r = q
      BY <3>2, <1>2, <1>5, <1>7
    <3>3. CASE n # k /\ ~(n = p /\ r = q)
      <4>1. n \in N /\ u.child[r][n] = t.child[r][n]
        BY <3>3, <1>5, <1>7
      <4>2. t.child[r][n] \in N \union {Nil}
            /\ (t.child[r][n] # Nil => t.parent[t.child[r][n]] = n)
        BY <4>1 DEF Shape, Links
      <4> QED BY <4>1, <4>2, <1>5, <1>7
    <3> QED BY <3>1, <3>2, <3>3
  <2>5. ASSUME NEW n \in M, n # u.root
        PROVE  u.parent[n] \in M /\ \E r \in Side : u.child[r][u.parent[n]] = n
    <3>1. CASE n = k
      BY <3>1, <2>5, <1>4, <1>5, <1>6, <1>7
    <3>2. CASE n # k
      <4>1. n \in N /\ n # t.root
        BY <3>2, <2>5, <1>3, <1>4, <1>5, <1>7
      <4>2. PICK o, r : o = t.parent[n] /\ r = SideOf(t, n)
        OBVIOUS
      <4>3. o \in N /\ r \in Side /\ t.child[r][o] = n
        BY <4>1, <4>2, NodeHas DEF NodeFacts
      <4>4. ~(o = p /\ r = q)
        BY <4>1, <4>3, <1>2, <1>6
      <4>5. u.parent[n] = o /\ u.child[r][o] = n
        BY <4>1, <4>2, <4>3, <4>4, <1>7
      <4> QED BY <4>3, <4>5, <1>5
    <3> QED BY <3>1, <3>2
  <2> QED BY <2>1, <2>2, <2>3, <2>4, <2>5, <1>7 DEF Links
<1>10. PICK D : D = [n \in M \union {Nil} |->
                       IF n = k THEN {k} ELSE IF p \in B[n] THEN B[n] \union {k} ELSE B[n]]
  OBVIOUS
<1>11. /\ B \in [N \union {Nil} -> SUBSET N] /\ B[Nil] = {} /\ B[t.root] = N
  BY DEF Shape, Below
<1>12. /\ D \in [M \union {Nil} -> SUBSET M] /\ D[k] = {k}
       /\ \A n \in N \union {Nil} : D[n] = IF p \in B[n] THEN B[n] \union {k} ELSE B[n]
  BY <1>2, <1>5, <1>10, <1>11
<1>13. D[Nil] = {} /\ D[u.root] = M
  <2>1. CASE p = Nil
    BY <2>1, <1>2, <1>3, <1>4, <1>5, <1>7, <1>11, <1>12
  <2>2. CASE p # Nil
    <3>1. t.root \in N /\ p \in N
      BY <2>2, <1>4 DEF Shape, Links
    <3> QED BY <2>2, <3>1, <1>2, <1>5, <1>7, <1>11, <1>12
  <2> QED BY <2>1, <2>2
<1>14. ASSUME NEW n \in N
       PROVE  /\ D[n] = {n} \union D[u.child["left"][n]] \union D[u.child["right"][n]]
              /\ \A r \in Side : \A m \in D[u.child[r][n]] : Before(r, m, n)
  <2>1. PICK a, b : a = t.child["left"][n] /\ b = t.child["right"][n]
    OBVIOUS
  <2>2. /\ B[n] = {n} \union B[a] \union B[b] /\ a \in N \union {Nil} /\ b \in N \union {Nil}
    BY <2>1, CellsAreKeys DEF Shape, Below, Links
  <2>3. ChildFacts(t, N, B, n, "left") /\ ChildFacts(t, N, B, n, "right") /\ NodeFacts(t, N, B, n)
    BY CellsAreKeys, ChildHas, NodeHas
  <2>4. B[a] \intersect B[b] = {} /\ n \notin B[a] /\ n \notin B[b]
    BY <2>1, <2>3, CellsAreKeys DEF ChildFacts
  <2>5. \A r \in Side : D[u.child[r][n]] = IF p \in B[t.child[r][n]] \/ (n = p /\ r = q)
                                           THEN B[t.child[r][n]] \union {k} ELSE B[t.child[r][n]]
    <3>1. ASSUME NEW r \in Side
          PROVE  D[u.child[r][n]] = IF p \in B[t.child[r][n]] \/ (n = p /\ r = q)
                                    THEN B[t.child[r][n]] \union {k} ELSE B[t.child[r][n]]
      <4>1. CASE n = p /\ r = q
        BY <4>1, <1>2, <1>6, <1>7, <1>11, <1>12
      <4>2. CASE ~(n = p /\ r = q)
        <5>1. u.child[r][n] = t.child[r][n] /\ t.child[r][n] \in N \union {Nil}
          BY <4>2, <1>7, <1>8
        <5> QED BY <4>2, <5>1, <1>12
      <4> QED BY <4>1, <4>2
    <3> QED BY <3>1
  <2>6. D[n] = {n} \union D[u.child["left"][n]] \union D[u.child["right"][n]]
    <3>1. /\ D[u.child["left"][n]] = IF p \in B[a] \/ (n = p /\ "left" = q)
                                     THEN B[a] \union {k} ELSE B[a]
          /\ D[u.child["right"][n]] = IF p \in B[b] \/ (n = p /\ "right" = q)
                                      THEN B[b] \union {k} ELSE B[b]
      BY <2>1, <2>5, CellsAreKeys
    <3>2. D[n] = IF p \in B[n] THEN B[n] \union {k} ELSE B[n]
      BY <1>12
    <3>3. q = "left" \/ q = "right"
      BY <1>6 DEF Side
    <3> QED BY <3>1, <3>2, <3>3, <2>2
  <2>7. ASSUME NEW r \in Side, NEW m \in D[u.child[r][n]] PROVE Before(r, m, n)
    <3>1. \A e \in B[t.child[r][n]] : Before(r, e, n)
      BY DEF Shape, Below
    <3>2. p \in B[t.child[r][n]] => Before(r, k, n)
      <4>1. p \in B[t.child[r][n]] => p # Nil
        BY <1>2, <1>8, <1>11
      <4> QED BY <4>1, <1>1, <1>4
    <3>3. n = p /\ r = q => Before(r, k, n)
      BY <1>2, <1>6
    <3> QED BY <2>5, <2>7, <3>1, <3>2, <3>3
  <2> QED BY <2>6, <2>7
<1>15. Below(u, M, D)
  <2>1. /\ D[k] = {k} \union D[u.child["left"][k]] \union D[u.child["right"][k]]
        /\ \A r \in Side : \A m \in D[u.child[r][k]] : Before(r, m, k)
    BY <1>7, <1>12, <1>13, CellsAreKeys
  <2>2. \A n \in M : n = k \/ n \in N
    BY <1>5
  <2>3. \A n \in M : D[n] = {n} \union D[u.child["left"][n]] \union D[u.child["right"][n]]
    BY <2>1, <2>2, <1>14
  <2>4. \A n \in M, r \in Side : \A m \in D[u.child[r][n]] : Before(r, m, n)
    BY <2>1, <2>2, <1>14
  <2> QED BY <2>3, <2>4, <1>12, <1>13 DEF Below
<1>16. \E E : Shape(u, N \union {k}, E)
  BY <1>5, <1>9, <1>15 DEF Shape
<1> QED BY <1>1, <1>3, <1>4, <1>16

\* The tree in the loop of insert_fixup: z is red, and all else is right.
Rising(t, N, z) ==
  /\ \E B : Shape(t, N, B)
  /\ \E H : Even(t, N, H, NoSpot)
  /\ RedOnly(t, N, z) /\ z \in N /\ t.color[z] = "red"

\* The whole of insert_unique before insert_fixup.
LEMMA InsertRises ==
  ASSUME NEW t, NEW N, NEW B, Shape(t, N, B), Bare(t, N), NoRed(t, N),
         NEW H, Even(t, N, H, NoSpot), NEW k \in Keys \ N
  PROVE  Rising(Linked(t, k), N \union {k}, k) /\ Bare(Linked(t, k), N \union {k})
<1>1. PICK p, u, M : p = InsertParent(t, k) /\ u = Linked(t, k) /\ M = N \union {k}
  OBVIOUS
<1>2. Loose(t, N)
  BY DEF Loose, Bare
<1>3. /\ N \subseteq Keys /\ k # Nil /\ k \notin N /\ Nil \notin N /\ t \in Trees
      /\ \A n \in N \union {Nil} : n \in Cells
  BY CellsAreKeys DEF Shape, Links
<1>4. p \in N \union {Nil} /\ (p # Nil => t.root # Nil)
  <2>1. /\ t.root = Nil => p = Nil
        /\ t.root # Nil => p \in N
    BY <1>1, <1>2, InsertParentIs
  <2> QED BY <2>1
<1>5. Grown(t, k, p, u)
  <2>1. p \in Cells \ {k}
    BY <1>3, <1>4
  <2> QED BY <2>1, <1>1, <1>3, LinkedGrows
<1>6. /\ \E D : Shape(u, M, D)
      /\ (p = Nil <=> t.root = Nil) /\ (t.root = Nil <=> N = {})
      /\ p # Nil => t.child[SideOfKey(k, p)][p] = Nil
  BY <1>1, <1>2, <1>5, GrowKeepsShape
<1>7. /\ u.root = IF p = Nil THEN k ELSE t.root
      /\ \A r \in Side : u.child[r][k] = Nil
      /\ \A n \in Cells \ {k}, r \in Side :
           u.child[r][n] = IF n = p /\ p # Nil /\ r = SideOfKey(k, p) THEN k ELSE t.child[r][n]
      /\ \A n \in Cells \ {k} : u.parent[n] = t.parent[n]
      /\ \A n \in Cells : u.color[n] = IF n = k THEN "red" ELSE t.color[n]
  <2>1. k \in Cells /\ \A n \in Cells \ {k} : n \in Cells /\ n # k
    BY CellsAreKeys
  <2>2. /\ u.root = IF p = Nil THEN k ELSE t.root
        /\ \A n \in Cells, r \in Side :
             u.child[r][n] = IF n = k THEN Nil
                             ELSE IF n = p /\ p # Nil /\ r = SideOfKey(k, p) THEN k
                             ELSE t.child[r][n]
        /\ \A n \in Cells : u.parent[n] = IF n = k THEN p ELSE t.parent[n]
        /\ \A n \in Cells : u.color[n] = IF n = k THEN "red" ELSE t.color[n]
    BY <1>5 DEF Grown
  <2> QED BY <2>1, <2>2
<1>8. /\ H \in [N \union {Nil} -> Nat] /\ H[Nil] = 0
      /\ \A n \in N, r \in Side : H[n] = H[t.child[r][n]] + Extra(NoSpot, n, r) + Weight(t, n)
  BY DEF Even, EvenBut
<1>9. PICK D : D = [n \in M \union {Nil} |-> IF n = k THEN 0 ELSE H[n]]
  OBVIOUS
<1>10. /\ D \in [M \union {Nil} -> Nat] /\ D[k] = 0 /\ D[Nil] = 0
       /\ \A n \in N \union {Nil} : D[n] = H[n]
  BY <1>1, <1>3, <1>8, <1>9
<1>11. ASSUME NEW n \in M, NEW r \in Side
       PROVE  D[n] = D[u.child[r][n]] + Extra(NoSpot, n, r) + Weight(u, n)
  <2>1. CASE n = k
    BY <2>1, <1>3, <1>7, <1>10, ExtraIs, CellsAreKeys DEF Weight
  <2>2. CASE n # k
    <3>1. n \in N /\ n \in Cells \ {k} /\ Weight(u, n) = Weight(t, n) /\ D[n] = H[n]
      BY <2>2, <1>1, <1>3, <1>7, <1>10 DEF Weight
    <3>2. D[u.child[r][n]] = H[t.child[r][n]]
      <4>1. CASE n = p /\ p # Nil /\ r = SideOfKey(k, p)
        BY <4>1, <3>1, <1>6, <1>7, <1>8, <1>10
      <4>2. CASE ~(n = p /\ p # Nil /\ r = SideOfKey(k, p))
        <5>1. u.child[r][n] = t.child[r][n]
          BY <4>2, <3>1, <1>7
        <5>2. t.child[r][n] \in N \union {Nil}
          BY <3>1 DEF Shape, Links
        <5> QED BY <5>1, <5>2, <1>10
      <4> QED BY <4>1, <4>2
    <3> QED BY <3>1, <3>2, <1>8
  <2> QED BY <2>1, <2>2
<1>12. Even(u, M, D, NoSpot)
  BY <1>10, <1>11 DEF Even, EvenBut
<1>13. ASSUME NEW n \in M, NEW r \in Side, u.color[n] = "red", u.color[u.child[r][n]] = "red"
       PROVE  u.child[r][n] = k
  <2>1. CASE n = k
    BY <2>1, <1>3, <1>7, <1>13, CellsAreKeys DEF NoRed
  <2>2. CASE n # k /\ u.child[r][n] # k
    <3>1. n \in N /\ n \in Cells \ {k}
      BY <2>2, <1>1, <1>3
    <3>2. u.child[r][n] = t.child[r][n] /\ t.child[r][n] \in N \union {Nil}
      BY <2>2, <3>1, <1>7 DEF Shape, Links
    <3>3. u.color[n] = t.color[n] /\ u.color[u.child[r][n]] = t.color[t.child[r][n]]
      BY <2>2, <3>1, <3>2, <1>3, <1>7
    <3> QED BY <3>1, <3>3, <1>13 DEF NoRed
  <2> QED BY <2>1, <2>2
<1>14. RedOnly(u, M, k)
  <2>1. u.color[Nil] = "black"
    BY <1>3, <1>7, CellsAreKeys DEF NoRed
  <2>2. u.color[u.root] = "red" => u.root = k
    <3>1. t.root \in Cells /\ t.color[t.root] = "black"
      BY <1>3, TreeFields DEF NoRed
    <3> QED BY <3>1, <1>7
  <2> QED BY <2>1, <2>2, <1>13 DEF RedOnly
<1>15. Bare(u, M)
  <2>1. \A n \in Keys \ M : n \in Cells \ {k} /\ n # p /\ n \in Keys \ N
    BY <1>1, <1>4, CellsAreKeys
  <2> QED BY <2>1, <1>7 DEF Bare
<1>16. k \in M /\ u.color[k] = "red"
  BY <1>1, <1>7, CellsAreKeys
<1> QED BY <1>1, <1>6, <1>12, <1>14, <1>15, <1>16 DEF Rising

-----------------------------------------------------------------------------
\* insert_fixup.

\* u is t in other colours.
SameLinks(t, u) ==
  u \in Trees /\ u.root = t.root /\ u.child = t.child /\ u.parent = t.parent

\* New colours keep the search tree.
LEMMA PaintKeepsShape ==
  ASSUME NEW t, NEW u, SameLinks(t, u)
  PROVE  /\ \A N, B : Shape(t, N, B) => Shape(u, N, B)
         /\ \A N : Bare(t, N) => Bare(u, N)
         /\ \A N : Loose(t, N) => Loose(u, N)
BY DEF SameLinks, Shape, Links, Below, Bare, Loose

\* All links lead where the parent says.
LEMMA ParentOf ==
  ASSUME NEW t, NEW N, NEW B, Shape(t, N, B)
  PROVE  \A n \in N, r \in Side : t.child[r][n] # Nil =>
           t.child[r][n] \in N /\ t.parent[t.child[r][n]] = n /\ t.child[r][n] # n
<1> SUFFICES ASSUME NEW n \in N, NEW r \in Side, t.child[r][n] # Nil
             PROVE  t.child[r][n] \in N /\ t.parent[t.child[r][n]] = n /\ t.child[r][n] # n
  OBVIOUS
<1>1. ChildFacts(t, N, B, n, r)
  BY ChildHas
<1> QED BY <1>1 DEF ChildFacts

\* What the loop of insert_fixup sees when its condition holds.
UpFacts(t, N, z, p, g, s, o) ==
  /\ p \in N /\ g \in N /\ s \in Side /\ o \in N \union {Nil} /\ p # t.root /\ z # t.root
  /\ t.parent[z] = p /\ t.parent[p] = g /\ s = SideOf(t, p) /\ t.child[s][g] = p
  /\ o = t.child[Mirror(s)][g]
  /\ t.color[p] = "red" /\ t.color[g] = "black" /\ t.color[t.root] = "black"
  /\ z # p /\ p # g /\ o # p /\ o # g /\ z # g /\ z # o
  /\ \E r \in Side : t.child[r][p] = z

\* Where insert_fixup goes on, at a node with a red parent, there is a black grandparent.
LEMMA UpHas ==
  ASSUME NEW t, NEW N, NEW z, Rising(t, N, z), NEW p, p = t.parent[z], t.color[p] = "red",
         NEW g, g = t.parent[p], NEW s, s = SideOf(t, p), NEW o, o = t.child[Mirror(s)][g]
  PROVE  UpFacts(t, N, z, p, g, s, o)
<1>1. PICK B : Shape(t, N, B)
  BY DEF Rising
<1>2. /\ z \in N /\ t.color[z] = "red" /\ t.color[Nil] = "black"
      /\ \A n \in N, r \in Side :
           t.color[n] = "red" /\ t.color[t.child[r][n]] = "red" => t.child[r][n] = z
      /\ t.color[t.root] = "red" => t.root = z
  BY DEF Rising, RedOnly
<1>3. NodeFacts(t, N, B, z)
  BY <1>1, <1>2, NodeHas
<1>4. /\ p # Nil /\ z # t.root /\ p \in N /\ SideOf(t, z) \in Side
      /\ t.child[SideOf(t, z)][p] = z /\ z # Nil
  BY <1>2, <1>3 DEF NodeFacts
<1>5. p # z
  BY <1>1, <1>4, ParentOf
<1>6. NodeFacts(t, N, B, p) /\ p # t.root
  BY <1>1, <1>2, <1>4, NodeHas
<1>7. g \in N /\ s \in Side /\ t.child[s][g] = p
  BY <1>6 DEF NodeFacts
<1>8. p # g
  BY <1>1, <1>4, <1>7, ParentOf
<1>9. t.color[g] = "black"
  <2>1. t.color[g] # "red"
    BY <1>2, <1>5, <1>7
  <2>2. t \in Trees /\ g \in Cells
    BY <1>1, <1>7, CellsAreKeys DEF Shape, Links
  <2> QED BY <2>1, <2>2, TreeFields
<1>10. Mirror(s) \in Side /\ Mirror(s) # s
  BY <1>7, Sides
<1>11. ChildFacts(t, N, B, g, s) /\ ChildFacts(t, N, B, g, Mirror(s))
  BY <1>1, <1>7, <1>10, ChildHas
<1>12. o \in N \union {Nil} /\ o # p /\ o # g /\ (o # Nil => t.parent[o] = g)
  BY Zenon, <1>4, <1>7, <1>11 DEF ChildFacts
<1>13. z # o
  BY <1>3, <1>4, <1>8, <1>12
<1>14. z # g
  BY <1>2, <1>9
<1>15. t.color[t.root] = "black"
  <2>1. t \in Trees
    BY <1>1 DEF Shape, Links
  <2> QED BY <2>1, <1>2, <1>4, TreeFields
<1> QED BY <1>4, <1>5, <1>6, <1>7, <1>8, <1>9, <1>12, <1>13, <1>14, <1>15 DEF UpFacts

\* Case 1 of insert_fixup: with a red uncle the two reds move to the grandparent, and nothing else
\* is wrong.
LEMMA RecolorRises ==
  ASSUME NEW t, NEW N, NEW z, Rising(t, N, z), NEW p, NEW g, NEW s, NEW o,
         UpFacts(t, N, z, p, g, s, o), t.color[o] = "red",
         NEW u, u = Paint(Paint(Paint(t, p, "black"), o, "black"), g, "red")
  PROVE  Rising(u, N, g) /\ SameLinks(t, u)
<1>1. PICK B : Shape(t, N, B)
  BY DEF Rising
<1>2. PICK H : Even(t, N, H, NoSpot)
  BY DEF Rising
<1>3. /\ t.color[Nil] = "black"
      /\ \A n \in N, r \in Side :
           t.color[n] = "red" /\ t.color[t.child[r][n]] = "red" => t.child[r][n] = z
  BY DEF Rising, RedOnly
<1>4. /\ p \in N /\ g \in N /\ s \in Side /\ o \in N /\ p # t.root /\ z # t.root
      /\ t.parent[z] = p /\ t.parent[p] = g /\ t.child[s][g] = p
      /\ o = t.child[Mirror(s)][g] /\ t.parent[o] = g
      /\ t.color[p] = "red" /\ t.color[g] = "black" /\ t.color[t.root] = "black"
      /\ z # p /\ p # g /\ o # p /\ o # g /\ z # g /\ z # o
      /\ Mirror(s) \in Side /\ \A r \in Side : r = s \/ r = Mirror(s)
  <2>1. /\ p \in N /\ g \in N /\ s \in Side /\ o \in N /\ p # t.root /\ z # t.root
        /\ t.parent[z] = p /\ t.parent[p] = g /\ t.child[s][g] = p
        /\ o = t.child[Mirror(s)][g]
        /\ t.color[p] = "red" /\ t.color[g] = "black" /\ t.color[t.root] = "black"
        /\ z # p /\ p # g /\ o # p /\ o # g /\ z # g /\ z # o
    BY <1>3 DEF UpFacts
  <2>2. Mirror(s) \in Side /\ \A r \in Side : r = s \/ r = Mirror(s)
    BY <2>1, Sides
  <2>3. t.parent[o] = g
    <3>1. o # Nil
      BY <1>1, <2>1, CellsAreKeys DEF Shape, Links
    <3> QED BY <3>1, <1>1, <2>1, <2>2, ParentOf
  <2> QED BY <2>1, <2>2, <2>3
<1>5. t \in Trees /\ N \subseteq Cells /\ Nil \in Cells /\ Nil \notin N
  BY <1>1, CellsAreKeys DEF Shape, Links
<1>6. /\ SameLinks(t, u)
      /\ \A n \in Cells : u.color[n] = IF n = g THEN "red" ELSE IF n = o \/ n = p THEN "black"
                                       ELSE t.color[n]
  <2>1. PICK a, b : a = Paint(t, p, "black") /\ b = Paint(a, o, "black")
    OBVIOUS
  <2>2. ColorSet(t, p, "black", a)
    BY <2>1, <1>4, <1>5, SetColor
  <2>3. ColorSet(a, o, "black", b)
    <3>1. a \in Trees
      BY <2>2 DEF ColorSet
    <3> QED BY <3>1, <2>1, <1>4, <1>5, SetColor
  <2>4. ColorSet(b, g, "red", u)
    <3>1. b \in Trees /\ u = Paint(b, g, "red")
      BY <2>1, <2>3 DEF ColorSet
    <3> QED BY <3>1, <1>4, <1>5, SetColor
  <2> QED BY <2>2, <2>3, <2>4 DEF ColorSet, SameLinks
<1>7. u.child = t.child /\ u.root = t.root
  BY <1>6 DEF SameLinks
<1>8. /\ H \in [N \union {Nil} -> Nat] /\ H[Nil] = 0
      /\ \A n \in N, r \in Side : H[n] = H[t.child[r][n]] + Weight(t, n)
  <2>1. \A n \in N, r \in Side : H[n] = H[t.child[r][n]] + 0 + Weight(t, n)
    BY <1>2, ExtraIs DEF Even, EvenBut
  <2>2. H \in [N \union {Nil} -> Nat] /\ H[Nil] = 0
    BY <1>2 DEF Even, EvenBut
  <2>3. \A n \in N, r \in Side : t.child[r][n] \in N \union {Nil}
    BY <1>1 DEF Shape, Links
  <2>4. \A n \in N, r \in Side : H[t.child[r][n]] \in Nat
    BY <2>2, <2>3
  <2> QED BY <2>1, <2>2, <2>4, ExtraIs
<1>9. PICK D : D = [n \in N \union {Nil} |-> IF n = p \/ n = o THEN H[n] + 1 ELSE H[n]]
  OBVIOUS
<1>10. /\ D \in [N \union {Nil} -> Nat] /\ D[Nil] = 0
       /\ \A n \in N \union {Nil} : D[n] = IF n = p \/ n = o THEN H[n] + 1 ELSE H[n]
  BY <1>4, <1>5, <1>8, <1>9
<1>11. \A n \in N, r \in Side : (t.child[r][n] = p \/ t.child[r][n] = o) <=> n = g
  <2>1. p # Nil /\ o # Nil
    BY <1>4, <1>5
  <2>2. \A n \in N, r \in Side : t.child[r][n] # Nil => t.parent[t.child[r][n]] = n
    BY <1>1, ParentOf
  <2> QED BY <2>1, <2>2, <1>4
<1>12. ASSUME NEW n \in N, NEW r \in Side
       PROVE  D[n] = D[u.child[r][n]] + Weight(u, n)
  <2>1. t.child[r][n] \in N \union {Nil}
    BY <1>1 DEF Shape, Links
  <2>2. u.color[n] = IF n = g THEN "red" ELSE IF n = o \/ n = p THEN "black" ELSE t.color[n]
    BY <1>5, <1>6
  <2>3. H[n] = H[t.child[r][n]] + Weight(t, n) /\ H[t.child[r][n]] \in Nat
    BY <2>1, <1>8
  <2> QED BY <2>1, <2>2, <2>3, <1>3, <1>4, <1>7, <1>10, <1>11 DEF Weight
<1>13. Even(u, N, D, NoSpot)
  <2>1. \A n \in N, r \in Side : u.child[r][n] \in N \union {Nil}
    BY <1>1, <1>7 DEF Shape, Links
  <2>2. ASSUME NEW n \in N, NEW r \in Side
        PROVE  D[n] = D[u.child[r][n]] + Extra(NoSpot, n, r) + Weight(u, n)
    <3>1. D[u.child[r][n]] \in Nat
      BY <2>1, <1>10
    <3> QED BY <3>1, <1>12, ExtraIs
  <2> QED BY <2>2, <1>10 DEF Even, EvenBut
<1>14. ASSUME NEW n \in N, NEW r \in Side, u.color[n] = "red", u.color[u.child[r][n]] = "red"
       PROVE  u.child[r][n] = g
  <2>1. PICK c : c = t.child[r][n]
    OBVIOUS
  <2>2. c \in N \union {Nil} /\ c \in Cells
    BY <2>1, <1>1, <1>5 DEF Shape, Links
  <2>3. SUFFICES ASSUME c # g PROVE FALSE
    BY <2>1, <1>7
  <2>4. t.color[c] = "red" /\ c # p /\ c # o
    BY <2>1, <2>2, <2>3, <1>6, <1>7, <1>14
  <2>5. n # g
    BY <2>1, <2>4, <1>4
  <2>6. t.color[n] = "red" /\ n # p
    BY <2>5, <1>5, <1>6, <1>14
  <2>7. c = z
    BY <2>1, <2>4, <2>6, <1>3
  <2>8. t.parent[c] = n
    BY <2>1, <2>2, <2>4, <1>1, <1>3, ParentOf
  <2> QED BY <2>6, <2>7, <2>8, <1>4
<1>15. RedOnly(u, N, g)
  <2>1. u.color[Nil] = "black"
    BY <1>3, <1>4, <1>5, <1>6
  <2>2. u.color[u.root] = "red" => u.root = g
    <3>1. t.root \in Cells
      BY <1>5, TreeFields
    <3> QED BY <3>1, <1>4, <1>6, <1>7
  <2> QED BY <2>1, <2>2, <1>14 DEF RedOnly
<1>16. Shape(u, N, B)
  BY <1>1, <1>6, PaintKeepsShape
<1>17. g \in N /\ u.color[g] = "red"
  BY <1>4, <1>5, <1>6
<1> QED BY <1>6, <1>13, <1>15, <1>16, <1>17 DEF Rising

\* A rotation touches no cell outside the tree and no colour.
LEMMA TurnKeepsRest ==
  ASSUME NEW t, NEW N, NEW B, Shape(t, N, B), NEW s \in Side, NEW x \in N,
         NEW y, NEW z, y = t.child[Mirror(s)][x], z = t.child[s][y], y # Nil,
         NEW u, Turn(t, s, x, y, z, u)
  PROVE  /\ \A M : N \subseteq M /\ Bare(t, M) => Bare(u, M)
         /\ Loose(t, N) => Loose(u, N)
         /\ t.color = u.color
<1>1. /\ y \in N /\ y # x /\ z \in N \union {Nil}
      /\ \A n \in Cells \ (N \union {Nil}), r \in Side : u.child[r][n] = t.child[r][n]
  <2>1. TurnedLinks(t, N, s, x, y, z, u)
    BY TurnLinks
  <2> QED BY Zenon, <2>1 DEF TurnedLinks
<1>2. \A m \in Cells :
        u.parent[m] = IF m = z /\ z # Nil THEN x
                      ELSE IF m = x THEN y ELSE IF m = y THEN t.parent[x] ELSE t.parent[m]
  BY DEF Turn
<1>3. \A n \in Keys \ N : n \in Cells \ (N \union {Nil})
  BY CellsAreKeys
<1>4. \A n \in Keys \ N : u.parent[n] = t.parent[n] /\ \A r \in Side : u.child[r][n] = t.child[r][n]
  BY <1>1, <1>2, <1>3
<1> QED BY <1>4 DEF Bare, Loose, Turn

\* H has the black heights: a node's is that of each child and its own weight.
Heights(t, N, H) ==
  /\ H \in [N \union {Nil} -> Nat] /\ H[Nil] = 0
  /\ \A n \in N, r \in Side : H[n] = H[t.child[r][n]] + Weight(t, n)

\* Without a spot no link counts for more.
LEMMA EvenIs ==
  ASSUME NEW t, NEW N, NEW B, Shape(t, N, B), NEW H
  PROVE  Even(t, N, H, NoSpot) <=> Heights(t, N, H)
<1>1. \A n \in N, r \in Side : t.child[r][n] \in N \union {Nil}
  BY DEF Shape, Links
<1>2. H \in [N \union {Nil} -> Nat] =>
        \A n \in N, r \in Side : H[t.child[r][n]] + Extra(NoSpot, n, r) = H[t.child[r][n]]
  <2>1. SUFFICES ASSUME H \in [N \union {Nil} -> Nat], NEW n \in N, NEW r \in Side
                 PROVE  H[t.child[r][n]] + Extra(NoSpot, n, r) = H[t.child[r][n]]
    OBVIOUS
  <2>2. H[t.child[r][n]] \in Nat
    BY <1>1, <2>1
  <2> QED BY <2>2, ExtraIs
<1> QED BY <1>2 DEF Even, EvenBut, Heights

\* Case 2: z is an inner node and is turned out.
LEMMA InnerRises ==
  ASSUME NEW t, NEW N, NEW z, Rising(t, N, z), NEW p, NEW g, NEW s, NEW o,
         UpFacts(t, N, z, p, g, s, o), z = t.child[Mirror(s)][p], NEW u, u = Rotate(t, s, p)
  PROVE  /\ Rising(u, N, p) /\ UpFacts(u, N, p, z, g, s, o) /\ p = u.child[s][z]
         /\ u.color = t.color
         /\ \A M : N \subseteq M /\ Bare(t, M) => Bare(u, M)
<1>1. PICK B : Shape(t, N, B)
  BY DEF Rising
<1>2. PICK H : Even(t, N, H, NoSpot)
  BY DEF Rising
<1>3. /\ z \in N /\ t.color[z] = "red" /\ t.color[Nil] = "black"
      /\ \A n \in N, r \in Side :
           t.color[n] = "red" /\ t.color[t.child[r][n]] = "red" => t.child[r][n] = z
  BY DEF Rising, RedOnly
<1>4. /\ p \in N /\ g \in N /\ s \in Side /\ p # t.root
      /\ t.parent[z] = p /\ t.parent[p] = g /\ t.child[s][g] = p
      /\ o = t.child[Mirror(s)][g] /\ o # p
      /\ t.color[p] = "red" /\ t.color[g] = "black" /\ t.color[t.root] = "black"
      /\ z # p /\ p # g /\ z # g
  BY DEF UpFacts
<1>5. /\ t \in Trees /\ N \subseteq Cells /\ Nil \in Cells /\ Nil \notin N
      /\ Mirror(s) \in Side /\ Mirror(s) # s /\ \A r \in Side : r = s \/ r = Mirror(s)
  BY <1>1, <1>4, Sides, CellsAreKeys DEF Shape, Links
<1>6. PICK y : y = t.child[s][z]
  OBVIOUS
<1>7. Turn(t, s, p, z, y, u)
  <2>1. y \in Cells
    BY Zenon, <1>3, <1>4, <1>5, <1>6, TreeFields
  <2> QED BY <2>1, <1>3, <1>4, <1>5, <1>6, TurnRotates
<1>8. /\ u.root = t.root
      /\ u.child[s][z] = p /\ u.child[Mirror(s)][z] = t.child[Mirror(s)][z]
      /\ u.child[s][p] = t.child[s][p] /\ u.child[Mirror(s)][p] = y
      /\ \A n \in N \ {z, p}, r \in Side :
           u.child[r][n] = IF t.child[r][n] = p THEN z ELSE t.child[r][n]
  <2>1. z # Nil
    BY Zenon, <1>3, <1>5
  <2>2. /\ u.root = IF t.root = p THEN z ELSE t.root
        /\ u.child[s][z] = p /\ u.child[Mirror(s)][z] = t.child[Mirror(s)][z]
        /\ u.child[s][p] = t.child[s][p] /\ u.child[Mirror(s)][p] = y
        /\ \A n \in Cells \ {p, z}, r \in Side :
             n \in N \union {Nil} => u.child[r][n] = IF t.child[r][n] = p THEN z ELSE t.child[r][n]
    <3>1. TurnedLinks(t, N, s, p, z, y, u)
      BY <2>1, <1>1, <1>4, <1>6, <1>7, TurnLinks
    <3> QED BY Zenon, <3>1 DEF TurnedLinks
  <2> QED BY <2>2, <1>4, <1>5
<1>9. u.color = t.color
  BY <1>7 DEF Turn
<1>10. Shape(u, N, TurnedBelow(t, s, p, z, y, B))
  BY Zenon, <1>1, <1>3, <1>4, <1>5, <1>6, <1>7, TurnKeepsBelow
<1>11. Even(u, N, TurnedHeight(H, p, z, H[p]), NoSpot)
  <2>1. /\ H \in [N \union {Nil} -> Nat] /\ H[Nil] = 0
        /\ \A n \in N, r \in Side : H[n] = H[t.child[r][n]] + Weight(t, n)
    <3>1. Heights(t, N, H)
      BY <1>1, <1>2, EvenIs
    <3> QED BY <3>1 DEF Heights
  <2>2. Weight(t, p) = 0 /\ Weight(t, z) = 0
    BY <1>3, <1>4 DEF Weight
  <2>3. t.child[Mirror(s)][z] \in N \union {Nil} /\ y \in N \union {Nil} /\ t.child[s][p] \in N \union {Nil}
    BY Zenon, <1>1, <1>3, <1>4, <1>5, <1>6 DEF Shape, Links
  <2>4. /\ H[p] \in Nat /\ H[z] \in Nat /\ H[y] \in Nat /\ H[t.child[s][p]] \in Nat
        /\ H[t.child[Mirror(s)][z]] \in Nat
    BY Zenon, <2>1, <2>3, <1>3, <1>4
  <2>5. /\ H[p] = H[z] /\ H[z] = H[y] /\ H[z] = H[t.child[Mirror(s)][z]] /\ H[p] = H[t.child[s][p]]
    BY <2>1, <2>2, <2>4, <1>3, <1>4, <1>5, <1>6
  <2>6. EvenBut(t, N, H, NoSpot, {p, z})
    BY <1>2 DEF Even, EvenBut
  <2>7. \A n, r : Extra(NoSpot, n, r) = 0
    BY Zenon, ExtraIs
  <2>8. /\ H[p] = H[p] + Extra(NoSpot, z, s) + Weight(t, z)
        /\ H[p] = H[t.child[Mirror(s)][z]] + Extra(NoSpot, z, Mirror(s)) + Weight(t, z)
        /\ H[p] = H[t.child[s][p]] + Extra(NoSpot, p, s) + Weight(t, p)
        /\ H[p] = H[y] + Extra(NoSpot, p, Mirror(s)) + Weight(t, p)
    BY <2>2, <2>4, <2>5, <2>7
  <2>9. z # Nil /\ z = t.child[Mirror(s)][p] /\ p \in N /\ s \in Side /\ H[p] \in Nat
    BY <2>4, <1>3, <1>4, <1>5
  <2> QED BY Zenon, <2>6, <2>8, <2>9, <1>1, <1>6, <1>7, TurnKeepsEven
<1>12. ASSUME NEW n \in N, NEW r \in Side, u.color[n] = "red", u.color[u.child[r][n]] = "red"
       PROVE  u.child[r][n] = p
  <2>1. ~(t.color[n] = "red" /\ t.color[t.child[r][n]] = "red" /\ t.child[r][n] # z)
    BY Zenon, <1>3
  <2>2. CASE n = z
    <3>1. t.child[r][z] # z
      <4>1. ChildFacts(t, N, B, z, r)
        BY <1>1, <1>3, ChildHas
      <4> QED BY Zenon, <4>1 DEF ChildFacts
    <3> QED BY <2>1, <2>2, <3>1, <1>5, <1>8, <1>9, <1>12
  <2>3. CASE n = p
    <3>1. t.child[s][p] # z /\ y # z
      <4>1. ChildFacts(t, N, B, p, Mirror(s)) /\ ChildFacts(t, N, B, z, s)
        BY <1>1, <1>3, <1>4, <1>5, ChildHas
      <4>2. Mirror(Mirror(s)) = s /\ z # Nil
        BY Zenon, <1>3, <1>4, <1>5, Sides
      <4> QED BY Zenon, <4>1, <4>2, <1>6 DEF ChildFacts
    <3>2. t.color[y] # "red"
      BY <3>1, <1>3, <1>4, <1>6
    <3> QED BY <2>1, <2>3, <3>1, <3>2, <1>5, <1>8, <1>9, <1>12
  <2>4. CASE n \notin {z, p}
    <3>1. t.child[r][n] = z => n = p
      BY <1>1, <1>3, <1>4, <1>5, ParentOf
    <3>2. t.child[r][n] = p => n = g
      BY <1>1, <1>4, <1>5, ParentOf
    <3> QED BY <2>1, <2>4, <3>1, <3>2, <1>4, <1>8, <1>9, <1>12
  <2> QED BY <2>2, <2>3, <2>4
<1>13. Rising(u, N, p)
  BY Zenon, <1>3, <1>4, <1>8, <1>9, <1>10, <1>11, <1>12 DEF Rising, RedOnly
<1>14. u.parent[p] = z /\ u.parent[z] = g /\ u.color[z] = "red" /\ SideOf(u, z) = s
       /\ u.child[Mirror(s)][g] = o
  <2>1. u.color[z] = "red"
    BY Zenon, <1>3, <1>9
  <2>2. u.parent[p] = z
    BY <1>3, <1>4, <1>5, <1>8, <1>10, ParentOf
  <2>3. u.child[s][g] = z
    BY <1>3, <1>4, <1>8
  <2>4. ChildFacts(u, N, TurnedBelow(t, s, p, z, y, B), g, s)
    BY <1>4, <1>10, ChildHas
  <2>5. z # Nil
    BY <1>3, <1>5
  <2> QED BY <2>1, <2>2, <2>3, <2>4, <2>5, <1>4, <1>5, <1>8 DEF ChildFacts
<1>15. UpFacts(u, N, p, z, g, s, o)
  BY <1>13, <1>14, UpHas
<1>16. \A M : N \subseteq M /\ Bare(t, M) => Bare(u, M)
  <2>1. z # Nil
    BY <1>3, <1>5
  <2> QED BY <2>1, <1>1, <1>4, <1>6, <1>7, TurnKeepsRest
<1> QED BY <1>8, <1>9, <1>13, <1>15, <1>16

\* The colour of n is black.
Black(t, n) == t.color[n] = "black"
\* c is the child of n on side s.
IsChild(t, s, n, c) == c = t.child[s][n]

\* Case 3: z is an outer node, and its parent takes the grandparent's place.
LEMMA OuterRises ==
  ASSUME NEW t, NEW N, NEW z, Rising(t, N, z), NEW p, NEW g, NEW s, NEW o,
         UpFacts(t, N, z, p, g, s, o), IsChild(t, s, p, z), Black(t, o),
         NEW u, u = Turned(t, s, p, g)
  PROVE  /\ Rising(u, N, z)
         /\ \A M : N \subseteq M /\ Bare(t, M) => Bare(u, M)
<1>1. PICK B : Shape(t, N, B)
  BY DEF Rising
<1>2. PICK H : Even(t, N, H, NoSpot)
  BY DEF Rising
<1>3. /\ z \in N /\ t.color[z] = "red" /\ t.color[Nil] = "black"
      /\ \A n \in N, r \in Side :
           t.color[n] = "red" /\ t.color[t.child[r][n]] = "red" => t.child[r][n] = z
  BY DEF Rising, RedOnly
<1>4. /\ p \in N /\ g \in N /\ s \in Side /\ p # t.root
      /\ t.parent[z] = p /\ t.parent[p] = g /\ t.child[s][g] = p
      /\ o = t.child[Mirror(s)][g] /\ o # p /\ o # g /\ o \in N \union {Nil}
      /\ t.color[p] = "red" /\ t.color[g] = "black" /\ t.color[t.root] = "black"
      /\ z # p /\ p # g /\ z # g /\ t.color[o] = "black"
      /\ z = t.child[s][p]
  BY DEF UpFacts, Black, IsChild
<1>5. /\ t \in Trees /\ N \subseteq Cells /\ Nil \in Cells /\ Nil \notin N
      /\ Mirror(s) \in Side /\ Mirror(s) # s /\ \A r \in Side : r = s \/ r = Mirror(s)
  BY <1>1, <1>4, Sides, CellsAreKeys DEF Shape, Links
<1>6. PICK m \in Side : m = Mirror(s) /\ Mirror(m) = s
  BY <1>4, <1>5, Sides
<1>7. PICK v : v = Paint(Paint(t, p, "black"), g, "red")
  OBVIOUS
<1>8. /\ SameLinks(t, v)
      /\ \A n \in Cells : v.color[n] = IF n = g THEN "red" ELSE IF n = p THEN "black"
                                       ELSE t.color[n]
  <2>1. PICK a : a = Paint(t, p, "black")
    OBVIOUS
  <2>2. ColorSet(t, p, "black", a)
    BY <2>1, <1>4, <1>5, SetColor
  <2>3. ColorSet(a, g, "red", v)
    <3>1. a \in Trees
      BY <2>2 DEF ColorSet
    <3> QED BY <3>1, <2>1, <1>4, <1>5, <1>7, SetColor
  <2> QED BY <2>2, <2>3 DEF ColorSet, SameLinks
<1>9. v.child = t.child /\ v.root = t.root /\ v.parent = t.parent /\ v \in Trees
  BY <1>8 DEF SameLinks
<1>10. Shape(v, N, B)
  BY <1>1, <1>8, PaintKeepsShape
<1>11. PICK i : i = t.child[Mirror(s)][p]
  OBVIOUS
<1>12. p # Nil /\ p = v.child[Mirror(m)][g] /\ i = v.child[m][p] /\ g \in N /\ p \in N
  BY <1>4, <1>5, <1>6, <1>9, <1>11
<1>13. Turn(v, m, g, p, i, u)
  <2>1. i \in Cells
    BY <1>4, <1>5, <1>11, TreeFields
  <2>2. u = Rotate(v, m, g)
    BY <1>6, <1>7 DEF Turned
  <2> QED BY Zenon, <2>1, <2>2, <1>4, <1>5, <1>9, <1>12, TurnRotates
<1>14. /\ i # g /\ i # p
       /\ u.root = IF t.root = g THEN p ELSE t.root
       /\ u.child[Mirror(s)][p] = g /\ u.child[s][p] = z
       /\ u.child[Mirror(s)][g] = o /\ u.child[s][g] = i
       /\ \A n \in N \ {p, g}, r \in Side :
            u.child[r][n] = IF t.child[r][n] = g THEN p ELSE t.child[r][n]
  <2>1. /\ i # g /\ i # p
        /\ u.root = IF v.root = g THEN p ELSE v.root
        /\ u.child[m][p] = g /\ u.child[Mirror(m)][p] = v.child[Mirror(m)][p]
        /\ u.child[m][g] = v.child[m][g] /\ u.child[Mirror(m)][g] = i
        /\ \A n \in Cells \ {g, p}, r \in Side :
             n \in N \union {Nil} => u.child[r][n] = IF v.child[r][n] = g THEN p ELSE v.child[r][n]
    <3>1. TurnedLinks(v, N, m, g, p, i, u)
      BY <1>10, <1>12, <1>13, TurnLinks
    <3> QED BY Zenon, <3>1 DEF TurnedLinks
  <2> QED BY <2>1, <1>4, <1>5, <1>6, <1>9
<1>15. \A n \in Cells : u.color[n] = IF n = g THEN "red" ELSE IF n = p THEN "black"
                                     ELSE t.color[n]
  BY <1>8, <1>13 DEF Turn
<1>16. Shape(u, N, TurnedBelow(v, m, g, p, i, B))
  BY <1>10, <1>12, <1>13, TurnKeepsBelow
<1>17. Even(u, N, TurnedHeight(H, g, p, H[p]), NoSpot)
  <2>1. /\ H \in [N \union {Nil} -> Nat] /\ H[Nil] = 0
        /\ \A n \in N, r \in Side : H[n] = H[t.child[r][n]] + Weight(t, n)
    <3>1. Shape(t, N, B) /\ Even(t, N, H, NoSpot)
      BY <1>1, <1>2
    <3>2. Heights(t, N, H)
      BY <3>1, EvenIs
    <3> QED BY <3>2 DEF Heights
  <2>2. Weight(t, p) = 0 /\ Weight(t, g) = 1 /\ Weight(v, p) = 1 /\ Weight(v, g) = 0
    BY <1>4, <1>5, <1>8 DEF Weight
  <2>3. H[p] \in Nat /\ H[g] \in Nat /\ H[i] \in Nat /\ H[o] \in Nat /\ H[z] \in Nat
    <3>1. i \in N \union {Nil}
      BY Zenon, <1>1, <1>4, <1>5, <1>11 DEF Shape, Links
    <3> QED BY <3>1, <2>1, <1>3, <1>4
  <2>4. H[g] = H[p] + 1 /\ H[g] = H[o] + 1 /\ H[p] = H[z] /\ H[p] = H[i]
    BY <2>1, <2>2, <2>3, <1>4, <1>5, <1>11
  <2>5. EvenBut(v, N, H, NoSpot, {g, p})
    <3>1. \A n \in N \ {g, p} : Weight(v, n) = Weight(t, n)
      BY <1>5, <1>8 DEF Weight
    <3> QED BY <3>1, <1>2, <1>9 DEF Even, EvenBut
  <2>6. \A n, r : Extra(NoSpot, n, r) = 0
    BY ExtraIs
  <2>7. /\ H[g] = H[p] + Extra(NoSpot, p, m) + Weight(v, p)
        /\ H[g] = H[v.child[Mirror(m)][p]] + Extra(NoSpot, p, Mirror(m)) + Weight(v, p)
        /\ H[p] = H[v.child[m][g]] + Extra(NoSpot, g, m) + Weight(v, g)
        /\ H[p] = H[i] + Extra(NoSpot, g, Mirror(m)) + Weight(v, g)
    <3>1. v.child[Mirror(m)][p] = z /\ v.child[m][g] = o
      BY <1>4, <1>6, <1>9
    <3> QED BY <3>1, <2>2, <2>3, <2>4, <2>6
  <2> QED BY Zenon, <2>3, <2>5, <2>7, <1>10, <1>12, <1>13, TurnKeepsEven
<1>18. ASSUME NEW n \in N, NEW r \in Side, u.color[n] = "red", u.color[u.child[r][n]] = "red"
       PROVE  u.child[r][n] = z
  <2>1. n # p
    BY <1>4, <1>5, <1>15, <1>18
  <2>2. n # g
    <3>1. u.color[o] # "red"
      BY <1>4, <1>5, <1>15
    <3>2. u.color[i] # "red"
      <4>1. i # z
        <5>1. ChildFacts(t, N, B, p, s)
          BY <1>1, <1>4, ChildHas
        <5> QED BY <5>1, <1>3, <1>4, <1>5, <1>11 DEF ChildFacts
      <4>2. t.color[i] # "red"
        BY <4>1, <1>3, <1>4, <1>5, <1>11
      <4>3. i \in Cells
        BY <1>4, <1>5, <1>11, TreeFields
      <4> QED BY Zenon, <4>2, <4>3, <1>14, <1>15
    <3>3. n = g => u.child[r][n] = o \/ u.child[r][n] = i
      BY <1>5, <1>14
    <3> QED BY <3>1, <3>2, <3>3, <1>18
  <2>3. PICK c : c = t.child[r][n]
    OBVIOUS
  <2>4. c \in N \union {Nil} /\ c \in Cells
    BY <2>3, <1>1, <1>5 DEF Shape, Links
  <2>5. c # p
    <3>1. c = p => t.parent[p] = n
      <4>1. Shape(t, N, B) /\ p # Nil
        BY <1>1, <1>12
      <4>2. ChildFacts(t, N, B, n, r)
        BY <4>1, ChildHas
      <4> QED BY <4>1, <4>2, <2>3 DEF ChildFacts
    <3> QED BY <2>2, <3>1, <1>4
  <2>6. u.child[r][n] = IF c = g THEN p ELSE c
    BY <2>1, <2>2, <2>3, <1>14
  <2>7. c # g
    BY <2>6, <1>4, <1>5, <1>15, <1>18
  <2>8. t.color[n] = "red" /\ t.color[c] = "red"
    BY <2>1, <2>2, <2>4, <2>5, <2>6, <2>7, <1>5, <1>15, <1>18
  <2> QED BY <2>3, <2>6, <2>7, <2>8, <1>3
<1>19. RedOnly(u, N, z)
  <2>1. u.color[Nil] = "black"
    BY <1>3, <1>4, <1>5, <1>15
  <2>2. u.color[u.root] # "red"
    <3>1. t.root \in Cells
      BY <1>5, TreeFields
    <3> QED BY <3>1, <1>4, <1>5, <1>14, <1>15
  <2> QED BY <2>1, <2>2, <1>18 DEF RedOnly
<1>20. u.color[z] = "red"
  BY <1>3, <1>4, <1>5, <1>15
<1>21. \A M : N \subseteq M /\ Bare(t, M) => Bare(u, M)
  <2>1. \A M : N \subseteq M /\ Bare(v, M) => Bare(u, M)
    BY <1>10, <1>12, <1>13, TurnKeepsRest
  <2> QED BY <2>1, <1>8, PaintKeepsShape
<1> QED BY <1>3, <1>16, <1>17, <1>19, <1>20, <1>21 DEF Rising

\* Two and three nodes are painted.
LEMMA PaintTwo ==
  ASSUME NEW t \in Trees, NEW a \in Cells, NEW b \in Cells,
         NEW c \in {"red", "black"}, NEW d \in {"red", "black"},
         NEW u, u = Paint(Paint(t, a, c), b, d)
  PROVE  /\ SameLinks(t, u)
         /\ \A n \in Cells : u.color[n] = IF n = b THEN d ELSE IF n = a THEN c ELSE t.color[n]
<1>1. PICK v : v = Paint(t, a, c)
  OBVIOUS
<1>2. ColorSet(t, a, c, v)
  BY <1>1, SetColor
<1>3. ColorSet(v, b, d, u)
  <2>1. v \in Trees /\ u = Paint(v, b, d)
    BY <1>1, <1>2 DEF ColorSet
  <2> QED BY <2>1, SetColor
<1> QED BY <1>2, <1>3 DEF ColorSet, SameLinks

\* a, b and e, in this order, are painted c, d and h.
ThreePainted(t, a, c, b, d, e, h, u) ==
  \A n \in Cells : u.color[n] = IF n = e THEN h ELSE IF n = b THEN d
                                ELSE IF n = a THEN c ELSE t.color[n]

\* Three assignments to n->color, one after the other.
LEMMA PaintThree ==
  ASSUME NEW t \in Trees, NEW a \in Cells, NEW b \in Cells, NEW e \in Cells,
         NEW c \in {"red", "black"}, NEW d \in {"red", "black"}, NEW h \in {"red", "black"},
         NEW u, u = Paint(Paint(Paint(t, a, c), b, d), e, h)
  PROVE  SameLinks(t, u) /\ ThreePainted(t, a, c, b, d, e, h, u)
<1>1. PICK v : v = Paint(Paint(t, a, c), b, d)
  OBVIOUS
<1>2. /\ SameLinks(t, v)
      /\ \A n \in Cells : v.color[n] = IF n = b THEN d ELSE IF n = a THEN c ELSE t.color[n]
  BY <1>1, PaintTwo
<1>3. ColorSet(v, e, h, u)
  <2>1. v \in Trees /\ u = Paint(v, e, h)
    BY <1>1, <1>2 DEF SameLinks
  <2> QED BY <2>1, SetColor
<1> QED BY <1>2, <1>3 DEF ColorSet, SameLinks, ThreePainted

-----------------------------------------------------------------------------
\* erase_fixup.

\* The tree in the loop of erase_fixup: a black node is missing at x, and red nodes
\* meet at x only.
Deficit(t, N, x) ==
  /\ \E B : Shape(t, N, B)
  /\ Loose(t, N) /\ Gap(t, N, x, "black")
  /\ t.color[Nil] = "black"
  /\ \A n \in N, r \in Side :
       t.color[n] = "red" /\ t.color[t.child[r][n]] = "red" => x \in {n, t.child[r][n]}
  /\ t.color[t.root] = "red" => t.root = x

\* What the body of the loop keeps until its last step: x is black and on side s of p,
\* w is on the other side.
Low(t, N, x, p, s, w, H) ==
  /\ \E B : Shape(t, N, B)
  /\ Loose(t, N) /\ NoRed(t, N)
  /\ Even(t, N, H, <<p, s>>)
  /\ p \in N /\ s \in Side /\ w \in N /\ x \in N \union {Nil}
  /\ t.parent[x] = p /\ t.child[s][p] = x /\ t.child[Mirror(s)][p] = w
  /\ t.color[x] = "black"

\* The nodes around x, the near and the far child of w, and their black heights.
LowFacts(t, N, x, p, s, w, a, f, H) ==
  /\ t \in Trees /\ N \subseteq Cells /\ Nil \in Cells /\ Nil \notin N
  /\ Mirror(s) \in Side /\ Mirror(s) # s /\ \A r \in Side : r = s \/ r = Mirror(s)
  /\ w # p /\ x # p /\ x # w /\ t.parent[w] = p
  /\ a \in N \union {Nil} /\ f \in N \union {Nil} /\ a \in Cells /\ f \in Cells
  /\ a # w /\ a # p /\ f # w /\ f # p /\ (a # Nil => t.parent[a] = w /\ a # x /\ a # f)
  /\ (f # Nil => t.parent[f] = w /\ f # x)
  /\ H \in [N \union {Nil} -> Nat] /\ H[Nil] = 0
  /\ H[p] = H[x] + 1 + Weight(t, p) /\ H[p] = H[w] + Weight(t, p)
  /\ H[w] = H[a] + Weight(t, w) /\ H[w] = H[f] + Weight(t, w)
  /\ \A n \in {a, f, p, w, x} : H[n] \in Nat /\ Weight(t, n) \in {0, 1}

\* What is known in erase_fixup of the sibling w of the node that misses a black one: w is a node,
\* with two children to look at.
LEMMA LowHas ==
  ASSUME NEW t, NEW N, NEW x, NEW p, NEW s, NEW w, NEW H, Low(t, N, x, p, s, w, H),
         NEW a, a = t.child[s][w], NEW f, f = t.child[Mirror(s)][w]
  PROVE  LowFacts(t, N, x, p, s, w, a, f, H)
<1>1. PICK B : Shape(t, N, B)
  BY DEF Low
<1>2. /\ p \in N /\ s \in Side /\ w \in N /\ x \in N \union {Nil}
      /\ t.parent[x] = p /\ t.child[s][p] = x /\ t.child[Mirror(s)][p] = w
  BY DEF Low
<1>3. /\ t \in Trees /\ N \subseteq Cells /\ Nil \in Cells /\ Nil \notin N
      /\ Mirror(s) \in Side /\ Mirror(s) # s /\ \A r \in Side : r = s \/ r = Mirror(s)
      /\ Mirror(Mirror(s)) = s
  BY <1>1, <1>2, Sides, CellsAreKeys DEF Shape, Links
<1>4. ChildFacts(t, N, B, p, s) /\ ChildFacts(t, N, B, p, Mirror(s))
  BY <1>1, <1>2, <1>3, ChildHas
<1>5. ChildFacts(t, N, B, w, s) /\ ChildFacts(t, N, B, w, Mirror(s))
  BY <1>1, <1>2, <1>3, ChildHas
<1>6. w # p /\ x # p /\ x # w /\ t.parent[w] = p
  BY <1>2, <1>3, <1>4 DEF ChildFacts
<1>7. a \in N \union {Nil} /\ f \in N \union {Nil} /\ a \in Cells /\ f \in Cells /\ a # w /\ f # w
  BY <1>5 DEF ChildFacts
<1>8. (a # Nil => t.parent[a] = w) /\ (f # Nil => t.parent[f] = w) /\ (a # Nil => a # f)
  BY <1>5 DEF ChildFacts
<1>9. a # p /\ f # p
  <2>1. p \notin B[w]
    BY <1>2, <1>4 DEF ChildFacts
  <2>2. B[w] = {w} \union B[a] \union B[f]
    BY <1>5 DEF ChildFacts
  <2>3. p \in B[p]
    BY <1>1, <1>2, NodeHas DEF NodeFacts
  <2> QED BY <2>1, <2>2, <2>3
<1>10. (a # Nil => a # x) /\ (f # Nil => f # x)
  BY <1>2, <1>6, <1>8
<1>11. /\ H \in [N \union {Nil} -> Nat] /\ H[Nil] = 0
       /\ \A n \in N, r \in Side : H[n] = H[t.child[r][n]] + Extra(<<p, s>>, n, r) + Weight(t, n)
  BY DEF Low, Even, EvenBut
<1>12. \A n : Weight(t, n) \in {0, 1}
  BY ExtraIs
<1>13. H[p] \in Nat /\ H[x] \in Nat /\ H[w] \in Nat /\ H[a] \in Nat /\ H[f] \in Nat
  BY <1>2, <1>7, <1>11
<1>14. H[p] = H[x] + 1 + Weight(t, p) /\ H[p] = H[w] + Weight(t, p)
  <2>1. Extra(<<p, s>>, p, s) = 1 /\ Extra(<<p, s>>, p, Mirror(s)) = 0
    BY <1>3, ExtraIs
  <2>2. /\ H[p] = H[t.child[s][p]] + Extra(<<p, s>>, p, s) + Weight(t, p)
        /\ H[p] = H[t.child[Mirror(s)][p]] + Extra(<<p, s>>, p, Mirror(s)) + Weight(t, p)
    BY <1>2, <1>3, <1>11
  <2>3. H[p] = H[w] + 0 + Weight(t, p)
    BY <2>1, <2>2, <1>2
  <2>4. H[w] + 0 = H[w]
    BY <1>13
  <2> QED BY <2>1, <2>2, <2>3, <2>4, <1>2
<1>15. H[w] = H[a] + Weight(t, w) /\ H[w] = H[f] + Weight(t, w)
  <2>1. Extra(<<p, s>>, w, s) = 0 /\ Extra(<<p, s>>, w, Mirror(s)) = 0
    BY <1>6, ExtraIs
  <2>2. /\ H[w] = H[a] + Extra(<<p, s>>, w, s) + Weight(t, w)
        /\ H[w] = H[f] + Extra(<<p, s>>, w, Mirror(s)) + Weight(t, w)
    BY <1>2, <1>3, <1>11
  <2>3. H[w] = H[a] + 0 + Weight(t, w) /\ H[w] = H[f] + 0 + Weight(t, w)
    BY <2>1, <2>2
  <2>4. H[a] + 0 = H[a] /\ H[f] + 0 = H[f]
    BY <1>13
  <2> QED BY <2>3, <2>4
<1>16. \A n \in {a, f, p, w, x} : H[n] \in Nat /\ Weight(t, n) \in {0, 1}
  BY <1>12, <1>13
<1> QED BY <1>3, <1>6, <1>7, <1>8, <1>9, <1>10, <1>11, <1>14, <1>15, <1>16 DEF LowFacts

\* One black node more at x: its sibling is a node, so that x is on the side its parent
\* says, also if x is the sentinel.
LEMMA SpotSide ==
  ASSUME NEW t, NEW N, NEW B, Shape(t, N, B), NEW p \in N, NEW q \in Side, NEW x \in N \union {Nil},
         t.parent[x] = p, t.child[q][p] = x, NEW H, Even(t, N, H, <<p, q>>)
  PROVE  SideOf(t, x) = q /\ t.child[Mirror(q)][p] \in N
<1>1. Mirror(q) \in Side /\ Mirror(q) # q
  BY Sides
<1>2. PICK v : v = t.child[Mirror(q)][p]
  OBVIOUS
<1>3. v # Nil /\ v \in N
  <2>1. v \in N \union {Nil}
    BY <1>1, <1>2, ChildHas DEF ChildFacts
  <2>2. /\ H \in [N \union {Nil} -> Nat] /\ H[Nil] = 0
        /\ H[p] = H[x] + Extra(<<p, q>>, p, q) + Weight(t, p)
        /\ H[p] = H[v] + Extra(<<p, q>>, p, Mirror(q)) + Weight(t, p)
    BY <1>1, <1>2 DEF Even, EvenBut
  <2>3. Extra(<<p, q>>, p, q) = 1 /\ Extra(<<p, q>>, p, Mirror(q)) = 0 /\ Weight(t, p) \in {0, 1}
    BY <1>1, ExtraIs
  <2>4. H[x] \in Nat /\ H[v] \in Nat
    BY <2>1, <2>2
  <2>5. v # Nil
    <3>1. H[v] # 0
      BY <2>2, <2>3, <2>4
    <3> QED BY <3>1, <2>2
  <2> QED BY <2>1, <2>5
<1>4. SideOf(t, x) = q
  <2>1. CASE x # Nil
    <3>1. ChildFacts(t, N, B, p, q)
      BY ChildHas
    <3> QED BY <3>1, <2>1 DEF ChildFacts
  <2>2. CASE x = Nil
    <3>1. q = "left" => SideOf(t, x) = "left"
      BY DEF SideOf
    <3>2. q = "right" => SideOf(t, x) = "right"
      <4>1. q = "right" => t.child["left"][p] # Nil
        BY <1>2, <1>3, CellsAreKeys
      <4> QED BY <4>1, <2>2 DEF SideOf
    <3> QED BY <3>1, <3>2, Sides
  <2> QED BY <2>1, <2>2
<1> QED BY <1>2, <1>3, <1>4

\* The loop's condition holds: x has a sibling, also if x is the sentinel.
LEMMA LowFrom ==
  ASSUME NEW t, NEW N, NEW x, Deficit(t, N, x), x # t.root, Black(t, x),
         NEW p, p = t.parent[x], NEW s, s = SideOf(t, x), NEW w, w = t.child[Mirror(s)][p]
  PROVE  \E H : Low(t, N, x, p, s, w, H)
<1>1. PICK B : Shape(t, N, B)
  BY DEF Deficit
<1>2. PICK g \in N, q \in Side :
        t.parent[x] = g /\ t.child[q][g] = x /\ \E H : Even(t, N, H, <<g, q>>)
  BY DEF Deficit, Gap
<1>3. g = p /\ p \in N /\ t.child[q][p] = x /\ Mirror(q) \in Side /\ Mirror(q) # q
  BY <1>2, Sides
<1>4. x \in N \union {Nil} /\ Loose(t, N)
  BY DEF Deficit, Gap
<1>5. PICK H : SideOf(t, x) = q /\ t.child[Mirror(q)][p] \in N /\ Even(t, N, H, <<p, q>>)
  BY <1>1, <1>2, <1>3, <1>4, SpotSide
<1>6. s = q
  BY <1>5
<1>7. NoRed(t, N)
  <2>1. /\ t.color[Nil] = "black" /\ t.color[x] = "black"
        /\ \A n \in N, r \in Side :
             t.color[n] = "red" /\ t.color[t.child[r][n]] = "red" => x \in {n, t.child[r][n]}
        /\ t.color[t.root] # "red"
    BY DEF Deficit, Black
  <2>2. t.color[t.root] = "black"
    <3>1. t \in Trees
      BY <1>1 DEF Shape, Links
    <3> QED BY <3>1, <2>1, TreeFields
  <2> QED BY <2>1, <2>2 DEF NoRed
<1>8. w \in N /\ t.parent[x] = p /\ t.child[s][p] = x /\ t.child[Mirror(s)][p] = w
  BY <1>3, <1>5, <1>6
<1>9. Low(t, N, x, p, s, w, H)
  BY <1>1, <1>2, <1>3, <1>4, <1>5, <1>6, <1>7, <1>8 DEF Low, Black
<1> QED BY <1>9

\* The colour of n is red.
Red(t, n) == t.color[n] = "red"

\* Case 1: a red sibling goes above p, and its near child, which is black, is the new one.
LEMMA RedSiblingTurns ==
  ASSUME NEW t, NEW N, NEW x, NEW p, NEW s, NEW w, NEW H, Low(t, N, x, p, s, w, H),
         Red(t, w), NEW u, u = Rotate(Paint(Paint(t, w, "black"), p, "red"), s, p)
  PROVE  /\ \E a, D : Low(u, N, x, p, s, a, D) /\ Black(u, a)
         /\ \A M : N \subseteq M /\ Bare(t, M) => Bare(u, M)
<1>1. PICK B : Shape(t, N, B)
  BY DEF Low
<1>2. PICK a, f : a = t.child[s][w] /\ f = t.child[Mirror(s)][w]
  OBVIOUS
<1>3. LowFacts(t, N, x, p, s, w, a, f, H)
  BY <1>2, LowHas
<1>4. /\ p \in N /\ s \in Side /\ w \in N /\ x \in N \union {Nil} /\ t.parent[x] = p
      /\ t.child[s][p] = x /\ t.child[Mirror(s)][p] = w /\ t.color[x] = "black"
      /\ t.color[w] = "red"
  BY DEF Low, Red
<1>5. /\ t.color[Nil] = "black" /\ t.color[t.root] = "black"
      /\ \A n \in N, r \in Side : ~(t.color[n] = "red" /\ t.color[t.child[r][n]] = "red")
  BY DEF Low, NoRed
<1>6. /\ t \in Trees /\ N \subseteq Cells /\ Nil \in Cells /\ Nil \notin N
      /\ Mirror(s) \in Side /\ Mirror(s) # s /\ \A r \in Side : r = s \/ r = Mirror(s)
      /\ w # p /\ x # p /\ x # w /\ t.parent[w] = p
      /\ a \in N \union {Nil} /\ a \in Cells /\ a # w /\ a # p /\ (a # Nil => a # x)
  BY <1>3 DEF LowFacts
<1>7. /\ H[p] \in Nat /\ H[w] \in Nat /\ H[x] \in Nat /\ H[a] \in Nat /\ H[f] \in Nat
      /\ H[p] = H[w] + 1 /\ H[w] = H[x] + 1 /\ H[w] = H[a] /\ H[w] = H[f] /\ a # Nil
  <2>1. Weight(t, w) = 0
    BY <1>4 DEF Weight
  <2>2. Weight(t, p) = 1
    <3>1. t.color[p] # "red"
      BY <1>4, <1>5, <1>6
    <3> QED BY <3>1, <1>4, <1>6, TreeFields DEF Weight
  <2>3. /\ H[Nil] = 0
        /\ H[p] = H[x] + 1 + Weight(t, p) /\ H[p] = H[w] + Weight(t, p)
        /\ H[w] = H[a] + Weight(t, w) /\ H[w] = H[f] + Weight(t, w)
        /\ H[p] \in Nat /\ H[w] \in Nat /\ H[x] \in Nat /\ H[a] \in Nat /\ H[f] \in Nat
    BY <1>3 DEF LowFacts
  <2>4. /\ H[p] = H[w] + 1 /\ H[w] = H[x] + 1 /\ H[w] = H[a] /\ H[w] = H[f] /\ H[a] # 0
    BY <2>1, <2>2, <2>3
  <2> QED BY <2>3, <2>4
<1>8. PICK v : v = Paint(Paint(t, w, "black"), p, "red")
  OBVIOUS
<1>9. /\ SameLinks(t, v)
      /\ \A n \in Cells : v.color[n] = IF n = p THEN "red" ELSE IF n = w THEN "black"
                                       ELSE t.color[n]
  <2>1. p \in Cells /\ w \in Cells
    BY <1>4, <1>6
  <2> QED BY <2>1, <1>6, <1>8, PaintTwo
<1>10. v.child = t.child /\ v.root = t.root /\ v.parent = t.parent /\ v \in Trees
  BY <1>9 DEF SameLinks
<1>11. Shape(v, N, B)
  BY <1>1, <1>9, PaintKeepsShape
<1>12. w = v.child[Mirror(s)][p] /\ a = v.child[s][w] /\ w # Nil
  BY <1>2, <1>4, <1>6, <1>10
<1>13. Turn(v, s, p, w, a, u)
  BY Zenon, <1>4, <1>6, <1>8, <1>10, <1>12, TurnRotates
<1>14. /\ u.root = IF v.root = p THEN w ELSE v.root
       /\ u.child[s][w] = p /\ u.child[s][p] = v.child[s][p] /\ u.child[Mirror(s)][p] = a
       /\ \A n \in Cells \ {p, w}, r \in Side :
            n \in N \union {Nil} => u.child[r][n] = IF v.child[r][n] = p THEN w ELSE v.child[r][n]
  <2>1. TurnedLinks(v, N, s, p, w, a, u)
    BY <1>4, <1>11, <1>12, <1>13, TurnLinks
  <2> QED BY Zenon, <2>1 DEF TurnedLinks
<1>15. u.root = (IF t.root = p THEN w ELSE t.root) /\ u.child[s][p] = x
  BY <1>4, <1>10, <1>14
<1>16. \A n \in N \ {p, w}, r \in Side :
         u.child[r][n] = IF t.child[r][n] = p THEN w ELSE t.child[r][n]
  BY <1>6, <1>10, <1>14
<1>17. /\ \A n \in Cells : u.color[n] = IF n = p THEN "red" ELSE IF n = w THEN "black"
                                        ELSE t.color[n]
       /\ u.parent[x] = p
  <2>1. /\ u.color = v.color
        /\ \A n \in Cells :
             u.parent[n] = IF n = a /\ a # Nil THEN p
                           ELSE IF n = p THEN w
                           ELSE IF n = w THEN v.parent[p] ELSE v.parent[n]
    BY <1>13 DEF Turn
  <2>2. x \in Cells /\ x # p /\ x # w /\ x # a
    BY <1>4, <1>6, <1>7
  <2> QED BY <2>1, <2>2, <1>4, <1>9, <1>10
<1>18. u.color[a] = "black"
  <2>1. t.color[a] # "red"
    BY <1>2, <1>4, <1>5
  <2> QED BY <2>1, <1>6, <1>17, TreeFields
<1>19. NoRed(u, N)
  <2>1. u.color[Nil] = "black"
    BY <1>4, <1>5, <1>6, <1>17
  <2>2. u.color[u.root] = "black"
    <3>1. t.root \in Cells /\ w \in Cells
      BY <1>4, <1>6, TreeFields
    <3> QED BY <3>1, <1>5, <1>6, <1>15, <1>17
  <2>3. ASSUME NEW n \in N, NEW r \in Side, u.color[n] = "red", u.color[u.child[r][n]] = "red"
        PROVE  FALSE
    <3>1. n # w
      BY <2>3, <1>4, <1>6, <1>17
    <3>2. n # p
      <4>1. u.color[x] = "black"
        BY <1>4, <1>6, <1>17
      <4>2. u.child[s][p] = x /\ u.child[Mirror(s)][p] = a
        BY <1>14, <1>15
      <4> QED BY <4>1, <4>2, <2>3, <1>6, <1>18
    <3>3. PICK c : c = t.child[r][n]
      OBVIOUS
    <3>4. c \in Cells
      BY <3>3, <1>6, TreeFields
    <3>5. u.child[r][n] = IF c = p THEN w ELSE c
      BY <3>1, <3>2, <3>3, <1>16
    <3>6. u.color[w] = "black" /\ t.color[n] = "red"
      BY <3>1, <3>2, <2>3, <1>4, <1>6, <1>17
    <3>7. c # p /\ c # w
      BY <3>5, <3>6, <2>3
    <3>8. t.color[c] = "red"
      BY <3>4, <3>5, <3>7, <2>3, <1>17
    <3> QED BY <3>3, <3>6, <3>8, <1>5
  <2> QED BY <2>1, <2>2, <2>3 DEF NoRed
<1>20. PICK D : D = TurnedHeight(H, p, w, H[w])
  OBVIOUS
<1>21. Even(u, N, D, <<p, s>>)
  <2>1. /\ Extra(<<p, s>>, w, s) = 0 /\ Extra(<<p, s>>, w, Mirror(s)) = 0
        /\ Extra(<<p, s>>, p, s) = 1 /\ Extra(<<p, s>>, p, Mirror(s)) = 0
    BY <1>6, ExtraIs
  <2>2. Weight(v, w) = 1 /\ Weight(v, p) = 0
    BY <1>4, <1>6, <1>9 DEF Weight
  <2>3. EvenBut(v, N, H, <<p, s>>, {p, w})
    <3>1. Even(t, N, H, <<p, s>>)
      BY DEF Low
    <3>2. \A n \in N \ {p, w} : Weight(v, n) = Weight(t, n)
      BY <1>6, <1>9 DEF Weight
    <3> QED BY <3>1, <3>2, <1>10 DEF Even, EvenBut
  <2>4. v.child[Mirror(s)][w] = f /\ v.child[s][p] = x
    BY <1>2, <1>4, <1>10
  <2>5. /\ H[p] = H[w] + Extra(<<p, s>>, w, s) + Weight(v, w)
        /\ H[p] = H[v.child[Mirror(s)][w]] + Extra(<<p, s>>, w, Mirror(s)) + Weight(v, w)
        /\ H[w] = H[v.child[s][p]] + Extra(<<p, s>>, p, s) + Weight(v, p)
        /\ H[w] = H[a] + Extra(<<p, s>>, p, Mirror(s)) + Weight(v, p)
    BY <2>1, <2>2, <2>4, <1>7
  <2>6. p \in N /\ s \in Side /\ H[w] \in Nat
    BY <1>4, <1>7
  <2> QED BY Zenon, <2>3, <2>5, <2>6, <1>11, <1>12, <1>13, <1>20, TurnKeepsEven
<1>22. Shape(u, N, TurnedBelow(v, s, p, w, a, B))
  BY Zenon, <1>4, <1>11, <1>12, <1>13, TurnKeepsBelow
<1>23. (\A M : N \subseteq M /\ Bare(v, M) => Bare(u, M)) /\ (Loose(v, N) => Loose(u, N))
  BY <1>4, <1>11, <1>12, <1>13, TurnKeepsRest
<1>24. Loose(u, N)
  BY <1>9, <1>23, PaintKeepsShape DEF Low
<1>25. \A M : N \subseteq M /\ Bare(t, M) => Bare(u, M)
  BY <1>9, <1>23, PaintKeepsShape
<1>26. a \in N /\ u.color[x] = "black"
  BY <1>4, <1>6, <1>7, <1>17
<1>27. Low(u, N, x, p, s, a, D)
  BY <1>4, <1>14, <1>15, <1>17, <1>19, <1>21, <1>22, <1>24, <1>26 DEF Low
<1> QED BY <1>18, <1>25, <1>27 DEF Black

\* Case 2: painting a sibling red whose children are black moves the gap up to p.
LEMMA PaintedRises ==
  ASSUME NEW t, NEW N, NEW x, NEW p, NEW s, NEW w, NEW H, Low(t, N, x, p, s, w, H),
         Black(t, w), \A r \in Side : Black(t, t.child[r][w]), NEW u, u = Paint(t, w, "red")
  PROVE  Deficit(u, N, p) /\ SameLinks(t, u)
<1>1. PICK B : Shape(t, N, B)
  BY DEF Low
<1>2. PICK a, f : a = t.child[s][w] /\ f = t.child[Mirror(s)][w]
  OBVIOUS
<1>3. LowFacts(t, N, x, p, s, w, a, f, H)
  BY <1>2, LowHas
<1>4. /\ p \in N /\ s \in Side /\ w \in N /\ x \in N \union {Nil} /\ t.parent[x] = p
      /\ t.child[s][p] = x /\ t.child[Mirror(s)][p] = w /\ t.color[w] = "black"
  BY DEF Low, Black
<1>5. /\ t.color[Nil] = "black" /\ t.color[t.root] = "black"
      /\ \A n \in N, r \in Side : ~(t.color[n] = "red" /\ t.color[t.child[r][n]] = "red")
  BY DEF Low, NoRed
<1>6. /\ t \in Trees /\ N \subseteq Cells /\ Nil \in Cells /\ Nil \notin N
      /\ Mirror(s) \in Side /\ Mirror(s) # s /\ \A r \in Side : r = s \/ r = Mirror(s)
      /\ w # p /\ x # p /\ x # w /\ t.parent[w] = p
  BY <1>3 DEF LowFacts
<1>7. /\ SameLinks(t, u)
      /\ \A n \in Cells : u.color[n] = IF n = w THEN "red" ELSE t.color[n]
  <2>1. ColorSet(t, w, "red", u)
    BY <1>4, <1>6, SetColor
  <2> QED BY <2>1 DEF ColorSet, SameLinks
<1>8. u.child = t.child /\ u.root = t.root /\ u.parent = t.parent /\ u \in Trees
  BY <1>7 DEF SameLinks
<1>9. Shape(u, N, B) /\ Loose(u, N)
  BY <1>1, <1>7, PaintKeepsShape DEF Low
<1>10. ASSUME NEW n \in N, NEW r \in Side, u.color[n] = "red", u.color[u.child[r][n]] = "red"
       PROVE  p \in {n, u.child[r][n]}
  <2>1. PICK c : c = t.child[r][n]
    OBVIOUS
  <2>2. c \in Cells
    BY <2>1, <1>6, TreeFields
  <2>3. n # w
    <3>1. n = w => t.color[c] = "black" /\ c # w
      <4>1. ChildFacts(t, N, B, w, r)
        BY <1>1, <1>4, ChildHas
      <4> QED BY <4>1, <2>1 DEF Black, ChildFacts
    <3> QED BY <3>1, <2>1, <2>2, <1>7, <1>8, <1>10
  <2>4. c = w
    BY <2>1, <2>2, <2>3, <1>5, <1>6, <1>7, <1>8, <1>10
  <2>5. t.parent[c] = n
    <3>1. ChildFacts(t, N, B, n, r)
      BY <1>1, ChildHas
    <3> QED BY <3>1, <2>1, <2>4, <1>4, <1>6 DEF ChildFacts
  <2> QED BY <2>4, <2>5, <1>6
<1>11. w # t.root /\ u.color[t.root] # "red"
  <2>1. w # t.root
    <3>1. NodeFacts(t, N, B, w)
      BY <1>1, <1>4, NodeHas
    <3> QED BY <3>1, <1>4, <1>6 DEF NodeFacts
  <2>2. t.root \in Cells
    BY <1>6, TreeFields
  <2> QED BY <2>1, <2>2, <1>5, <1>7
<1>12. PICK D : D = [n \in N \union {Nil} |-> IF n = p \/ n = w THEN H[n] - 1 ELSE H[n]]
  OBVIOUS
<1>13. /\ H \in [N \union {Nil} -> Nat] /\ H[Nil] = 0
       /\ H[p] = H[x] + 1 + Weight(t, p) /\ H[p] = H[w] + Weight(t, p) /\ H[w] = H[x] + 1
       /\ H[w] = H[a] + 1 /\ H[w] = H[f] + 1
       /\ H[p] \in Nat /\ H[w] \in Nat /\ H[x] \in Nat /\ H[a] \in Nat /\ H[f] \in Nat
       /\ Weight(t, p) \in {0, 1} /\ Weight(u, p) = Weight(t, p)
  <2>1. Weight(t, w) = 1
    BY <1>4 DEF Weight
  <2>2. /\ H \in [N \union {Nil} -> Nat] /\ H[Nil] = 0
        /\ H[p] = H[x] + 1 + Weight(t, p) /\ H[p] = H[w] + Weight(t, p)
        /\ H[w] = H[a] + Weight(t, w) /\ H[w] = H[f] + Weight(t, w)
        /\ H[p] \in Nat /\ H[w] \in Nat /\ H[x] \in Nat /\ H[a] \in Nat /\ H[f] \in Nat
        /\ Weight(t, p) \in {0, 1}
    BY <1>3 DEF LowFacts
  <2>3. Weight(u, p) = Weight(t, p)
    BY <1>4, <1>6, <1>7 DEF Weight
  <2>4. H[w] = H[x] + 1
    BY <2>2
  <2> QED BY <2>1, <2>2, <2>3, <2>4
<1>14. /\ D \in [N \union {Nil} -> Nat] /\ D[Nil] = 0
       /\ D[p] = H[x] + Weight(t, p) /\ D[w] = H[x] /\ D[x] = H[x]
       /\ \A n \in N \union {Nil} : n # p /\ n # w => D[n] = H[n]
  <2>1. \A n \in N \union {Nil} : (n = p \/ n = w) => H[n] - 1 \in Nat
    BY <1>13
  <2>2. \A n \in N \union {Nil} : D[n] = IF n = p \/ n = w THEN H[n] - 1 ELSE H[n]
    BY <1>12
  <2>3. \A n \in N \union {Nil} : D[n] \in Nat
    BY <2>1, <2>2, <1>13
  <2>4. D \in [N \union {Nil} -> Nat]
    BY <2>3, <1>12
  <2> QED BY <2>2, <2>4, <1>4, <1>6, <1>13
<1>15. \A n \in N \ {p, w}, r \in Side : H[n] = H[t.child[r][n]] + Weight(t, n)
  <2>1. ASSUME NEW n \in N \ {p, w}, NEW r \in Side
        PROVE  H[n] = H[t.child[r][n]] + Weight(t, n)
    <3>1. H[n] = H[t.child[r][n]] + Extra(<<p, s>>, n, r) + Weight(t, n)
      BY DEF Low, Even, EvenBut
    <3>2. Extra(<<p, s>>, n, r) = 0
      BY ExtraIs
    <3>3. H[t.child[r][n]] \in Nat
      <4>1. t.child[r][n] \in N \union {Nil}
        BY <1>1 DEF Shape, Links
      <4> QED BY <4>1, <1>13
    <3> QED BY <3>1, <3>2, <3>3, ExtraIs
  <2> QED BY <2>1
\* Where D is right: everywhere but at the link to p.
<1>16. ASSUME NEW n \in N, NEW r \in Side, t.child[r][n] # p
       PROVE  D[n] = D[u.child[r][n]] + Weight(u, n) /\ D[u.child[r][n]] \in Nat
  <2>1. PICK c : c = t.child[r][n]
    OBVIOUS
  <2>2. c \in N \union {Nil} /\ u.child[r][n] = c /\ c # p
    BY <2>1, <1>1, <1>8, <1>16 DEF Shape, Links
  <2>3. D[c] \in Nat
    BY <2>2, <1>14
  <2>4. CASE n = p
    <3>1. c = x \/ c = w
      BY <2>1, <2>4, <1>4, <1>6
    <3> QED BY <3>1, <2>2, <2>3, <2>4, <1>13, <1>14
  <2>5. CASE n = w
    <3>1. c = a \/ c = f
      BY <2>1, <2>5, <1>2, <1>6
    <3>2. c # w /\ D[c] = H[c]
      <4>1. a # w /\ f # w
        BY <1>3 DEF LowFacts
      <4> QED BY <4>1, <3>1, <2>2, <1>14
    <3>3. Weight(u, w) = 0
      BY <1>4, <1>6, <1>7 DEF Weight
    <3> QED BY <3>1, <3>2, <3>3, <2>2, <2>3, <2>5, <1>13, <1>14
  <2>6. CASE n \notin {p, w}
    <3>1. c # w
      <4>1. ChildFacts(t, N, B, n, r)
        BY <1>1, ChildHas
      <4> QED BY <4>1, <2>1, <2>6, <1>4, <1>6 DEF ChildFacts
    <3>2. Weight(u, n) = Weight(t, n)
      BY <2>6, <1>6, <1>7 DEF Weight
    <3>3. H[n] = H[c] + Weight(t, n)
      BY <2>1, <2>6, <1>15
    <3>4. D[n] = H[n] /\ D[c] = H[c]
      BY <3>1, <2>2, <2>6, <1>14
    <3> QED BY <3>2, <3>3, <3>4, <2>2, <2>3
  <2> QED BY <2>4, <2>5, <2>6
<1>17. \A n : Weight(u, n) \in {0, 1}
  BY ExtraIs
<1>18. Gap(u, N, p, "black")
  <2>1. NodeFacts(t, N, B, p)
    BY <1>1, <1>4, NodeHas
  <2>2. CASE p = t.root
    <3>1. ASSUME NEW n \in N, NEW r \in Side
          PROVE  D[n] = D[u.child[r][n]] + Extra(NoSpot, n, r) + Weight(u, n)
      <4>1. t.child[r][n] # p
        <5>1. ChildFacts(t, N, B, n, r)
          BY <1>1, ChildHas
        <5> QED BY <5>1, <2>2, <1>4, <1>6 DEF ChildFacts
      <4>2. Extra(NoSpot, n, r) = 0
        BY ExtraIs
      <4> QED BY <4>1, <4>2, <1>16, <1>17
    <3>2. Even(u, N, D, NoSpot)
      BY <3>1, <1>14 DEF Even, EvenBut
    <3> QED BY <3>2, <2>2, <1>4, <1>8 DEF Gap
  <2>3. CASE p # t.root
    <3>1. PICK g \in N, q \in Side : t.parent[p] = g /\ q = SideOf(t, p) /\ t.child[q][g] = p
      BY <2>1, <2>3 DEF NodeFacts
    <3>2. g # p /\ g # w
      <4>1. ChildFacts(t, N, B, g, q) /\ a # p /\ f # p
        BY <3>1, <1>1, <1>3, ChildHas DEF LowFacts
      <4> QED BY <4>1, <3>1, <1>2, <1>6 DEF ChildFacts
    <3>3. ASSUME NEW n \in N, NEW r \in Side
          PROVE  D[n] = D[u.child[r][n]] + Extra(<<g, q>>, n, r) + Weight(u, n)
      <4>1. CASE t.child[r][n] # p
        <5>1. ~(n = g /\ r = q)
          BY <4>1, <3>1
        <5>2. Extra(<<g, q>>, n, r) = 0
          BY <5>1, ExtraIs
        <5> QED BY <4>1, <5>2, <1>16, <1>17
      <4>2. CASE t.child[r][n] = p
        <5>1. n = g /\ r = q
          <6>1. ChildFacts(t, N, B, n, r)
            BY <1>1, ChildHas
          <6> QED BY <6>1, <4>2, <3>1, <1>4, <1>6 DEF ChildFacts
        <5>2. Extra(<<g, q>>, n, r) = 1
          BY <5>1, ExtraIs
        <5>3. H[g] = H[p] + Weight(t, g) /\ Weight(u, g) = Weight(t, g)
          <6>1. Weight(u, g) = Weight(t, g)
            BY <3>2, <1>6, <1>7 DEF Weight
          <6> QED BY <6>1, <3>1, <3>2, <1>15
        <5>4. D[g] = H[g] /\ H[p] = D[p] + 1 /\ D[p] \in Nat
          BY <3>2, <1>4, <1>13, <1>14
        <5>5. u.child[r][n] = p
          BY <4>2, <1>8
        <5> QED BY <5>1, <5>2, <5>3, <5>4, <5>5, <1>17
      <4> QED BY <4>1, <4>2
    <3>4. Even(u, N, D, <<g, q>>)
      BY <3>3, <1>14 DEF Even, EvenBut
    <3>5. u.parent[p] = g /\ u.child[q][g] = p
      BY <3>1, <1>8
    <3>6. Even(u, N, D, IF "black" = "black" THEN <<g, q>> ELSE NoSpot)
      BY <3>4
    <3> QED BY <3>1, <3>5, <3>6, <1>4 DEF Gap
  <2> QED BY <2>2, <2>3
<1>19. u.color[Nil] = "black"
  BY <1>4, <1>5, <1>6, <1>7
<1>20. Deficit(u, N, p)
  BY <1>8, <1>9, <1>10, <1>11, <1>18, <1>19 DEF Deficit
<1> QED BY <1>7, <1>20

\* Case 3: a red near child of the sibling goes above it, which makes the far one red.
LEMMA NearTurns ==
  ASSUME NEW t, NEW N, NEW x, NEW p, NEW s, NEW w, NEW H, Low(t, N, x, p, s, w, H),
         Black(t, w), NEW a, IsChild(t, s, w, a), Red(t, a),
         NEW f, IsChild(t, Mirror(s), w, f), Black(t, f),
         NEW u, u = Rotate(Paint(Paint(t, a, "black"), w, "red"), Mirror(s), w)
  PROVE  /\ \E D : Low(u, N, x, p, s, a, D)
         /\ Black(u, a) /\ Red(u, u.child[Mirror(s)][a])
         /\ \A M : N \subseteq M /\ Bare(t, M) => Bare(u, M)
<1>1. PICK B : Shape(t, N, B)
  BY DEF Low
<1>2. a = t.child[s][w] /\ f = t.child[Mirror(s)][w]
  BY DEF IsChild
<1>3. LowFacts(t, N, x, p, s, w, a, f, H)
  BY <1>2, LowHas
<1>4. /\ p \in N /\ s \in Side /\ w \in N /\ x \in N \union {Nil} /\ t.parent[x] = p
      /\ t.child[s][p] = x /\ t.child[Mirror(s)][p] = w /\ t.color[x] = "black"
      /\ t.color[w] = "black" /\ t.color[a] = "red" /\ t.color[f] = "black"
  BY DEF Low, Red, Black
<1>5. /\ t.color[Nil] = "black" /\ t.color[t.root] = "black"
      /\ \A n \in N, r \in Side : ~(t.color[n] = "red" /\ t.color[t.child[r][n]] = "red")
  BY DEF Low, NoRed
<1>6. /\ t \in Trees /\ N \subseteq Cells /\ Nil \in Cells /\ Nil \notin N
      /\ Mirror(s) \in Side /\ Mirror(s) # s /\ \A r \in Side : r = s \/ r = Mirror(s)
      /\ w # p /\ x # p /\ x # w /\ t.parent[w] = p
      /\ a \in N \union {Nil} /\ a # w /\ a # p /\ (a # Nil => a # x /\ a # f)
      /\ f \in Cells /\ f # w
  BY <1>3 DEF LowFacts
<1>7. a # Nil /\ a \in N /\ a # x /\ a # f /\ p \in Cells /\ w \in Cells /\ a \in Cells
      /\ x \in Cells
  BY <1>4, <1>5, <1>6
<1>8. PICK m \in Side : m = Mirror(s) /\ Mirror(m) = s
  BY <1>4, <1>6, Sides
<1>9. PICK b : b = t.child[m][a]
  OBVIOUS
<1>10. PICK v : v = Paint(Paint(t, a, "black"), w, "red")
  OBVIOUS
<1>11. /\ SameLinks(t, v)
       /\ \A n \in Cells : v.color[n] = IF n = w THEN "red" ELSE IF n = a THEN "black"
                                        ELSE t.color[n]
  BY <1>6, <1>7, <1>10, PaintTwo
<1>12. v.child = t.child /\ v.root = t.root /\ v.parent = t.parent /\ v \in Trees
  BY <1>11 DEF SameLinks
<1>13. Shape(v, N, B)
  BY <1>1, <1>11, PaintKeepsShape
<1>14. a = v.child[Mirror(m)][w] /\ b = v.child[m][a] /\ a # Nil
  BY <1>2, <1>7, <1>8, <1>9, <1>12
<1>15. Turn(v, m, w, a, b, u)
  <2>1. u = Rotate(v, m, w)
    BY <1>8, <1>10
  <2>2. b \in Cells
    BY Zenon, <1>6, <1>7, <1>9, TreeFields
  <2> QED BY <2>1, <2>2, <1>7, <1>12, <1>14, TurnRotates
<1>16. /\ b # w /\ b # a /\ b \in N \union {Nil}
       /\ u.root = IF v.root = w THEN a ELSE v.root
       /\ u.child[m][a] = w /\ u.child[m][w] = v.child[m][w] /\ u.child[Mirror(m)][w] = b
       /\ \A n \in Cells \ {w, a}, r \in Side :
            n \in N \union {Nil} => u.child[r][n] = IF v.child[r][n] = w THEN a ELSE v.child[r][n]
  <2>1. TurnedLinks(v, N, m, w, a, b, u)
    BY <1>4, <1>13, <1>14, <1>15, TurnLinks
  <2> QED BY Zenon, <2>1 DEF TurnedLinks
<1>17. /\ \A n \in N \ {w, a}, r \in Side :
            u.child[r][n] = IF t.child[r][n] = w THEN a ELSE t.child[r][n]
       /\ u.child[m][w] = f /\ u.child[s][w] = b
  BY <1>2, <1>6, <1>8, <1>12, <1>16
<1>18. u.child[s][p] = x /\ u.child[Mirror(s)][p] = a
  BY <1>4, <1>6, <1>17
<1>19. /\ \A n \in Cells : u.color[n] = IF n = w THEN "red" ELSE IF n = a THEN "black"
                                        ELSE t.color[n]
       /\ u.parent[x] = p
  <2>1. /\ u.color = v.color
        /\ \A n \in Cells :
             u.parent[n] = IF n = b /\ b # Nil THEN w
                           ELSE IF n = w THEN a
                           ELSE IF n = a THEN v.parent[w] ELSE v.parent[n]
    BY <1>15 DEF Turn
  <2>2. ~(x = b /\ b # Nil)
    <3>1. ChildFacts(t, N, B, a, m)
      BY <1>1, <1>7, ChildHas
    <3> QED BY <3>1, <1>4, <1>6, <1>9 DEF ChildFacts
  <2> QED BY <2>1, <2>2, <1>4, <1>6, <1>7, <1>11, <1>12
<1>20. u.root = t.root
  <2>1. NodeFacts(t, N, B, w)
    BY <1>1, <1>4, NodeHas
  <2>2. t.root # w
    BY <2>1, <1>4, <1>6 DEF NodeFacts
  <2> QED BY <2>2, <1>12, <1>16
<1>21. NoRed(u, N)
  <2>1. u.color[Nil] = "black"
    BY <1>4, <1>5, <1>6, <1>19
  <2>2. u.color[u.root] = "black"
    <3>1. t.root \in Cells
      BY <1>6, TreeFields
    <3>2. t.root # w
      <4>1. NodeFacts(t, N, B, w)
        BY <1>1, <1>4, NodeHas
      <4> QED BY <4>1, <1>4, <1>6 DEF NodeFacts
    <3> QED BY <3>1, <3>2, <1>5, <1>19, <1>20
  <2>3. ASSUME NEW n \in N, NEW r \in Side, u.color[n] = "red", u.color[u.child[r][n]] = "red"
        PROVE  FALSE
    <3>1. n # a
      BY <2>3, <1>6, <1>7, <1>19
    <3>2. n # w
      <4>1. u.color[f] = "black"
        BY <1>4, <1>6, <1>7, <1>19
      <4>2. u.color[b] # "red"
        <5>1. t.color[b] # "red"
          BY <1>4, <1>5, <1>7, <1>9
        <5>2. b \in Cells
          BY <1>6, <1>16
        <5> QED BY <5>1, <5>2, <1>16, <1>19
      <4>3. r = s \/ r = m
        BY <1>6, <1>8
      <4> QED BY <4>1, <4>2, <4>3, <2>3, <1>17
    <3>3. PICK c : c = t.child[r][n]
      OBVIOUS
    <3>4. c \in Cells
      BY <3>3, <1>6, TreeFields
    <3>5. u.child[r][n] = IF c = w THEN a ELSE c
      BY <3>1, <3>2, <3>3, <1>17
    <3>6. u.color[a] = "black" /\ t.color[n] = "red"
      BY <3>1, <3>2, <2>3, <1>6, <1>7, <1>19
    <3>7. c # w /\ c # a
      BY <3>5, <3>6, <2>3
    <3>8. t.color[c] = "red"
      BY <3>4, <3>5, <3>7, <2>3, <1>19
    <3> QED BY <3>3, <3>6, <3>8, <1>5
  <2> QED BY <2>1, <2>2, <2>3 DEF NoRed
<1>22. PICK D : D = TurnedHeight(H, w, a, H[a])
  OBVIOUS
<1>23. Even(u, N, D, <<p, s>>)
  <2>1. /\ Extra(<<p, s>>, w, m) = 0 /\ Extra(<<p, s>>, w, Mirror(m)) = 0
        /\ Extra(<<p, s>>, a, m) = 0 /\ Extra(<<p, s>>, a, Mirror(m)) = 0
        /\ Extra(<<p, s>>, a, s) = 0
    BY <1>6, ExtraIs
  <2>2. Weight(v, a) = 1 /\ Weight(v, w) = 0 /\ Weight(t, w) = 1 /\ Weight(t, a) = 0
    BY <1>4, <1>6, <1>7, <1>11 DEF Weight
  <2>3. Even(t, N, H, <<p, s>>)
    BY DEF Low
  <2>4. EvenBut(v, N, H, <<p, s>>, {w, a})
    <3>1. \A n \in N \ {w, a} : Weight(v, n) = Weight(t, n)
      BY <1>6, <1>11 DEF Weight
    <3> QED BY <2>3, <3>1, <1>12 DEF Even, EvenBut
  <2>5. PICK i : i = t.child[s][a]
    OBVIOUS
  <2>6. i \in N \union {Nil} /\ H \in [N \union {Nil} -> Nat]
    <3>1. i \in N \union {Nil}
      BY <2>5, <1>1, <1>4, <1>7 DEF Shape, Links
    <3> QED BY <3>1, <1>3 DEF LowFacts
  <2>7. H[i] \in Nat /\ H[b] \in Nat /\ H[a] \in Nat /\ H[w] \in Nat /\ H[f] \in Nat
    <3>1. f \in N \union {Nil}
      BY <1>3 DEF LowFacts
    <3> QED BY <3>1, <2>6, <1>4, <1>7, <1>16
  <2>8. H[w] = H[a] + 1 /\ H[w] = H[f] + 1
    BY <2>2, <1>3 DEF LowFacts
  <2>9. H[a] = H[i] /\ H[a] = H[b]
    <3>1. /\ H[a] = H[t.child[s][a]] + Extra(<<p, s>>, a, s) + Weight(t, a)
          /\ H[a] = H[t.child[m][a]] + Extra(<<p, s>>, a, m) + Weight(t, a)
      BY <2>3, <1>4, <1>7, <1>8 DEF Even, EvenBut
    <3> QED BY <3>1, <2>1, <2>2, <2>5, <2>7, <1>9
  <2>10. v.child[Mirror(m)][a] = i /\ v.child[m][w] = f
    BY <2>5, <1>2, <1>8, <1>12
  <2>11. /\ H[w] = H[a] + Extra(<<p, s>>, a, m) + Weight(v, a)
         /\ H[w] = H[v.child[Mirror(m)][a]] + Extra(<<p, s>>, a, Mirror(m)) + Weight(v, a)
         /\ H[a] = H[v.child[m][w]] + Extra(<<p, s>>, w, m) + Weight(v, w)
         /\ H[a] = H[b] + Extra(<<p, s>>, w, Mirror(m)) + Weight(v, w)
    <3>1. /\ H[w] = H[a] + 0 + 1 /\ H[w] = H[i] + 0 + 1
          /\ H[a] = H[f] + 0 + 0 /\ H[a] = H[b] + 0 + 0
      BY <2>7, <2>8, <2>9
    <3> QED BY Zenon, <3>1, <2>1, <2>2, <2>10
  <2>12. H[a] \in Nat /\ w \in N /\ m \in Side
    BY <2>7, <1>4
  <2> QED BY Zenon, <2>4, <2>12, <2>11, <1>13, <1>14, <1>15, <1>22, TurnKeepsEven
<1>24. Shape(u, N, TurnedBelow(v, m, w, a, b, B))
  BY <1>4, <1>13, <1>14, <1>15, TurnKeepsBelow
<1>25. (\A M : N \subseteq M /\ Bare(v, M) => Bare(u, M)) /\ (Loose(v, N) => Loose(u, N))
  BY <1>4, <1>13, <1>14, <1>15, TurnKeepsRest
<1>26. Loose(u, N)
  BY <1>11, <1>25, PaintKeepsShape DEF Low
<1>27. \A M : N \subseteq M /\ Bare(t, M) => Bare(u, M)
  BY <1>11, <1>25, PaintKeepsShape
<1>28. u.color[x] = "black" /\ Black(u, a)
  BY <1>4, <1>6, <1>7, <1>19 DEF Black
<1>29. Low(u, N, x, p, s, a, D)
  BY <1>4, <1>7, <1>18, <1>19, <1>21, <1>23, <1>24, <1>26, <1>28 DEF Low
<1>30. Red(u, u.child[Mirror(s)][a])
  BY <1>7, <1>8, <1>16, <1>19 DEF Red
<1> QED BY <1>27, <1>28, <1>29, <1>30

\* The last step of a rotating iteration.
TopTurned(t, s, p, w, f) ==
  Rotate(Paint(Paint(Paint(t, w, TopColor(t, p)), p, "black"), f, "black"), s, p)

\* Case 4: the sibling takes p's place and colour, and what was missing is there again.
LEMMA FarTurns ==
  ASSUME NEW t, NEW N, NEW x, NEW p, NEW s, NEW w, NEW H, Low(t, N, x, p, s, w, H),
         Black(t, w), NEW f, IsChild(t, Mirror(s), w, f), Red(t, f),
         NEW u, u = TopTurned(t, s, p, w, f)
  PROVE  /\ Deficit(u, N, u.root)
         /\ \A M : N \subseteq M /\ Bare(t, M) => Bare(u, M)
<1>1. PICK B : Shape(t, N, B)
  BY DEF Low
<1>2. PICK a : a = t.child[s][w] /\ f = t.child[Mirror(s)][w]
  BY DEF IsChild
<1>3. LowFacts(t, N, x, p, s, w, a, f, H)
  BY <1>2, LowHas
<1>4. /\ p \in N /\ s \in Side /\ w \in N /\ x \in N \union {Nil} /\ t.parent[x] = p
      /\ t.child[s][p] = x /\ t.child[Mirror(s)][p] = w /\ t.color[x] = "black"
      /\ t.color[w] = "black" /\ t.color[f] = "red"
  BY DEF Low, Red, Black
<1>5. /\ t.color[Nil] = "black" /\ t.color[t.root] = "black"
      /\ \A n \in N, r \in Side : ~(t.color[n] = "red" /\ t.color[t.child[r][n]] = "red")
  BY DEF Low, NoRed
<1>6. /\ t \in Trees /\ N \subseteq Cells /\ Nil \in Cells /\ Nil \notin N
      /\ Mirror(s) \in Side /\ Mirror(s) # s /\ \A r \in Side : r = s \/ r = Mirror(s)
      /\ w # p /\ x # p /\ x # w /\ t.parent[w] = p
      /\ a \in N \union {Nil} /\ a # w /\ a # p /\ a \in Cells /\ (a # Nil => a # f)
      /\ f \in N \union {Nil} /\ f \in Cells /\ f # w /\ f # p
      /\ (f # Nil => t.parent[f] = w /\ f # x)
  BY <1>3 DEF LowFacts
<1>7. /\ f # Nil /\ f \in N /\ f # x /\ f # a /\ t.parent[f] = w
      /\ p \in Cells /\ w \in Cells /\ x \in Cells
  BY <1>4, <1>5, <1>6
<1>8. PICK c : c = TopColor(t, p) /\ c = t.color[p]
  BY DEF TopColor
<1>9. PICK v : v = Paint(Paint(Paint(t, w, c), p, "black"), f, "black")
  OBVIOUS
<1>10. /\ SameLinks(t, v)
       /\ \A n \in Cells : v.color[n] = IF n = f THEN "black" ELSE IF n = p THEN "black"
                                        ELSE IF n = w THEN c ELSE t.color[n]
  <2>1. c \in {"red", "black"}
    BY <1>6, <1>7, <1>8, TreeFields
  <2>2. /\ t \in Trees /\ w \in Cells /\ p \in Cells /\ f \in Cells
        /\ "black" \in {"red", "black"}
    BY <1>6, <1>7
  <2>3. SameLinks(t, v) /\ ThreePainted(t, w, c, p, "black", f, "black", v)
    BY <2>1, <2>2, <1>9, PaintThree
  <2> QED BY <2>3 DEF ThreePainted
<1>11. v.child = t.child /\ v.root = t.root /\ v.parent = t.parent /\ v \in Trees
  BY <1>10 DEF SameLinks
<1>12. Shape(v, N, B)
  BY <1>1, <1>10, PaintKeepsShape
<1>13. w = v.child[Mirror(s)][p] /\ a = v.child[s][w] /\ w # Nil
  BY <1>2, <1>4, <1>6, <1>11
<1>14. Turn(v, s, p, w, a, u)
  <2>1. u = Rotate(v, s, p)
    BY <1>8, <1>9 DEF TopTurned
  <2> QED BY <2>1, <1>4, <1>6, <1>7, <1>11, <1>13, TurnRotates
<1>15. /\ w \in N /\ w # p /\ a \in N \union {Nil} /\ a # p /\ a # w
       /\ u.root = IF v.root = p THEN w ELSE v.root
       /\ u.child[s][w] = p /\ u.child[Mirror(s)][w] = v.child[Mirror(s)][w]
       /\ u.child[s][p] = v.child[s][p] /\ u.child[Mirror(s)][p] = a
       /\ \A n \in Cells \ {p, w}, r \in Side :
            n \in N \union {Nil} => u.child[r][n] = IF v.child[r][n] = p THEN w ELSE v.child[r][n]
       /\ \A n \in Cells \ (N \union {Nil}), r \in Side : u.child[r][n] = v.child[r][n]
  <2>1. p \in N /\ s \in Side
    BY <1>4
  <2>2. TurnedLinks(v, N, s, p, w, a, u)
    BY <2>1, <1>12, <1>13, <1>14, TurnLinks
  <2> QED BY Zenon, <2>2 DEF TurnedLinks
<1>16. /\ \A n \in N \ {p, w}, r \in Side :
            u.child[r][n] = IF t.child[r][n] = p THEN w ELSE t.child[r][n]
       /\ u.child[Mirror(s)][w] = f
       /\ u.root = IF t.root = p THEN w ELSE t.root
  <2>1. \A n \in N : n \in Cells /\ n \in N \union {Nil}
    BY <1>6
  <2>2. f = t.child[Mirror(s)][w] /\ v.child = t.child /\ v.root = t.root
    BY <1>2, <1>11
  <2>3. u.child[Mirror(s)][w] = f /\ u.root = IF t.root = p THEN w ELSE t.root
    BY <2>2, <1>15
  <2>4. ASSUME NEW n \in N \ {p, w}, NEW r \in Side
        PROVE  u.child[r][n] = IF t.child[r][n] = p THEN w ELSE t.child[r][n]
    <3>1. n \in Cells \ {p, w} /\ n \in N \union {Nil}
      BY <2>1
    <3>2. u.child[r][n] = IF v.child[r][n] = p THEN w ELSE v.child[r][n]
      BY <3>1, <1>15
    <3> QED BY <2>2, <3>2
  <2> QED BY <2>3, <2>4
<1>17. /\ \A n \in Cells : u.color[n] = IF n = f THEN "black" ELSE IF n = p THEN "black"
                                        ELSE IF n = w THEN c ELSE t.color[n]
  BY <1>10, <1>14 DEF Turn
<1>18. NoRed(u, N)
  <2>1. u.color[Nil] = "black"
    BY <1>4, <1>5, <1>6, <1>17
  <2>2. u.color[u.root] = "black"
    <3>1. t.root \in Cells
      BY <1>6, TreeFields
    <3>2. t.root # w
      <4>1. NodeFacts(t, N, B, w)
        BY <1>1, <1>4, NodeHas
      <4> QED BY <4>1, <1>4, <1>6 DEF NodeFacts
    <3>3. CASE t.root = p
      BY <3>3, <1>5, <1>6, <1>7, <1>8, <1>16, <1>17
    <3>4. CASE t.root # p
      BY <3>1, <3>2, <3>4, <1>5, <1>16, <1>17
    <3> QED BY <3>3, <3>4
  <2>3. ASSUME NEW n \in N, NEW r \in Side, u.color[n] = "red", u.color[u.child[r][n]] = "red"
        PROVE  FALSE
    <3>1. n # p /\ n # f
      BY <2>3, <1>6, <1>7, <1>17
    <3>2. n # w
      <4>1. u.color[p] = "black" /\ u.color[f] = "black"
        BY <1>6, <1>7, <1>17
      <4> QED BY <4>1, <2>3, <1>6, <1>15, <1>16
    <3>3. PICK e : e = t.child[r][n]
      OBVIOUS
    <3>4. e \in Cells
      BY <3>3, <1>6, TreeFields
    <3>5. u.child[r][n] = IF e = p THEN w ELSE e
      BY <3>1, <3>2, <3>3, <1>16
    <3>6. t.color[n] = "red"
      BY <3>1, <3>2, <2>3, <1>6, <1>17
    <3>7. e # p
      <4>1. u.color[w] = c
        BY <1>6, <1>7, <1>17
      <4> QED BY <4>1, <3>3, <3>5, <3>6, <2>3, <1>5, <1>8
    <3>8. e # w
      <4>1. ChildFacts(t, N, B, n, r)
        BY <1>1, ChildHas
      <4> QED BY <4>1, <3>1, <3>3, <1>4, <1>6 DEF ChildFacts
    <3>9. t.color[e] = "red"
      BY <3>4, <3>5, <3>7, <3>8, <2>3, <1>6, <1>17
    <3> QED BY <3>3, <3>6, <3>9, <1>5
  <2> QED BY <2>1, <2>2, <2>3 DEF NoRed
<1>19. PICK K : K = [H EXCEPT ![f] = H[f] + 1]
  OBVIOUS
<1>20. /\ H \in [N \union {Nil} -> Nat] /\ H[Nil] = 0
       /\ H[p] = H[x] + 1 + Weight(t, p) /\ H[p] = H[w] + Weight(t, p) /\ H[w] = H[x] + 1
       /\ H[w] = H[a] + 1 /\ H[w] = H[f] + 1
       /\ H[p] \in Nat /\ H[w] \in Nat /\ H[x] \in Nat /\ H[a] \in Nat /\ H[f] \in Nat
       /\ Weight(t, p) \in {0, 1}
  <2>1. Weight(t, w) = 1
    BY <1>4 DEF Weight
  <2>2. /\ H \in [N \union {Nil} -> Nat] /\ H[Nil] = 0
        /\ H[p] = H[x] + 1 + Weight(t, p) /\ H[p] = H[w] + Weight(t, p)
        /\ H[w] = H[a] + Weight(t, w) /\ H[w] = H[f] + Weight(t, w)
        /\ H[p] \in Nat /\ H[w] \in Nat /\ H[x] \in Nat /\ H[a] \in Nat /\ H[f] \in Nat
        /\ Weight(t, p) \in {0, 1}
    BY <1>3 DEF LowFacts
  <2>3. H[w] = H[x] + 1
    BY <2>2
  <2> QED BY <2>1, <2>2, <2>3
<1>21. /\ K \in [N \union {Nil} -> Nat] /\ K[Nil] = 0
       /\ \A n \in N \union {Nil} : K[n] = IF n = f THEN H[f] + 1 ELSE H[n]
  BY <1>6, <1>7, <1>19, <1>20
<1>22. EvenBut(v, N, K, NoSpot, {p, w})
  <2>1. ASSUME NEW n \in N \ {p, w}, NEW r \in Side
        PROVE  K[n] = K[v.child[r][n]] + Extra(NoSpot, n, r) + Weight(v, n)
    <3>1. PICK e : e = t.child[r][n]
      OBVIOUS
    <3>2. e \in N \union {Nil} /\ e # f
      <4>1. ChildFacts(t, N, B, n, r)
        BY <1>1, ChildHas
      <4> QED BY <4>1, <3>1, <1>7 DEF ChildFacts
    <3>3. H[n] = H[e] + Extra(<<p, s>>, n, r) + Weight(t, n)
      BY <3>1 DEF Low, Even, EvenBut
    <3>4. Extra(<<p, s>>, n, r) = 0 /\ Extra(NoSpot, n, r) = 0 /\ Weight(t, n) \in {0, 1}
      BY ExtraIs
    <3>5. K[e] = H[e] /\ H[e] \in Nat
      BY <3>2, <1>20, <1>21
    <3>6. v.child[r][n] = e
      BY <3>1, <1>11
    <3>7. CASE n = f
      <4>1. Weight(t, n) = 0 /\ Weight(v, n) = 1
        BY <3>7, <1>4, <1>6, <1>10 DEF Weight
      <4>2. K[n] = H[n] + 1
        BY <3>7, <1>21
      <4> QED BY <4>1, <4>2, <3>3, <3>4, <3>5, <3>6
    <3>8. CASE n # f
      <4>1. Weight(v, n) = Weight(t, n)
        BY <3>8, <1>6, <1>10 DEF Weight
      <4>2. K[n] = H[n]
        BY <3>8, <1>21
      <4> QED BY <4>1, <4>2, <3>3, <3>4, <3>5, <3>6
    <3> QED BY <3>7, <3>8
  <2> QED BY <2>1, <1>21 DEF EvenBut
<1>23. PICK h : h = H[x] + 1
  OBVIOUS
<1>24. PICK D : D = TurnedHeight(K, p, w, h)
  OBVIOUS
<1>25. Even(u, N, D, NoSpot)
  <2>1. K[p] = H[p] /\ K[f] = H[f] + 1 /\ K[x] = H[x] /\ K[a] = H[a]
    BY <1>4, <1>6, <1>7, <1>21
  <2>2. Weight(v, w) = Weight(t, p) /\ Weight(v, p) = 1
    BY <1>6, <1>7, <1>8, <1>10 DEF Weight
  <2>3. \A n, r : Extra(NoSpot, n, r) = 0
    BY ExtraIs
  <2>4. v.child[Mirror(s)][w] = f /\ v.child[s][p] = x
    BY <1>2, <1>4, <1>11
  <2>5. /\ K[p] = h + 0 + Weight(t, p) /\ K[p] = K[f] + 0 + Weight(t, p)
        /\ h = K[x] + 0 + 1 /\ h = K[a] + 0 + 1 /\ h \in Nat
    BY <2>1, <1>20, <1>23
  <2>6. /\ K[p] = h + Extra(NoSpot, w, s) + Weight(v, w)
        /\ K[p] = K[v.child[Mirror(s)][w]] + Extra(NoSpot, w, Mirror(s)) + Weight(v, w)
        /\ h = K[v.child[s][p]] + Extra(NoSpot, p, s) + Weight(v, p)
        /\ h = K[a] + Extra(NoSpot, p, Mirror(s)) + Weight(v, p)
    BY Zenon, <2>2, <2>3, <2>4, <2>5
  <2>7. h \in Nat /\ p \in N /\ s \in Side
    BY Zenon, <2>5, <1>4
  <2> QED BY Zenon, <2>6, <2>7, <1>12, <1>13, <1>14, <1>22, <1>24, TurnKeepsEven
<1>26. Shape(u, N, TurnedBelow(v, s, p, w, a, B))
  BY Zenon, <1>4, <1>12, <1>13, <1>14, TurnKeepsBelow
<1>27. (\A M : N \subseteq M /\ Bare(v, M) => Bare(u, M)) /\ (Loose(v, N) => Loose(u, N))
  BY <1>4, <1>12, <1>13, <1>14, TurnKeepsRest
<1>28. Loose(u, N)
  BY <1>10, <1>27, PaintKeepsShape DEF Low
<1>29. \A M : N \subseteq M /\ Bare(t, M) => Bare(u, M)
  BY <1>10, <1>27, PaintKeepsShape
<1>30. Gap(u, N, u.root, "black")
  <2>1. u.root \in N \union {Nil}
    BY <1>26 DEF Shape, Links
  <2> QED BY <2>1, <1>25 DEF Gap
<1>31. Deficit(u, N, u.root)
  BY <1>18, <1>26, <1>28, <1>30 DEF Deficit, NoRed
<1> QED BY <1>29, <1>31

\* Case 1 or not: the sibling is black then.
LEMMA BlackSiblingHas ==
  ASSUME NEW N, Deficit(tree, N, at), EraseLoop,
         NEW p, p = tree.parent[at], NEW s, s = AtSide, NEW t, t = BlackSibling
  PROVE  /\ \E D : Low(t, N, at, p, s, Sibling(t), D)
         /\ Black(t, Sibling(t)) /\ t.parent[at] = p
         /\ \A M : N \subseteq M /\ Bare(tree, M) => Bare(t, M)
<1>1. at # tree.root /\ Black(tree, at)
  BY DEF EraseLoop, Black
<1>2. PICK w : w = Sibling(tree) /\ w = tree.child[Mirror(s)][p]
  BY DEF Sibling
<1>3. s = SideOf(tree, at)
  BY DEF AtSide
<1>4. PICK H : Low(tree, N, at, p, s, w, H)
  BY <1>1, <1>2, <1>3, LowFrom
<1>5. \A v, a, D : Low(v, N, at, p, s, a, D) => Sibling(v) = a /\ v.parent[at] = p
  BY DEF Low, Sibling
<1>6. tree.color[w] = "red" \/ tree.color[w] = "black"
  <2>1. w \in N /\ tree \in Trees /\ N \subseteq Cells
    BY <1>4, CellsAreKeys DEF Low, Shape, Links
  <2> QED BY <2>1, TreeFields
<1>7. CASE tree.color[w] = "red"
  <2>1. t = Rotate(Paint(Paint(tree, w, "black"), p, "red"), s, p)
    BY <1>2, <1>7 DEF BlackSibling, Up
  <2>2. Red(tree, w)
    BY <1>7 DEF Red
  <2>3. /\ \E a, D : Low(t, N, at, p, s, a, D) /\ Black(t, a)
        /\ \A M : N \subseteq M /\ Bare(tree, M) => Bare(t, M)
    BY <2>1, <2>2, <1>4, RedSiblingTurns
  <2> QED BY <2>3, <1>5
<1>8. CASE tree.color[w] = "black"
  <2>1. t = tree
    BY <1>2, <1>8 DEF BlackSibling
  <2> QED BY <2>1, <1>2, <1>4, <1>5, <1>8 DEF Black
<1> QED BY <1>6, <1>7, <1>8

\* An iteration whose nephews are black.
LEMMA RecolorKeepsDeficit ==
  ASSUME NEW N, Deficit(tree, N, at), EraseRecolor
  PROVE  /\ Deficit(tree', N, at')
         /\ \A M : N \subseteq M /\ Bare(tree, M) => Bare(tree', M)
<1>1. PICK t : t = BlackSibling
  OBVIOUS
<1>2. /\ EraseLoop /\ NephewsBlack(t)
      /\ tree' = Paint(t, Sibling(t), "red") /\ at' = t.parent[at]
  BY <1>1 DEF EraseRecolor
<1>3. PICK p, s : p = tree.parent[at] /\ s = AtSide
  OBVIOUS
<1>4. /\ \E D : Low(t, N, at, p, s, Sibling(t), D)
      /\ Black(t, Sibling(t)) /\ t.parent[at] = p
      /\ \A M : N \subseteq M /\ Bare(tree, M) => Bare(t, M)
  BY <1>1, <1>2, <1>3, BlackSiblingHas
<1>5. \A r \in Side : Black(t, t.child[r][Sibling(t)])
  BY <1>2 DEF NephewsBlack, Black
<1>6. Deficit(tree', N, p) /\ SameLinks(t, tree')
  BY <1>2, <1>4, <1>5, PaintedRises
<1> QED BY <1>2, <1>4, <1>6, PaintKeepsShape

\* An iteration with a red nephew.
LEMMA RotateKeepsDeficit ==
  ASSUME NEW N, Deficit(tree, N, at), EraseRotate
  PROVE  /\ Deficit(tree', N, at')
         /\ \A M : N \subseteq M /\ Bare(tree, M) => Bare(tree', M)
<1>1. PICK b, s, w, a, f : /\ b = BlackSibling /\ s = AtSide /\ w = Sibling(b)
                           /\ a = b.child[s][w] /\ f = b.child[Mirror(s)][w]
  BY Zenon
<1>2. PICK t : t = IF b.color[f] = "black"
                   THEN Rotate(Paint(Paint(b, a, "black"), w, "red"), Mirror(s), w) ELSE b
  OBVIOUS
<1>3. PICK v, p : v = Sibling(t) /\ p = t.parent[at]
  OBVIOUS
<1>4. /\ EraseLoop /\ ~NephewsBlack(b)
      /\ tree' = TopTurned(t, s, p, v, t.child[Mirror(s)][v]) /\ at' = tree'.root
  BY Zenon, <1>1, <1>2, <1>3 DEF EraseRotate, TopTurned
<1>5. PICK q : q = tree.parent[at]
  OBVIOUS
<1>6. /\ \E D : Low(b, N, at, q, s, w, D)
      /\ Black(b, w) /\ b.parent[at] = q
      /\ \A M : N \subseteq M /\ Bare(tree, M) => Bare(b, M)
  BY <1>1, <1>4, <1>5, BlackSiblingHas
<1>7. PICK H : Low(b, N, at, q, s, w, H)
  BY <1>6
<1>8. \A d, x, D : Low(d, N, at, q, s, x, D) => Sibling(d) = x /\ d.parent[at] = q
  BY <1>1 DEF Low, Sibling
<1>9. LowFacts(b, N, at, q, s, w, a, f, H)
  BY <1>1, <1>7, LowHas
<1>10. /\ b \in Trees /\ a \in Cells /\ f \in Cells
       /\ \A r \in Side : r = s \/ r = Mirror(s)
  BY <1>9 DEF LowFacts
<1>11. /\ (b.color[f] # "red" => Black(b, f) /\ Red(b, a))
       /\ (b.color[f] = "red" => b.color[f] # "black")
  <2>1. b.color[f] # "red" => b.color[f] = "black"
    BY <1>10, TreeFields
  <2>2. b.color[a] = "red" \/ b.color[a] = "black"
    BY <1>10, TreeFields
  <2>3. PICK r \in Side : b.color[b.child[r][w]] # "black"
    BY <1>1, <1>4 DEF NephewsBlack
  <2>4. b.color[f] = "black" => b.color[a] # "black"
    BY <2>3, <1>1, <1>10
  <2> QED BY <2>1, <2>2, <2>4 DEF Black, Red
<1>12. /\ \E D : Low(t, N, at, q, s, v, D)
       /\ p = q /\ Black(t, v) /\ Red(t, t.child[Mirror(s)][v])
       /\ \A M : N \subseteq M /\ Bare(b, M) => Bare(t, M)
  <2>1. CASE b.color[f] = "red"
    <3>1. t = b
      BY <2>1, <1>2, <1>11
    <3>2. v = w /\ p = q /\ Red(t, t.child[Mirror(s)][v])
      BY <3>1, <2>1, <1>1, <1>3, <1>7, <1>8 DEF Red
    <3> QED BY <3>1, <3>2, <1>6
  <2>2. CASE b.color[f] # "red"
    <3>1. Black(b, f) /\ Red(b, a)
      BY <2>2, <1>11
    <3>2. t = Rotate(Paint(Paint(b, a, "black"), w, "red"), Mirror(s), w)
      BY <3>1, <1>2 DEF Black
    <3>3. IsChild(b, s, w, a) /\ IsChild(b, Mirror(s), w, f)
      BY <1>1 DEF IsChild
    <3>4. /\ \E D : Low(t, N, at, q, s, a, D)
          /\ Black(t, a) /\ Red(t, t.child[Mirror(s)][a])
          /\ \A M : N \subseteq M /\ Bare(b, M) => Bare(t, M)
      BY <3>1, <3>2, <3>3, <1>6, <1>7, NearTurns
    <3>5. v = a /\ p = q
      BY <3>4, <1>3, <1>8
    <3> QED BY <3>4, <3>5
  <2> QED BY <2>1, <2>2
<1>13. PICK g : g = t.child[Mirror(s)][v]
  OBVIOUS
<1>14. IsChild(t, Mirror(s), v, g) /\ Red(t, g) /\ tree' = TopTurned(t, s, q, v, g)
  BY <1>4, <1>12, <1>13 DEF IsChild
<1>15. Deficit(tree', N, tree'.root) /\ \A M : N \subseteq M /\ Bare(t, M) => Bare(tree', M)
  BY <1>12, <1>14, FarTurns
<1> QED BY <1>4, <1>6, <1>12, <1>15

\* A red node that is painted black makes up for one that is missing above it.
LEMMA BlackerKeepsEven ==
  ASSUME NEW t, NEW N, NEW B, Shape(t, N, B), NEW x \in N, Red(t, x),
         NEW H, NEW spot, Even(t, N, H, spot),
         \A n \in N, r \in Side : Extra(spot, n, r) = IF t.child[r][n] = x THEN 1 ELSE 0,
         NEW u, u = Paint(t, x, "black")
  PROVE  \E D : Even(u, N, D, NoSpot)
<1>1. t \in Trees /\ N \subseteq Cells /\ Nil \in Cells /\ Nil \notin N /\ t.color[x] = "red"
  BY CellsAreKeys DEF Shape, Links, Red
<1>2. ColorSet(t, x, "black", u)
  BY <1>1, SetColor
<1>3. PICK D : D = [H EXCEPT ![x] = H[x] + 1]
  OBVIOUS
<1>4. /\ H \in [N \union {Nil} -> Nat] /\ H[Nil] = 0
      /\ \A n \in N, r \in Side : H[n] = H[t.child[r][n]] + Extra(spot, n, r) + Weight(t, n)
  BY DEF Even, EvenBut
<1>5. /\ D \in [N \union {Nil} -> Nat] /\ D[Nil] = 0
      /\ \A n \in N \union {Nil} : D[n] = IF n = x THEN H[n] + 1 ELSE H[n]
  <2>1. H[x] + 1 \in Nat
    BY <1>4
  <2> QED BY <2>1, <1>1, <1>3, <1>4
<1>6. ASSUME NEW n \in N, NEW r \in Side
      PROVE  D[n] = D[u.child[r][n]] + Extra(NoSpot, n, r) + Weight(u, n)
  <2>1. PICK c : c = t.child[r][n]
    OBVIOUS
  <2>2. c \in N \union {Nil} /\ c # n
    <3>1. ChildFacts(t, N, B, n, r)
      BY ChildHas
    <3> QED BY <3>1, <2>1 DEF ChildFacts
  <2>3. H[n] = H[c] + (IF c = x THEN 1 ELSE 0) + Weight(t, n)
    BY <2>1, <1>4
  <2>4. u.child[r][n] = c /\ Extra(NoSpot, n, r) = 0
    BY <2>1, <1>2, ExtraIs DEF ColorSet
  <2>5. Weight(u, n) = IF n = x THEN Weight(t, n) + 1 ELSE Weight(t, n)
    <3>1. u.color[n] = IF n = x THEN "black" ELSE t.color[n]
      BY <1>1, <1>2 DEF ColorSet
    <3> QED BY <3>1, <1>1 DEF Weight
  <2>6. H[c] \in Nat /\ Weight(t, n) \in {0, 1}
    BY <2>2, <1>4, ExtraIs
  <2>7. /\ D[n] = IF n = x THEN H[n] + 1 ELSE H[n]
        /\ D[c] = IF c = x THEN H[c] + 1 ELSE H[c]
    BY <2>2, <1>5
  <2> QED BY <2>2, <2>3, <2>4, <2>5, <2>6, <2>7
<1>7. Even(u, N, D, NoSpot)
  BY <1>5, <1>6 DEF Even, EvenBut
<1> QED BY <1>7

\* Painting a root black evens nothing out of balance.
LEMMA RootPainted ==
  ASSUME NEW t, NEW N, NEW B, Shape(t, N, B), NEW H, Even(t, N, H, NoSpot),
         NEW u, u = Paint(t, t.root, "black")
  PROVE  \E D : Even(u, N, D, NoSpot)
<1>1. t \in Trees /\ N \subseteq Cells /\ t.root \in N \union {Nil} /\ t.root \in Cells
  <2>1. t \in Trees
    BY DEF Shape, Links
  <2> QED BY <2>1, CellsAreKeys, TreeFields DEF Shape, Links
<1>2. ColorSet(t, t.root, "black", u)
  BY <1>1, SetColor
<1>3. CASE t.root \in N /\ Red(t, t.root)
  <2>1. \A n \in N, r \in Side : Extra(NoSpot, n, r) = IF t.child[r][n] = t.root THEN 1 ELSE 0
    <3>1. \A n \in N, r \in Side : t.child[r][n] # t.root
      <4>1. t.root # Nil
        BY <1>3, CellsAreKeys DEF Shape, Links
      <4>2. \A n \in N, r \in Side : ChildFacts(t, N, B, n, r)
        BY ChildHas
      <4> QED BY <4>1, <4>2 DEF ChildFacts
    <3> QED BY <3>1, ExtraIs
  <2> QED BY <2>1, <1>3, BlackerKeepsEven
<1>4. CASE ~(t.root \in N /\ Red(t, t.root))
  <2>1. \A n \in N : Weight(u, n) = Weight(t, n)
    <3>1. \A n \in N : u.color[n] = IF n = t.root THEN "black" ELSE t.color[n]
      BY <1>1, <1>2 DEF ColorSet
    <3>2. t.root \in N => t.color[t.root] = "black"
      BY <1>1, <1>4, TreeFields DEF Red
    <3> QED BY <3>1, <3>2 DEF Weight
  <2>2. u.child = t.child
    BY <1>2 DEF ColorSet
  <2>3. Even(u, N, H, NoSpot)
    BY <2>1, <2>2 DEF Even, EvenBut
  <2> QED BY <2>3
<1> QED BY <1>3, <1>4

\* The last node is painted black, which makes all paths even.
LEMMA PaintEnds ==
  ASSUME NEW t, NEW N, NEW x, Deficit(t, N, x), x = t.root \/ Red(t, x),
         NEW u, u = Paint(t, x, "black")
  PROVE  NoRed(u, N) /\ SameLinks(t, u) /\ \E H : Even(u, N, H, NoSpot)
<1>1. PICK B : Shape(t, N, B)
  BY DEF Deficit
<1>2. /\ x \in N \union {Nil} /\ t.color[Nil] = "black"
      /\ \A n \in N, r \in Side :
           t.color[n] = "red" /\ t.color[t.child[r][n]] = "red" => x \in {n, t.child[r][n]}
      /\ (t.color[t.root] = "red" => t.root = x)
  BY DEF Deficit, Gap
<1>3. t \in Trees /\ N \subseteq Cells /\ Nil \in Cells /\ Nil \notin N /\ x \in Cells
  BY <1>1, <1>2, CellsAreKeys DEF Shape, Links
<1>4. /\ SameLinks(t, u)
      /\ \A n \in Cells : u.color[n] = IF n = x THEN "black" ELSE t.color[n]
  <2>1. ColorSet(t, x, "black", u)
    BY <1>3, SetColor
  <2> QED BY <2>1 DEF ColorSet, SameLinks
<1>5. u.child = t.child /\ u.root = t.root /\ u \in Trees
  BY <1>4 DEF SameLinks
<1>6. NoRed(u, N)
  <2>1. \A n \in Cells : u.color[n] = "red" => t.color[n] = "red" /\ n # x
    BY <1>4
  <2>2. u.color[u.root] = "black"
    BY <2>1, <1>2, <1>3, <1>5, TreeFields
  <2>3. \A n \in N, r \in Side : n \in Cells /\ t.child[r][n] \in Cells
    BY <1>3, TreeFields
  <2> QED BY <2>1, <2>2, <2>3, <1>2, <1>3, <1>4, <1>5 DEF NoRed
<1>7. \E H : Even(u, N, H, NoSpot)
  <2>1. CASE x = t.root /\ \E H : Even(t, N, H, NoSpot)
    <3>1. u = Paint(t, t.root, "black")
      BY <2>1
    <3> QED BY <3>1, <2>1, <1>1, RootPainted
  <2>2. ASSUME NEW p \in N, NEW q \in Side, NEW H, t.child[q][p] = x,
               t.parent[x] = p, Even(t, N, H, <<p, q>>)
        PROVE  \E D : Even(u, N, D, NoSpot)
    <3>1. ChildFacts(t, N, B, p, q)
      BY <2>2, <1>1, ChildHas
    <3>2. x # t.root
      <4>1. N # {} /\ B[t.root] = N /\ B[Nil] = {}
        BY <2>2, <1>1 DEF Shape, Below
      <4> QED BY <4>1, <3>1, <2>2 DEF ChildFacts
    <3>3. Red(t, x) /\ x \in N
      BY <3>2, <1>2 DEF Red
    <3>4. \A n \in N, r \in Side :
            Extra(<<p, q>>, n, r) = IF t.child[r][n] = x THEN 1 ELSE 0
      <4>1. ASSUME NEW n \in N, NEW r \in Side PROVE t.child[r][n] = x <=> n = p /\ r = q
        <5>1. ChildFacts(t, N, B, n, r)
          BY <1>1, ChildHas
        <5> QED BY <5>1, <3>1, <3>3, <2>2, <1>3 DEF ChildFacts
      <4> QED BY <4>1, ExtraIs
    <3> QED BY <3>3, <3>4, <2>2, <1>1, BlackerKeepsEven
  <2>3. \/ x = t.root /\ \E H : Even(t, N, H, NoSpot)
        \/ \E p \in N, q \in Side :
             /\ t.parent[x] = p /\ t.child[q][p] = x /\ \E H : Even(t, N, H, <<p, q>>)
    BY DEF Deficit, Gap
  <2> QED BY <2>1, <2>2, <2>3
<1> QED BY <1>4, <1>6, <1>7

-----------------------------------------------------------------------------
\* The ends of the operations.

\* A tree as a caller sees it, with the nodes N.
Whole(t, N) ==
  /\ \E B : Shape(t, N, B)
  /\ Bare(t, N) /\ NoRed(t, N) /\ \E H : Even(t, N, H, NoSpot)

\* The end of insert_fixup.
LEMMA RisingEnds ==
  ASSUME NEW t, NEW N, NEW z, Rising(t, N, z), Bare(t, N), Black(t, t.parent[z]),
         NEW u, u = Paint(t, t.root, "black")
  PROVE  Whole(u, N)
<1>1. PICK B : Shape(t, N, B)
  BY DEF Rising
<1>2. PICK H : Even(t, N, H, NoSpot)
  BY DEF Rising
<1>3. /\ z \in N /\ t.color[Nil] = "black" /\ t.color[t.parent[z]] = "black"
      /\ \A n \in N, r \in Side :
           t.color[n] = "red" /\ t.color[t.child[r][n]] = "red" => t.child[r][n] = z
      /\ (t.color[t.root] = "red" => t.root = z)
  BY DEF Rising, RedOnly, Black
<1>4. t \in Trees /\ N \subseteq Cells /\ Nil \in Cells /\ Nil \notin N /\ t.root \in Cells
  <2>1. t \in Trees
    BY <1>1 DEF Shape, Links
  <2> QED BY <2>1, <1>1, CellsAreKeys, TreeFields DEF Shape, Links
<1>5. /\ SameLinks(t, u)
      /\ \A n \in Cells : u.color[n] = IF n = t.root THEN "black" ELSE t.color[n]
  <2>1. ColorSet(t, t.root, "black", u)
    BY <1>4, SetColor
  <2> QED BY <2>1 DEF ColorSet, SameLinks
<1>6. u.child = t.child /\ u.root = t.root
  BY <1>5 DEF SameLinks
<1>7. NoRed(u, N)
  <2>1. u.color[Nil] = "black" /\ u.color[u.root] = "black"
    BY <1>3, <1>4, <1>5, <1>6
  <2>2. ASSUME NEW n \in N, NEW r \in Side, u.color[n] = "red", u.color[u.child[r][n]] = "red"
        PROVE  FALSE
    <3>1. PICK c : c = t.child[r][n]
      OBVIOUS
    <3>2. c \in Cells /\ n \in Cells
      BY <3>1, <1>4, TreeFields
    <3>3. t.color[n] = "red" /\ t.color[c] = "red"
      BY <3>1, <3>2, <2>2, <1>5, <1>6
    <3>4. c = z /\ c # Nil
      BY <3>1, <3>3, <1>3
    <3>5. t.parent[c] = n
      <4>1. ChildFacts(t, N, B, n, r)
        BY <1>1, ChildHas
      <4> QED BY <4>1, <3>1, <3>4 DEF ChildFacts
    <3> QED BY <3>3, <3>4, <3>5, <1>3
  <2> QED BY <2>1, <2>2 DEF NoRed
<1>8. \E D : Even(u, N, D, NoSpot)
  BY <1>1, <1>2, RootPainted
<1>9. Shape(u, N, B) /\ Bare(u, N)
  BY <1>1, <1>5, PaintKeepsShape
<1> QED BY <1>7, <1>8, <1>9 DEF Whole

\* The node is destroyed after its last link is gone.
LEMMA DestroyKeeps ==
  ASSUME NEW t, NEW N, NEW B, Shape(t, N, B), NEW z \in Keys \ N, Bare(t, N \union {z}),
         NoRed(t, N), NEW H, Even(t, N, H, NoSpot), NEW u, u = Destroyed(t, z)
  PROVE  Whole(u, N)
<1>1. /\ t \in Trees /\ N \subseteq Cells /\ Nil \in Cells /\ Nil \notin N /\ z \in Cells
      /\ z # Nil /\ "left" \in Side /\ "right" \in Side
      /\ \A r \in Side : r = "left" \/ r = "right"
  BY CellsAreKeys, Sides DEF Shape, Links
<1>2. /\ u \in Trees /\ u.root = t.root
      /\ \A n \in Cells, r \in Side : u.child[r][n] = IF n = z THEN Nil ELSE t.child[r][n]
      /\ \A n \in Cells : /\ u.parent[n] = IF n = z THEN Nil ELSE t.parent[n]
                          /\ u.color[n] = IF n = z THEN "black" ELSE t.color[n]
  BY <1>1 DEF Destroyed, Trees
<1>3. /\ t.root \in N \union {Nil}
      /\ \A n \in N \union {Nil} : n \in Cells /\ n # z
      /\ \A n \in N, r \in Side : t.child[r][n] \in N \union {Nil}
  BY <1>1 DEF Shape, Links
<1>4. \A n \in N \union {Nil} : /\ \A r \in Side : u.child[r][n] = t.child[r][n]
                                /\ u.parent[n] = t.parent[n] /\ u.color[n] = t.color[n]
  BY <1>2, <1>3
<1>5. Shape(u, N, B)
  <2>1. Links(u, N)
    <3>1. \A n \in N : n # t.root =>
            u.parent[n] \in N /\ \E s \in Side : u.child[s][u.parent[n]] = n
      <4>1. \A n \in N : n # t.root =>
              t.parent[n] \in N /\ \E s \in Side : t.child[s][t.parent[n]] = n
        BY DEF Shape, Links
      <4> QED BY <4>1, <1>4
    <3>2. \A n \in N, s \in Side :
            /\ u.child[s][n] \in N \union {Nil}
            /\ u.child[s][n] # Nil => u.parent[u.child[s][n]] = n
      <4>1. \A n \in N, s \in Side :
              t.child[s][n] # Nil => t.parent[t.child[s][n]] = n
        BY DEF Shape, Links
      <4> QED BY <4>1, <1>3, <1>4
    <3>3. \A s \in Side : u.child[s][Nil] = Nil
      BY <1>4 DEF Shape, Links
    <3>4. u.root # Nil => u.parent[u.root] = Nil
      BY <1>2, <1>3, <1>4 DEF Shape, Links
    <3>5. N \subseteq Keys /\ IsFiniteSet(N)
      BY DEF Shape, Links
    <3> QED BY <3>1, <3>2, <3>3, <3>4, <3>5, <1>2, <1>3 DEF Links
  <2>2. Below(u, N, B)
    <3>1. /\ B \in [N \union {Nil} -> SUBSET N] /\ B[Nil] = {} /\ B[u.root] = N
      BY <1>2 DEF Shape, Below
    <3>2. \A n \in N : B[n] = {n} \union B[u.child["left"][n]] \union B[u.child["right"][n]]
      <4>1. \A n \in N : B[n] = {n} \union B[t.child["left"][n]] \union B[t.child["right"][n]]
        BY DEF Shape, Below
      <4> QED BY <4>1, <1>1, <1>4
    <3>3. \A n \in N, s \in Side : \A m \in B[u.child[s][n]] : Before(s, m, n)
      <4>1. \A n \in N, s \in Side : \A m \in B[t.child[s][n]] : Before(s, m, n)
        BY DEF Shape, Below
      <4> QED BY <4>1, <1>4
    <3> QED BY <3>1, <3>2, <3>3 DEF Below
  <2> QED BY <2>1, <2>2 DEF Shape
<1>6. Bare(u, N)
  <2>1. ASSUME NEW n \in Keys \ N
        PROVE  u.parent[n] = Nil /\ \A r \in Side : u.child[r][n] = Nil
    <3>1. n \in Cells
      BY CellsAreKeys
    <3>2. CASE n = z
      BY <3>1, <3>2, <1>2
    <3>3. CASE n # z
      <4>1. n \in Keys \ (N \union {z})
        BY <3>3
      <4>2. t.parent[n] = Nil /\ \A r \in Side : t.child[r][n] = Nil
        BY <4>1 DEF Bare
      <4> QED BY <3>1, <3>3, <4>2, <1>2
    <3> QED BY <3>2, <3>3
  <2> QED BY <2>1 DEF Bare
<1>7. NoRed(u, N)
  BY <1>2, <1>3, <1>4 DEF NoRed
<1>8. Even(u, N, H, NoSpot)
  <2>1. \A n \in N : Weight(u, n) = Weight(t, n)
    BY <1>4 DEF Weight
  <2> QED BY <2>1, <1>4 DEF Even, EvenBut
<1> QED BY <1>5, <1>6, <1>7, <1>8 DEF Whole

-----------------------------------------------------------------------------
\* The invariant: the shape and the colours of the tree at every step.

\* The inductive invariant.  Between two calls the tree is whole.  In insert_fixup one node, at,
\* may be red below a red parent, and size_ is one behind.  In erase_fixup one black node is
\* missing at the link to at, and the node erase_node has unlinked is still to be destroyed.
TreeInv ==
  /\ pc \in {"idle", "insert_fixup", "erase_fixup"}
  /\ nodes \subseteq Keys /\ IsFiniteSet(nodes) /\ size \in Nat
  /\ pc = "idle" =>
       Whole(tree, nodes) /\ at = Nil /\ gone = Nil /\ size = Cardinality(nodes)
  /\ pc = "insert_fixup" =>
       /\ Rising(tree, nodes, at) /\ Bare(tree, nodes)
       /\ gone = Nil /\ size + 1 = Cardinality(nodes)
  /\ pc = "erase_fixup" =>
       /\ gone \in nodes /\ size = Cardinality(nodes)
       /\ Deficit(tree, nodes \ {gone}, at) /\ Bare(tree, nodes)

\* A tree without nodes is right, whatever the sentinel's parent link is.
LEMMA EmptyIsWhole ==
  ASSUME NEW c \in Cells, NEW u, u = [Empty EXCEPT !.parent[Nil] = c]
  PROVE  Whole(u, {})
<1>1. /\ u \in Trees /\ u.root = Nil
      /\ \A n \in Cells : u.color[n] = "black" /\ \A r \in Side : u.child[r][n] = Nil
      /\ \A n \in Cells \ {Nil} : u.parent[n] = Nil
  BY CellsAreKeys DEF Empty, Trees
<1>2. PICK B : B = [n \in {Nil} |-> {}]
  OBVIOUS
<1>3. Shape(u, {}, B)
  <2>1. Links(u, {})
    BY <1>1, CellsAreKeys, FS_EmptySet DEF Links
  <2>2. Below(u, {}, B)
    BY <1>1, <1>2 DEF Below
  <2> QED BY <2>1, <2>2 DEF Shape
<1>4. Bare(u, {})
  BY <1>1, CellsAreKeys DEF Bare
<1>5. NoRed(u, {})
  BY <1>1, CellsAreKeys DEF NoRed
<1>6. PICK H : H = [n \in {Nil} |-> 0]
  OBVIOUS
<1>7. Even(u, {}, H, NoSpot)
  BY <1>6 DEF Even, EvenBut
<1> QED BY <1>3, <1>4, <1>5, <1>7 DEF Whole

\* The empty tree of the constructor satisfies the invariant.
LEMMA InitTree ==
  ASSUME Init
  PROVE  TreeInv
<1>1. tree = [Empty EXCEPT !.parent[Nil] = Nil]
  BY CellsAreKeys DEF Init, Empty
<1>2. Whole(tree, {})
  BY <1>1, CellsAreKeys, EmptyIsWhole
<1> QED BY <1>2, FS_EmptySet DEF Init, TreeInv

\* The parts of a whole tree.
LEMMA WholeHas ==
  ASSUME NEW t, NEW N, Whole(t, N)
  PROVE  \E B, H : /\ Shape(t, N, B) /\ Even(t, N, H, NoSpot)
                   /\ Bare(t, N) /\ NoRed(t, N) /\ Loose(t, N)
<1>1. PICK B, H : Shape(t, N, B) /\ Even(t, N, H, NoSpot)
  BY DEF Whole
<1>2. Bare(t, N) /\ NoRed(t, N)
  BY DEF Whole
<1>3. Loose(t, N)
  BY <1>2 DEF Bare, Loose
<1> QED BY <1>1, <1>2, <1>3

\* insert_unique's new node satisfies the invariant: at most it is red below a red parent.
LEMMA InsertNewTree ==
  ASSUME TreeInv, NEW k \in Keys, InsertNew(k)
  PROVE  TreeInv'
<1>1. /\ pc = "idle" /\ k \notin nodes /\ tree' = Linked(tree, k)
      /\ nodes' = nodes \union {k} /\ pc' = "insert_fixup" /\ at' = k
      /\ size' = size /\ gone' = gone
  BY DEF InsertNew
<1>2. /\ Whole(tree, nodes) /\ gone = Nil /\ size = Cardinality(nodes)
      /\ nodes \subseteq Keys /\ IsFiniteSet(nodes) /\ size \in Nat
  BY <1>1 DEF TreeInv
<1>3. Rising(tree', nodes', k) /\ Bare(tree', nodes')
  <2>1. PICK B, H : /\ Shape(tree, nodes, B) /\ Even(tree, nodes, H, NoSpot)
                    /\ Bare(tree, nodes) /\ NoRed(tree, nodes)
    BY <1>2, WholeHas
  <2> QED BY <2>1, <1>1, InsertRises
<1>4. IsFiniteSet(nodes') /\ Cardinality(nodes') = Cardinality(nodes) + 1
  BY <1>1, <1>2, FS_AddElement
<1> QED BY <1>1, <1>2, <1>3, <1>4 DEF TreeInv

\* A turn of insert_fixup with a red uncle keeps the invariant.
LEMMA InsertRecolorTree ==
  ASSUME TreeInv, InsertRecolor
  PROVE  TreeInv'
<1>1. PICK z, p, g, s, o : /\ z = at /\ p = Up(at) /\ g = Up(p) /\ s = UpSide
                           /\ o = Uncle
  OBVIOUS
<1>2. /\ pc = "insert_fixup" /\ tree.color[p] = "red" /\ tree.color[o] = "red"
      /\ tree' = Paint(Paint(Paint(tree, p, "black"), o, "black"), g, "red")
      /\ at' = g /\ nodes' = nodes /\ size' = size /\ pc' = pc /\ gone' = gone
  BY <1>1 DEF InsertRecolor, InsertLoop, Up
<1>3. /\ p = tree.parent[z] /\ g = tree.parent[p] /\ s = SideOf(tree, p)
      /\ o = tree.child[Mirror(s)][g]
  BY <1>1 DEF Up, UpSide, Uncle
<1>4. /\ Rising(tree, nodes, z) /\ Bare(tree, nodes) /\ gone = Nil
      /\ nodes \subseteq Keys /\ IsFiniteSet(nodes) /\ size \in Nat
      /\ size + 1 = Cardinality(nodes)
  BY <1>1, <1>2 DEF TreeInv
<1>5. UpFacts(tree, nodes, z, p, g, s, o)
  BY Zenon, <1>2, <1>3, <1>4, UpHas
<1>6. Rising(tree', nodes, g) /\ SameLinks(tree, tree')
  BY <1>2, <1>4, <1>5, RecolorRises
<1>7. Bare(tree', nodes)
  BY <1>4, <1>6, PaintKeepsShape
<1> QED BY <1>2, <1>4, <1>6, <1>7 DEF TreeInv

\* The last turn of insert_fixup, with its rotations, keeps the invariant.
LEMMA InsertRotateTree ==
  ASSUME TreeInv, InsertRotate
  PROVE  TreeInv'
<1>1. PICK z, p, g, s, o : /\ z = at /\ p = Up(at) /\ g = Up(p) /\ s = UpSide
                           /\ o = Uncle
  OBVIOUS
<1>2. PICK y : y = IF z = tree.child[Mirror(s)][p] THEN p ELSE z
  OBVIOUS
<1>3. PICK t : t = IF z = tree.child[Mirror(s)][p] THEN Rotate(tree, s, p) ELSE tree
  OBVIOUS
<1>4. /\ pc = "insert_fixup" /\ tree.color[p] = "red" /\ tree.color[o] = "black"
      /\ tree' = Turned(t, s, t.parent[y], t.parent[t.parent[y]])
      /\ at' = y /\ nodes' = nodes /\ size' = size /\ pc' = pc /\ gone' = gone
  BY Zenon, <1>1, <1>2, <1>3 DEF InsertRotate, InsertLoop, Up
<1>5. /\ p = tree.parent[z] /\ g = tree.parent[p] /\ s = SideOf(tree, p)
      /\ o = tree.child[Mirror(s)][g]
  BY <1>1 DEF Up, UpSide, Uncle
<1>6. /\ Rising(tree, nodes, z) /\ Bare(tree, nodes) /\ gone = Nil
      /\ nodes \subseteq Keys /\ IsFiniteSet(nodes) /\ size \in Nat
      /\ size + 1 = Cardinality(nodes)
  BY Zenon, <1>1, <1>4 DEF TreeInv
<1>7. UpFacts(tree, nodes, z, p, g, s, o)
  BY <1>4, <1>5, <1>6, UpHas
<1>8. Rising(tree', nodes, y) /\ Bare(tree', nodes)
  <2>1. CASE z = tree.child[Mirror(s)][p]
    <3>1. y = p /\ t = Rotate(tree, s, p)
      BY <2>1, <1>2, <1>3
    <3>2. /\ Rising(t, nodes, p) /\ UpFacts(t, nodes, p, z, g, s, o) /\ p = t.child[s][z]
          /\ t.color = tree.color /\ Bare(t, nodes)
      BY <3>1, <2>1, <1>6, <1>7, InnerRises
    <3>3. IsChild(t, s, z, p) /\ Black(t, o)
      BY <3>2, <1>4 DEF IsChild, Black
    <3>4. tree' = Turned(t, s, z, g)
      BY Zenon, <3>1, <3>2, <1>4 DEF UpFacts
    <3>5. Rising(tree', nodes, p) /\ Bare(tree', nodes)
      BY <3>2, <3>3, <3>4, OuterRises
    <3> QED BY <3>1, <3>5
  <2>2. CASE z # tree.child[Mirror(s)][p]
    <3>1. y = z /\ t = tree
      BY <2>2, <1>2, <1>3
    <3>2. IsChild(t, s, p, z) /\ Black(t, o)
      <4>1. PICK r \in Side : tree.child[r][p] = z
        BY <1>7 DEF UpFacts
      <4>2. s \in Side
        BY <1>7 DEF UpFacts
      <4>3. r = s
        BY Zenon, <4>1, <4>2, <2>2, Sides
      <4> QED BY <3>1, <4>1, <4>3, <1>4 DEF IsChild, Black
    <3>3. tree' = Turned(t, s, p, g)
      BY <3>1, <1>4, <1>5
    <3> QED BY <3>1, <3>2, <3>3, <1>6, <1>7, OuterRises
  <2> QED BY <2>1, <2>2
<1> QED BY <1>4, <1>6, <1>8 DEF TreeInv

\* The end of insert_fixup, which paints the root black, restores a whole tree.
LEMMA InsertDoneTree ==
  ASSUME TreeInv, InsertDone
  PROVE  TreeInv'
<1>1. /\ pc = "insert_fixup" /\ Black(tree, tree.parent[at])
      /\ tree' = Paint(tree, tree.root, "black") /\ size' = size + 1
      /\ pc' = "idle" /\ at' = Nil /\ nodes' = nodes /\ gone' = gone
  BY DEF InsertDone, Black
<1>2. /\ Rising(tree, nodes, at) /\ Bare(tree, nodes) /\ gone = Nil
      /\ nodes \subseteq Keys /\ IsFiniteSet(nodes) /\ size \in Nat
      /\ size + 1 = Cardinality(nodes)
  BY <1>1 DEF TreeInv
<1>3. Whole(tree', nodes)
  BY <1>1, <1>2, RisingEnds
<1> QED BY <1>1, <1>2, <1>3 DEF TreeInv

\* erase_node keeps the invariant: the other nodes are a search tree, and at most one black node
\* is missing, at the node erase_fixup starts from.
LEMMA EraseNodeTree ==
  ASSUME TreeInv, NEW z, EraseNode(z)
  PROVE  TreeInv'
<1>1. PICK u : u = Unlinked(tree, z)
  OBVIOUS
<1>2. /\ pc = "idle" /\ z \in nodes
      /\ IF u.color = "black"
         THEN /\ tree' = u.tree /\ pc' = "erase_fixup" /\ at' = u.x /\ gone' = z
              /\ UNCHANGED <<nodes, size>>
         ELSE /\ tree' = Destroyed(u.tree, z) /\ nodes' = nodes \ {z} /\ size' = size - 1
              /\ UNCHANGED <<pc, at, gone>>
  BY <1>1 DEF EraseNode
<1>3. /\ Whole(tree, nodes) /\ gone = Nil /\ at = Nil /\ size = Cardinality(nodes)
      /\ nodes \subseteq Keys /\ IsFiniteSet(nodes) /\ size \in Nat
  BY <1>2 DEF TreeInv
<1>4. /\ Cut(u.tree, nodes \ {z}, u.x, u.color) /\ Bare(u.tree, nodes)
      /\ u.color \in {"red", "black"}
  <2>1. PICK B, H : /\ Shape(tree, nodes, B) /\ Even(tree, nodes, H, NoSpot)
                    /\ Bare(tree, nodes) /\ NoRed(tree, nodes)
    BY <1>3, WholeHas
  <2> QED BY <2>1, <1>1, <1>2, UnlinkCuts
<1>5. CASE u.color = "black"
  <2>1. Deficit(u.tree, nodes \ {z}, u.x)
    <3>1. Cut(u.tree, nodes \ {z}, u.x, "black")
      BY <1>4, <1>5
    <3> QED BY <3>1 DEF Cut, Deficit, RedOnly
  <2> QED BY <2>1, <1>2, <1>3, <1>4, <1>5 DEF TreeInv
<1>6. CASE u.color # "black"
  <2>1. Cut(u.tree, nodes \ {z}, u.x, "red")
    BY <1>4, <1>6
  <2>2. PICK B : Shape(u.tree, nodes \ {z}, B)
    BY <2>1 DEF Cut
  <2>3. NoRed(u.tree, nodes \ {z}) /\ \E H : Even(u.tree, nodes \ {z}, H, NoSpot)
    BY <2>1 DEF Cut, Gap
  <2>4. nodes = (nodes \ {z}) \union {z} /\ z \in Keys \ (nodes \ {z})
    BY <1>2, <1>3
  <2>5. Bare(u.tree, (nodes \ {z}) \union {z})
    BY <2>4, <1>4
  <2>6. /\ tree' = Destroyed(u.tree, z) /\ nodes' = nodes \ {z} /\ size' = size - 1
        /\ pc' = pc /\ at' = at /\ gone' = gone
    BY <1>2, <1>6
  <2>7. Whole(tree', nodes')
    BY <2>2, <2>3, <2>4, <2>5, <2>6, DestroyKeeps
  <2>8. IsFiniteSet(nodes') /\ size' = Cardinality(nodes') /\ size' \in Nat
    <3>1. /\ IsFiniteSet(nodes \ {z})
          /\ Cardinality(nodes \ {z}) = IF z \in nodes THEN Cardinality(nodes) - 1
                                        ELSE Cardinality(nodes)
      BY <1>3, FS_RemoveElement
    <3>2. Cardinality(nodes \ {z}) \in Nat
      BY <3>1, FS_CardinalityType
    <3>3. size' = Cardinality(nodes \ {z})
      BY <3>1, <2>6, <1>2, <1>3
    <3> QED BY <3>1, <3>2, <3>3, <2>6
  <2> QED BY <2>6, <2>7, <2>8, <1>2, <1>3 DEF TreeInv
<1> QED BY <1>5, <1>6

\* A turn of erase_fixup keeps the invariant.
LEMMA EraseLoopTree ==
  ASSUME TreeInv, EraseRecolor \/ EraseRotate
  PROVE  TreeInv'
<1>1. pc = "erase_fixup" /\ UNCHANGED <<nodes, size, pc, gone>>
  BY DEF EraseRecolor, EraseRotate, EraseLoop
<1>2. PICK N : N = nodes \ {gone}
  OBVIOUS
<1>3. /\ gone \in nodes /\ Deficit(tree, N, at) /\ Bare(tree, nodes)
      /\ nodes \subseteq Keys /\ IsFiniteSet(nodes) /\ size \in Nat
      /\ size = Cardinality(nodes)
  BY <1>1, <1>2 DEF TreeInv
<1>4. Deficit(tree', N, at') /\ \A M : N \subseteq M /\ Bare(tree, M) => Bare(tree', M)
  BY <1>3, RecolorKeepsDeficit, RotateKeepsDeficit
<1>5. Bare(tree', nodes)
  BY <1>2, <1>3, <1>4
<1> QED BY Zenon, <1>1, <1>2, <1>3, <1>4, <1>5 DEF TreeInv

\* The end of erase_fixup, which paints the node it has reached black, restores a whole tree.
LEMMA EraseDoneTree ==
  ASSUME TreeInv, EraseDone
  PROVE  TreeInv'
<1>1. PICK u : u = Paint(tree, at, "black")
  OBVIOUS
<1>2. /\ pc = "erase_fixup" /\ (at = tree.root \/ Red(tree, at))
      /\ tree' = Destroyed(u, gone) /\ nodes' = nodes \ {gone} /\ size' = size - 1
      /\ pc' = "idle" /\ at' = Nil /\ gone' = Nil
  BY <1>1 DEF EraseDone, Red
<1>3. PICK N : N = nodes \ {gone}
  OBVIOUS
<1>4. /\ gone \in nodes /\ Deficit(tree, N, at) /\ Bare(tree, nodes)
      /\ nodes \subseteq Keys /\ IsFiniteSet(nodes) /\ size \in Nat
      /\ size = Cardinality(nodes)
  BY <1>2, <1>3 DEF TreeInv
<1>5. NoRed(u, N) /\ SameLinks(tree, u)
  BY <1>1, <1>2, <1>4, PaintEnds
<1>6. PICK H : Even(u, N, H, NoSpot)
  BY <1>1, <1>2, <1>4, PaintEnds
<1>7. PICK B : Shape(tree, N, B)
  BY <1>4 DEF Deficit
<1>8. Shape(u, N, B) /\ Bare(u, nodes)
  BY <1>4, <1>5, <1>7, PaintKeepsShape
<1>9. gone \in Keys \ N /\ nodes = N \union {gone}
  BY <1>3, <1>4
<1>10. Whole(tree', N)
  BY <1>2, <1>5, <1>6, <1>8, <1>9, DestroyKeeps
<1>11. IsFiniteSet(nodes') /\ size' = Cardinality(nodes') /\ size' \in Nat
  <2>1. /\ IsFiniteSet(nodes \ {gone})
        /\ Cardinality(nodes \ {gone}) = IF gone \in nodes THEN Cardinality(nodes) - 1
                                         ELSE Cardinality(nodes)
    BY <1>4, FS_RemoveElement
  <2>2. Cardinality(nodes \ {gone}) \in Nat
    BY <2>1, FS_CardinalityType
  <2>3. size' = Cardinality(nodes \ {gone})
    BY <2>1, <1>2, <1>4
  <2> QED BY <2>1, <2>2, <2>3, <1>2
<1> QED BY <1>2, <1>3, <1>4, <1>10, <1>11 DEF TreeInv

\* clear leaves the empty tree.
LEMMA ClearTree ==
  ASSUME TreeInv, Clear
  PROVE  TreeInv'
<1>1. /\ pc = "idle" /\ tree' = [Empty EXCEPT !.parent[Nil] = tree.parent[Nil]]
      /\ nodes' = {} /\ size' = 0 /\ pc' = pc /\ at' = at /\ gone' = gone
  BY DEF Clear
<1>2. Whole(tree, nodes) /\ at = Nil /\ gone = Nil
  BY <1>1 DEF TreeInv
<1>3. tree.parent[Nil] \in Cells
  <2>1. tree \in Trees
    BY <1>2 DEF Whole, Shape, Links
  <2> QED BY <2>1, CellsAreKeys, TreeFields
<1>4. Whole(tree', {})
  BY <1>1, <1>3, EmptyIsWhole
<1> QED BY <1>1, <1>2, <1>4, FS_EmptySet DEF TreeInv

\* A step that leaves the tree alone keeps the invariant.
LEMMA SameTree ==
  ASSUME TreeInv, UNCHANGED <<tree, nodes, size, pc, at, gone>>
  PROVE  TreeInv'
<1>1. tree' = tree /\ nodes' = nodes /\ size' = size /\ pc' = pc /\ at' = at /\ gone' = gone
  OBVIOUS
<1> QED BY <1>1 DEF TreeInv

\* Every step keeps the invariant.
LEMMA NextTree ==
  ASSUME TreeInv, [Next]_vars
  PROVE  TreeInv'
<1>1. \/ \E k \in Keys : InsertNew(k)
      \/ \E z \in Cells : EraseNode(z)
      \/ InsertRecolor \/ InsertRotate \/ InsertDone
      \/ EraseRecolor \/ EraseRotate \/ EraseDone \/ Clear
      \/ UNCHANGED <<tree, nodes, size, pc, at, gone>>
  <2>1. ASSUME NEW k \in Keys, InsertFound(k) \/ InsertNew(k) \/ EraseKey(k)
        PROVE  \/ InsertNew(k) \/ EraseNode(k)
               \/ UNCHANGED <<tree, nodes, size, pc, at, gone>>
    BY <2>1 DEF InsertFound, EraseKey
  <2>2. EraseAtIterator => it \in Cells /\ EraseNode(it)
    BY CellsAreKeys DEF EraseAtIterator, TreeInv
  <2>3. Begin \/ ToEnd \/ Advance \/ Retreat =>
          UNCHANGED <<tree, nodes, size, pc, at, gone>>
    BY DEF Begin, ToEnd, Advance, Retreat, Seek
  <2>5. ASSUME NEW k \in Sought, FindKey(k) \/ LowerBound(k) \/ UpperBound(k)
        PROVE  UNCHANGED <<tree, nodes, size, pc, at, gone>>
    BY <2>5 DEF FindKey, LowerBound, UpperBound, Seek
  <2>4. UNCHANGED vars => UNCHANGED <<tree, nodes, size, pc, at, gone>>
    BY DEF vars
  <2> QED BY <2>1, <2>2, <2>3, <2>4, <2>5, CellsAreKeys DEF Next, Fixup
<1> QED BY <1>1, InsertNewTree, EraseNodeTree, InsertRecolorTree, InsertRotateTree,
           InsertDoneTree, EraseLoopTree, EraseDoneTree, ClearTree, SameTree

-----------------------------------------------------------------------------
\* The recursive definitions of RedBlackTree, on the tree: each is the one function that
\* goes by the children.

\* Walks that agree on the step agree on the tree.
LEMMA WalkIsUnique ==
  ASSUME NEW t, NEW N, NEW B, Shape(t, N, B), NEW f, NEW g, f[Nil] = g[Nil],
         \A n \in N : (\A r \in Side : f[t.child[r][n]] = g[t.child[r][n]]) => f[n] = g[n]
  PROVE  \A n \in N \union {Nil} : f[n] = g[n]
<1>1. PICK S : S = {n \in N \union {Nil} : f[n] = g[n]}
  OBVIOUS
<1>2. \A n \in N, r \in Side : t.child[r][n] \in N \union {Nil}
  BY DEF Shape, Links
<1>3. N \subseteq S
  <2>1. ASSUME NEW n \in N, \A r \in Side : t.child[r][n] \in S
        PROVE  n \in S
    BY <2>1, <1>1
  <2>2. Nil \in S
    BY <1>1
  <2> QED BY <2>1, <2>2, UpFromLeaves
<1> QED BY <1>1, <1>3

\* Subtree collects the nodes at and below a node.
LEMMA SubtreeIs ==
  ASSUME NEW t, NEW N, NEW B, Shape(t, N, B), Loose(t, N)
  PROVE  \A n \in N \union {Nil} : Subtree(t, n) = B[n]
<1> DEFINE f == CHOOSE f : f = [m \in Cells |->
                  IF m = Nil THEN {}
                  ELSE {m} \union f[t.child["left"][m]] \union f[t.child["right"][m]]]
<1>1. PICK step : step = [a \in Keys \X (SUBSET Keys) \X (SUBSET Keys) |-> {a[1]} \union a[2] \union a[3]]
  OBVIOUS
<1>2. step \in [Keys \X (SUBSET Keys) \X (SUBSET Keys) -> SUBSET Keys] /\ {} \in SUBSET Keys
  BY <1>1
<1>3. PICK g \in [Cells -> SUBSET Keys] : Walks(t, g, Keys, {}, step)
  BY <1>2, WalkExists
<1>4. ASSUME NEW m \in Keys
      PROVE  g[m] = {m} \union g[t.child["left"][m]] \union g[t.child["right"][m]]
  <2>1. PICK a, b : a = g[t.child["left"][m]] /\ b = g[t.child["right"][m]]
    OBVIOUS
  <2>2. t \in Trees
    BY DEF Shape, Links
  <2>3. a \in SUBSET Keys /\ b \in SUBSET Keys
    BY <2>1, <2>2, TreeFields, CellsAreKeys, <1>3
  <2>4. g[m] = step[<<m, a, b>>]
    BY <2>1, <1>3 DEF Walks
  <2>5. g[m] = {m} \union a \union b
    BY <2>3, <2>4, <1>1
  <2> QED BY <2>1, <2>5
<1>5. g = [m \in Cells |-> IF m = Nil THEN {}
             ELSE {m} \union g[t.child["left"][m]] \union g[t.child["right"][m]]]
  <2>1. g[Nil] = {}
    BY <1>3 DEF Walks
  <2>2. \A m \in Cells : g[m] = IF m = Nil THEN {}
             ELSE {m} \union g[t.child["left"][m]] \union g[t.child["right"][m]]
    BY Zenon, <2>1, <1>4, CellsAreKeys
  <2> QED BY <2>2, <1>3
<1>6. f = [m \in Cells |-> IF m = Nil THEN {}
             ELSE {m} \union f[t.child["left"][m]] \union f[t.child["right"][m]]]
  BY Zenon, <1>5
<1>7. \A n : Subtree(t, n) = f[n]
  BY DEF Subtree
<1> HIDE DEF f
<1>8. N \subseteq Cells /\ Nil \in Cells /\ Nil \notin N
  BY KeysAreIntegers, CellsAreKeys DEF Shape, Links
<1>9. \A n \in N \union {Nil} : f[n] = B[n]
  <2>1. f[Nil] = B[Nil]
    BY Zenon, <1>6, <1>8 DEF Shape, Below
  <2>2. \A n \in N : f[n] = {n} \union f[t.child["left"][n]] \union f[t.child["right"][n]]
    BY <1>6, <1>8
  <2>3. \A n \in N : B[n] = {n} \union B[t.child["left"][n]] \union B[t.child["right"][n]]
    BY DEF Shape, Below
  <2>4. ASSUME NEW n \in N, \A r \in Side : f[t.child[r][n]] = B[t.child[r][n]]
        PROVE  f[n] = B[n]
    BY Zenon, <2>2, <2>3, <2>4, CellsAreKeys
  <2> QED BY <2>1, <2>4, WalkIsUnique
<1> QED BY <1>7, <1>9

\* BlackHeight counts the black nodes of every path, if all paths have as many.
LEMMA BlackHeightIs ==
  ASSUME NEW t, NEW N, NEW B, Shape(t, N, B), Loose(t, N), NEW spot, NEW H, Even(t, N, H, spot)
  PROVE  \A n \in N \union {Nil} : BlackHeight(t, n, spot) = H[n]
<1> DEFINE f == CHOOSE f : f = [m \in Cells |->
                  IF m = Nil THEN 0
                  ELSE f[t.child["left"][m]] + (IF t.color[m] = "black" THEN 1 ELSE 0)
                                             + (IF spot = <<m, "left">> THEN 1 ELSE 0)]
<1>1. PICK step : step = [a \in Keys \X Nat \X Nat |->
                            a[2] + (IF t.color[a[1]] = "black" THEN 1 ELSE 0)
                                 + (IF spot = <<a[1], "left">> THEN 1 ELSE 0)]
  OBVIOUS
<1>2. step \in [Keys \X Nat \X Nat -> Nat] /\ 0 \in Nat
  BY <1>1
<1>3. PICK g \in [Cells -> Nat] : Walks(t, g, Keys, 0, step)
  BY <1>2, WalkExists
<1>4. ASSUME NEW m \in Keys
      PROVE  g[m] = g[t.child["left"][m]] + (IF t.color[m] = "black" THEN 1 ELSE 0)
                                          + (IF spot = <<m, "left">> THEN 1 ELSE 0)
  <2>1. PICK a, b : a = g[t.child["left"][m]] /\ b = g[t.child["right"][m]]
    OBVIOUS
  <2>2. t \in Trees
    BY DEF Shape, Links
  <2>3. a \in Nat /\ b \in Nat
    BY <2>1, <2>2, TreeFields, CellsAreKeys, <1>3
  <2>4. g[m] = step[<<m, a, b>>]
    BY <2>1, <1>3 DEF Walks
  <2>5. g[m] = a + (IF t.color[m] = "black" THEN 1 ELSE 0) + (IF spot = <<m, "left">> THEN 1 ELSE 0)
    BY <2>3, <2>4, <1>1
  <2> QED BY <2>1, <2>5
<1>5. g = [m \in Cells |-> IF m = Nil THEN 0
             ELSE g[t.child["left"][m]] + (IF t.color[m] = "black" THEN 1 ELSE 0)
                                        + (IF spot = <<m, "left">> THEN 1 ELSE 0)]
  <2>1. g[Nil] = 0
    BY <1>3 DEF Walks
  <2>2. \A m \in Cells : g[m] = IF m = Nil THEN 0
             ELSE g[t.child["left"][m]] + (IF t.color[m] = "black" THEN 1 ELSE 0)
                                        + (IF spot = <<m, "left">> THEN 1 ELSE 0)
    BY Zenon, <2>1, <1>4, CellsAreKeys
  <2> QED BY Zenon, <2>2, <1>3
<1>6. f = [m \in Cells |-> IF m = Nil THEN 0
             ELSE f[t.child["left"][m]] + (IF t.color[m] = "black" THEN 1 ELSE 0)
                                        + (IF spot = <<m, "left">> THEN 1 ELSE 0)]
  BY Zenon, <1>5
<1>7. \A n : BlackHeight(t, n, spot) = f[n]
  BY DEF BlackHeight
<1> HIDE DEF f
<1>8. N \subseteq Cells /\ Nil \in Cells /\ Nil \notin N
  BY KeysAreIntegers, CellsAreKeys DEF Shape, Links
<1>9. /\ H \in [N \union {Nil} -> Nat] /\ H[Nil] = 0
      /\ \A n \in N : H[n] = H[t.child["left"][n]] + Extra(spot, n, "left") + Weight(t, n)
  BY CellsAreKeys DEF Even, EvenBut
<1>10. \A n \in N \union {Nil} : f[n] = H[n]
  <2>1. f[Nil] = 0
    BY <1>6, <1>8
  <2>2. \A n \in N : f[n] = f[t.child["left"][n]] + Weight(t, n) + Extra(spot, n, "left")
    BY Zenon, <1>6, <1>8 DEF Weight, Extra
  <2>3. ASSUME NEW n \in N, \A r \in Side : f[t.child[r][n]] = H[t.child[r][n]]
        PROVE  f[n] = H[n]
    <3>1. PICK h, w, e : h = H[t.child["left"][n]] /\ w = Weight(t, n) /\ e = Extra(spot, n, "left")
      OBVIOUS
    <3>2. h \in Nat /\ w \in {0, 1} /\ e \in {0, 1}
      BY <3>1, <1>9, ExtraIs, CellsAreKeys DEF Shape, Links
    <3>3. f[n] = h + w + e
      BY Zenon, <3>1, <2>2, <2>3, CellsAreKeys
    <3>4. H[n] = h + e + w
      BY Zenon, <3>1, <1>9
    <3> QED BY <3>2, <3>3, <3>4
  <2> QED BY <2>1, <2>3, <1>9, WalkIsUnique
<1> QED BY <1>7, <1>10

-----------------------------------------------------------------------------
\* The safety invariants.

\* At every step the tree has a shape and holds the nodes but the one that goes.
LEMMA TreeHas ==
  ASSUME TreeInv
  PROVE  \E B : Shape(tree, nodes \ {gone}, B) /\ Loose(tree, nodes \ {gone})
<1>1. nodes \subseteq Keys /\ Nil \notin nodes
  BY CellsAreKeys DEF TreeInv
<1>2. CASE pc = "idle"
  <2>1. Whole(tree, nodes) /\ nodes \ {gone} = nodes
    BY <1>1, <1>2 DEF TreeInv
  <2> QED BY <2>1, WholeHas
<1>3. CASE pc = "insert_fixup"
  <2>1. Rising(tree, nodes, at) /\ Bare(tree, nodes) /\ nodes \ {gone} = nodes
    BY <1>1, <1>3 DEF TreeInv
  <2>2. Loose(tree, nodes)
    BY <2>1 DEF Bare, Loose
  <2> QED BY <2>1, <2>2 DEF Rising
<1>4. CASE pc = "erase_fixup"
  BY <1>4 DEF TreeInv, Deficit
<1> QED BY <1>2, <1>3, <1>4 DEF TreeInv

\* The invariant implies the search order and the agreement of links, size and nodes.
LEMMA InvSearchTree ==
  ASSUME TreeInv
  PROVE  SearchTree
<1>1. PICK N : N = nodes \ {gone}
  BY Zenon
<1>2. PICK B : Shape(tree, N, B) /\ Loose(tree, N)
  BY <1>1, TreeHas
<1>3. \A n \in N \union {Nil} : Subtree(tree, n) = B[n]
  BY <1>2, SubtreeIs
<1>4. Attached(tree) = N
  BY <1>2, <1>3 DEF Attached, Shape, Links, Below
<1>5. tree.root # Nil => tree.parent[tree.root] = Nil
  BY <1>2 DEF Shape, Links
<1>6. ASSUME NEW n \in N, NEW s \in Side
      PROVE  /\ \A m \in Subtree(tree, tree.child[s][n]) : IF s = "left" THEN m < n ELSE n < m
             /\ tree.child[s][n] # Nil => tree.parent[tree.child[s][n]] = n
  <2>1. ChildFacts(tree, N, B, n, s)
    BY <1>2, ChildHas
  <2>2. Subtree(tree, tree.child[s][n]) = B[tree.child[s][n]]
    BY <2>1, <1>3 DEF ChildFacts
  <2>3. \A m \in B[tree.child[s][n]] : Before(s, m, n)
    BY <2>1 DEF ChildFacts
  <2>4. tree.child[s][n] # Nil => tree.parent[tree.child[s][n]] = n
    BY <2>1 DEF ChildFacts
  <2> QED BY <2>2, <2>3, <2>4 DEF Before
<1> QED BY <1>1, <1>4, <1>5, <1>6 DEF SearchTree

\* Red nodes that meet, and even heights, as the model states them.
LEMMA RedAboveIs ==
  ASSUME NEW t, NEW N, NEW B, Shape(t, N, B), t.color[Nil] = "black", NEW n \in N, RedAbove(t, n)
  PROVE  /\ t.parent[n] \in N /\ t.color[n] = "red" /\ t.color[t.parent[n]] = "red"
         /\ \E r \in Side : t.child[r][t.parent[n]] = n
<1>1. t.color[n] = "red" /\ t.color[t.parent[n]] = "red"
  BY DEF RedAbove
<1>2. NodeFacts(t, N, B, n)
  BY NodeHas
<1> QED BY <1>1, <1>2 DEF NodeFacts

\* In a tree with black heights the check of the two sides of every node succeeds.
LEMMA BalancedIs ==
  ASSUME NEW t, NEW N, NEW B, Shape(t, N, B), Loose(t, N), NEW spot, NEW H, Even(t, N, H, spot),
         NEW n \in N
  PROVE  Balanced(t, n, spot)
<1>1. PICK a, b : a = t.child["left"][n] /\ b = t.child["right"][n]
  OBVIOUS
<1>2. a \in N \union {Nil} /\ b \in N \union {Nil}
  BY <1>1, CellsAreKeys DEF Shape, Links
<1>3. BlackHeight(t, a, spot) = H[a] /\ BlackHeight(t, b, spot) = H[b]
  BY <1>2, BlackHeightIs
<1>4. /\ H[n] = H[a] + Extra(spot, n, "left") + Weight(t, n)
      /\ H[n] = H[b] + Extra(spot, n, "right") + Weight(t, n)
      /\ H[a] \in Nat /\ H[b] \in Nat
  BY <1>1, <1>2, CellsAreKeys DEF Even, EvenBut
<1>5. Extra(spot, n, "left") \in {0, 1} /\ Extra(spot, n, "right") \in {0, 1} /\ Weight(t, n) \in {0, 1}
  BY ExtraIs
<1>6. H[a] + Extra(spot, n, "left") = H[b] + Extra(spot, n, "right")
  BY <1>4, <1>5
<1> QED BY <1>1, <1>3, <1>6 DEF Balanced, Extra

\* The invariant implies what the two fixup loops keep true.
LEMMA InvLoop ==
  ASSUME TreeInv
  PROVE  LoopInv
<1>1. PICK N : N = nodes \ {gone}
  BY Zenon
<1>2. PICK B : Shape(tree, N, B) /\ Loose(tree, N)
  BY <1>1, TreeHas
<1>3. Nil \notin nodes
  BY CellsAreKeys DEF TreeInv
<1>4. tree.color[Nil] = "black"
  BY DEF TreeInv, Whole, NoRed, Rising, RedOnly, Deficit
<1>5. \A s \in Side : tree.child[s][Nil] = Nil
  BY <1>2 DEF Shape, Links
<1>6. ASSUME pc = "insert_fixup"
      PROVE  /\ tree.color[at] = "red"
             /\ \A n \in nodes : Balanced(tree, n, NoSpot) /\ (RedAbove(tree, n) => n = at)
             /\ tree.color[tree.root] = "red" => tree.root = at
  <2>1. Rising(tree, nodes, at) /\ N = nodes
    BY <1>1, <1>3, <1>6 DEF TreeInv
  <2>2. PICK H : Even(tree, nodes, H, NoSpot)
    BY <2>1 DEF Rising
  <2>3. \A n \in nodes : Balanced(tree, n, NoSpot)
    BY <1>2, <2>1, <2>2, BalancedIs
  <2>4. \A n \in nodes, r \in Side :
          tree.color[n] = "red" /\ tree.color[tree.child[r][n]] = "red" => tree.child[r][n] = at
    BY <2>1 DEF Rising, RedOnly
  <2>5. ASSUME NEW n \in nodes, RedAbove(tree, n)
        PROVE  n = at
    <3>1. PICK r \in Side : tree.child[r][tree.parent[n]] = n
      BY <1>2, <1>4, <2>1, <2>5, RedAboveIs
    <3>2. tree.parent[n] \in nodes /\ tree.color[n] = "red" /\ tree.color[tree.parent[n]] = "red"
      BY <1>2, <1>4, <2>1, <2>5, RedAboveIs
    <3> QED BY <3>1, <3>2, <2>4
  <2>6. tree.color[at] = "red" /\ (tree.color[tree.root] = "red" => tree.root = at)
    BY <2>1 DEF Rising, RedOnly
  <2> QED BY <2>3, <2>5, <2>6
<1>7. ASSUME pc = "erase_fixup"
      PROVE  /\ at # tree.root => at \in {tree.child[s][tree.parent[at]] : s \in Side}
             /\ \A n \in nodes \ {gone} :
                  /\ RedAbove(tree, n) => at \in {n, tree.parent[n]}
                  /\ Balanced(tree, n, IF at = tree.root THEN NoSpot ELSE <<tree.parent[at], AtSide>>)
  <2>1. Deficit(tree, N, at)
    BY <1>1, <1>7 DEF TreeInv
  <2>2. Gap(tree, N, at, "black") /\ at \in N \union {Nil}
    BY <2>1 DEF Deficit, Gap
  <2>3. ASSUME NEW n \in N, RedAbove(tree, n)
        PROVE  at \in {n, tree.parent[n]}
    <3>1. PICK r \in Side : tree.child[r][tree.parent[n]] = n
      BY <1>2, <1>4, <2>3, RedAboveIs
    <3>2. tree.parent[n] \in N /\ tree.color[n] = "red" /\ tree.color[tree.parent[n]] = "red"
      BY <1>2, <1>4, <2>3, RedAboveIs
    <3> QED BY <3>1, <3>2, <2>1 DEF Deficit
  <2>4. PICK spot : spot = IF at = tree.root THEN NoSpot ELSE <<tree.parent[at], AtSide>>
    OBVIOUS
  <2>5. /\ \E H : Even(tree, N, H, spot)
        /\ at # tree.root => at \in {tree.child[s][tree.parent[at]] : s \in Side}
    <3>1. CASE at = tree.root
      <4>1. ~ \E p \in N : tree.parent[at] = p
        BY <3>1, <1>1, <1>2, <1>3 DEF Shape, Links, Below
      <4> QED BY <3>1, <4>1, <2>2, <2>4 DEF Gap
    <3>2. CASE at # tree.root
      <4>1. PICK p \in N, q \in Side :
              tree.parent[at] = p /\ tree.child[q][p] = at /\ \E H : Even(tree, N, H, <<p, q>>)
        BY <3>2, <2>2 DEF Gap
      <4>2. SideOf(tree, at) = q
        BY <4>1, <1>2, <2>2, SpotSide
      <4>3. spot = <<p, q>>
        BY <3>2, <4>1, <4>2, <2>4 DEF AtSide
      <4> QED BY <4>1, <4>3
    <3> QED BY <3>1, <3>2
  <2>6. \A n \in N : Balanced(tree, n, spot)
    BY <2>5, <1>2, BalancedIs
  <2> QED BY <1>1, <2>3, <2>4, <2>5, <2>6
<1> QED BY <1>4, <1>5, <1>6, <1>7 DEF LoopInv

-----------------------------------------------------------------------------
\* The height.

\* Powers of two, from the number of subsets.
LEMMA PowerDoubles ==
  ASSUME NEW n \in Nat
  PROVE  2 ^ n \in Nat /\ 2 ^ (n + 1) = 2 ^ n + 2 ^ n
<1>1. PICK A, x : A = 1..n /\ x = n + 1
  OBVIOUS
<1>2. IsFiniteSet(A) /\ Cardinality(A) = n
  BY <1>1, FS_Interval
<1>3. x \notin A
  BY <1>1
<1>4. IsFiniteSet(A \union {x}) /\ Cardinality(A \union {x}) = n + 1
  BY <1>2, <1>3, FS_AddElement
<1>5. PICK S, T : S = SUBSET A /\ T = {b \union {x} : b \in S}
  OBVIOUS
<1>6. IsFiniteSet(S) /\ Cardinality(S) = 2 ^ n
  BY Zenon, <1>2, <1>5, FS_SUBSET
<1>7. Cardinality(SUBSET (A \union {x})) = 2 ^ (n + 1)
  BY Zenon, <1>4, FS_SUBSET
<1>8. SUBSET (A \union {x}) = S \union T
  <2>1. ASSUME NEW c \in SUBSET (A \union {x})
        PROVE  c \in S \union T
    <3>1. CASE x \in c
      <4>1. c \ {x} \in S /\ c = (c \ {x}) \union {x}
        BY <3>1, <1>5
      <4> QED BY <4>1, <1>5
    <3>2. CASE x \notin c
      BY <3>2, <1>5
    <3> QED BY <3>1, <3>2
  <2>2. S \union T \subseteq SUBSET (A \union {x})
    BY <1>5
  <2> QED BY <2>1, <2>2
<1>9. ExistsBijection(S, T)
  <2>1. PICK f : f = [b \in S |-> b \union {x}]
    OBVIOUS
  <2>2. f \in [S -> T]
    BY <2>1, <1>5
  <2>3. ASSUME NEW b \in S, NEW c \in S, f[b] = f[c]
        PROVE  b = c
    <3>1. b \union {x} = c \union {x}
      BY <2>1, <2>3
    <3>2. x \notin b /\ x \notin c
      BY <1>3, <1>5
    <3> QED BY <3>1, <3>2
  <2>4. \A d \in T : \E b \in S : f[b] = d
    BY <2>1, <1>5
  <2>5. f \in Bijection(S, T)
    BY Zenon, <2>2, <2>3, <2>4, Fun_IsBij
  <2> QED BY <2>5 DEF ExistsBijection
<1>10. IsFiniteSet(T) /\ Cardinality(T) = 2 ^ n
  BY <1>6, <1>9, FS_Bijection
<1>11. S \intersect T = {}
  BY <1>3, <1>5
<1>12. /\ Cardinality(S \union T) = Cardinality(S) + Cardinality(T) - Cardinality(S \intersect T)
       /\ Cardinality(S \intersect T) = 0
  BY <1>6, <1>10, <1>11, FS_Union, FS_EmptySet
<1>13. PICK c, d : c = Cardinality(S) /\ d = Cardinality(S \union T)
  OBVIOUS
<1>14. c \in Nat /\ d = c + c
  <2>1. c \in Nat
    BY <1>6, <1>13, FS_CardinalityType
  <2>2. Cardinality(T) = c
    BY Zenon, <1>6, <1>10, <1>13
  <2> QED BY <2>1, <2>2, <1>12, <1>13
<1> QED BY Zenon, <1>6, <1>7, <1>8, <1>13, <1>14

\* A larger exponent makes a larger power of two.
LEMMA PowerGrows ==
  ASSUME NEW n \in Nat, NEW m \in Nat, n <= m
  PROVE  2 ^ n <= 2 ^ m
<1> DEFINE S == {k \in Nat : n <= k /\ ~(2 ^ n <= 2 ^ k)}
<1> SUFFICES ASSUME S # {} PROVE FALSE
  OBVIOUS
<1>1. PICK k \in S : \A j \in S : ~ (<<j, k>> \in OpToRel(<, Nat))
  <2>1. S \in SUBSET Nat
    OBVIOUS
  <2> HIDE DEF S
  <2> QED BY Zenon, <2>1, NatLessThanWellFounded, WFMin
<1>2. k \in Nat /\ n <= k /\ ~(2 ^ n <= 2 ^ k)
  OBVIOUS
<1>3. k # n
  BY <1>2, PowerDoubles
<1>4. PICK j : j = k - 1
  OBVIOUS
<1>5. j \in Nat /\ n <= j /\ j < k /\ k = j + 1
  BY <1>2, <1>3, <1>4
<1>6. 2 ^ k = 2 ^ j + 2 ^ j /\ 2 ^ j \in Nat /\ 2 ^ n \in Nat
  BY <1>5, PowerDoubles
<1>7. ~(2 ^ n <= 2 ^ j)
  BY <1>2, <1>6
<1> QED BY <1>1, <1>2, <1>5, <1>7 DEF OpToRel

\* A tree with h black nodes on each path has at least 2^h - 1 nodes.
LEMMA ManyNodes ==
  ASSUME NEW t, NEW N, NEW B, Shape(t, N, B), NEW H, Even(t, N, H, NoSpot)
  PROVE  \A n \in N \union {Nil} : /\ IsFiniteSet(B[n]) /\ Cardinality(B[n]) \in Nat
                                   /\ 2 ^ H[n] <= Cardinality(B[n]) + 1
<1> DEFINE P(n) == 2 ^ H[n] <= Cardinality(B[n]) + 1
           S == {n \in N \union {Nil} : P(n)}
<1>1. \A n \in N \union {Nil} : IsFiniteSet(B[n]) /\ Cardinality(B[n]) \in Nat
  <2>1. \A n \in N \union {Nil} : B[n] \subseteq N
    BY DEF Shape, Below
  <2> QED BY <2>1, FS_Subset, FS_CardinalityType DEF Shape, Links
<1>2. /\ Heights(t, N, H) /\ H \in [N \union {Nil} -> Nat] /\ H[Nil] = 0
      /\ \A n \in N, r \in Side : H[n] = H[t.child[r][n]] + Weight(t, n)
  <2>1. Heights(t, N, H)
    BY EvenIs
  <2> QED BY <2>1 DEF Heights
<1>3. Nil \in S
  <2>1. 1 = 2 ^ 0
    OBVIOUS
  <2>2. 2 ^ H[Nil] = 1
    BY Zenon, <2>1, <1>2
  <2>3. Cardinality(B[Nil]) = 0
    BY FS_EmptySet DEF Shape, Below
  <2>4. 1 <= 0 + 1
    OBVIOUS
  <2>5. P(Nil)
    BY Zenon, <2>2, <2>3, <2>4
  <2> QED BY <2>5
<1>4. ASSUME NEW n \in N, \A r \in Side : t.child[r][n] \in S
      PROVE  n \in S
  <2>1. PICK a, b : a = t.child["left"][n] /\ b = t.child["right"][n]
    OBVIOUS
  <2>2. ChildFacts(t, N, B, n, "left")
    BY CellsAreKeys, ChildHas
  <2>3. ChildFacts(t, N, B, n, "right")
    BY CellsAreKeys, ChildHas
  <2>4. /\ a \in N \union {Nil} /\ b \in N \union {Nil}
        /\ B[n] = {n} \union B[a] \union B[b] /\ B[a] \intersect B[b] = {}
        /\ n \notin B[a] /\ n \notin B[b]
    BY <2>1, <2>2, <2>3, CellsAreKeys DEF ChildFacts
  <2>5. PICK h, w : h = H[a] /\ w = Weight(t, n)
    OBVIOUS
  <2>6. h \in Nat /\ w \in {0, 1} /\ H[b] = h /\ H[n] = h + w
    <3>1. H[n] = H[a] + w /\ H[n] = H[b] + w
      BY <1>2, <2>1, <2>5, CellsAreKeys
    <3>2. H[a] \in Nat /\ H[b] \in Nat /\ w \in {0, 1}
      BY <1>2, <2>4, <2>5, ExtraIs
    <3> QED BY <3>1, <3>2, <2>5
  <2>7. PICK ca, cb, e : ca = Cardinality(B[a]) /\ cb = Cardinality(B[b]) /\ e = 2 ^ h
    OBVIOUS
  <2>8. ca \in Nat /\ cb \in Nat /\ e <= ca + 1 /\ e <= cb + 1
    <3>1. P(a) /\ P(b)
      BY <1>4, <2>1, CellsAreKeys
    <3> QED BY <3>1, <2>4, <2>5, <2>6, <2>7, <1>1
  <2>9. Cardinality(B[n]) = ca + cb + 1
    <3>1. /\ Cardinality(B[a] \union B[b]) = ca + cb - Cardinality(B[a] \intersect B[b])
          /\ IsFiniteSet(B[a] \union B[b])
      BY <1>1, <2>4, <2>7, FS_Union
    <3>2. Cardinality(B[a] \union B[b]) = ca + cb
      BY <3>1, <2>4, <2>8, FS_EmptySet
    <3>3. n \notin B[a] \union B[b] /\ B[n] = (B[a] \union B[b]) \union {n}
      BY <2>4
    <3> QED BY <3>1, <3>2, <3>3, FS_AddElement
  <2>10. e \in Nat /\ 2 ^ (h + 1) = e + e
    BY <2>6, <2>7, PowerDoubles
  <2>11. 2 ^ H[n] <= e + e
    <3>1. H[n] = h \/ H[n] = h + 1
      BY <2>6
    <3>2. 2 ^ H[n] = e \/ 2 ^ H[n] = e + e
      BY Zenon, <3>1, <2>7, <2>10
    <3> QED BY <3>2, <2>10
  <2>12. P(n)
    <3>1. PICK v : v = 2 ^ H[n]
      OBVIOUS
    <3>2. v \in Nat
      BY <3>1, <2>6, PowerDoubles
    <3>3. v <= ca + cb + 1 + 1
      BY <3>1, <3>2, <2>8, <2>10, <2>11
    <3> QED BY <3>1, <3>3, <2>9
  <2> QED BY <2>12
<1>5. N \subseteq S
  <2> HIDE DEF S
  <2> QED BY <1>3, <1>4, UpFromLeaves
<1> QED BY <1>1, <1>3, <1>5

\* Height goes by the children, and a path has at most twice as many nodes as black ones.
LEMMA HeightWalk ==
  ASSUME NEW t, NEW N, NEW B, Shape(t, N, B), Loose(t, N)
  PROVE  \E f : /\ f \in [Cells -> Nat] /\ f[Nil] = 0 /\ Height(t) = f[t.root]
                /\ \A n \in N : LET l == f[t.child["left"][n]]
                                    r == f[t.child["right"][n]]
                                IN  f[n] = 1 + (IF l < r THEN r ELSE l)
<1> DEFINE f == CHOOSE f : f = [m \in Cells |->
                  IF m = Nil THEN 0
                  ELSE LET l == f[t.child["left"][m]]
                           r == f[t.child["right"][m]]
                       IN  1 + (IF l < r THEN r ELSE l)]
<1>1. PICK step : step = [a \in Keys \X Nat \X Nat |-> 1 + (IF a[2] < a[3] THEN a[3] ELSE a[2])]
  OBVIOUS
<1>2. step \in [Keys \X Nat \X Nat -> Nat] /\ 0 \in Nat
  BY <1>1
<1>3. PICK g \in [Cells -> Nat] : Walks(t, g, Keys, 0, step)
  BY <1>2, WalkExists
<1>4. ASSUME NEW m \in Keys
      PROVE  g[m] = LET l == g[t.child["left"][m]]
                        r == g[t.child["right"][m]]
                    IN  1 + (IF l < r THEN r ELSE l)
  <2>1. PICK a, b : a = g[t.child["left"][m]] /\ b = g[t.child["right"][m]]
    OBVIOUS
  <2>2. t \in Trees
    BY DEF Shape, Links
  <2>3. a \in Nat /\ b \in Nat
    BY <2>1, <2>2, TreeFields, CellsAreKeys, <1>3
  <2>4. g[m] = step[<<m, a, b>>]
    BY <2>1, <1>3 DEF Walks
  <2>5. g[m] = 1 + (IF a < b THEN b ELSE a)
    BY <2>3, <2>4, <1>1
  <2> QED BY Zenon, <2>1, <2>5
<1>5. g[Nil] = 0
  BY <1>3 DEF Walks
<1>6. \A m \in Cells : g[m] = IF m = Nil THEN 0
                              ELSE LET l == g[t.child["left"][m]]
                                       r == g[t.child["right"][m]]
                                   IN  1 + (IF l < r THEN r ELSE l)
  BY Zenon, <1>4, <1>5, CellsAreKeys
<1>7. g = [m \in Cells |-> IF m = Nil THEN 0
                           ELSE LET l == g[t.child["left"][m]]
                                    r == g[t.child["right"][m]]
                                IN  1 + (IF l < r THEN r ELSE l)]
  BY Zenon, <1>3, <1>6
<1>8. f = [m \in Cells |-> IF m = Nil THEN 0
                           ELSE LET l == f[t.child["left"][m]]
                                    r == f[t.child["right"][m]]
                                IN  1 + (IF l < r THEN r ELSE l)]
  BY Zenon, <1>7
<1>9. Height(t) = f[t.root]
  BY DEF Height
<1> HIDE DEF f
<1>10. N \subseteq Keys
  BY DEF Shape, Links
<1>11. f[Nil] = 0 /\ g[Nil] = 0
  BY <1>5, <1>8, CellsAreKeys
<1>12. \A n \in N : f[n] = LET l == f[t.child["left"][n]]
                               r == f[t.child["right"][n]]
                           IN  1 + (IF l < r THEN r ELSE l)
  BY Zenon, <1>8, <1>10, CellsAreKeys
<1>13. \A n \in N \union {Nil} : f[n] = g[n]
  <2>1. ASSUME NEW n \in N, \A r \in Side : f[t.child[r][n]] = g[t.child[r][n]]
        PROVE  f[n] = g[n]
    BY Zenon, <2>1, <1>4, <1>10, <1>12, CellsAreKeys
  <2> QED BY <2>1, <1>11, WalkIsUnique
<1>14. Height(t) = g[t.root]
  BY <1>9, <1>13 DEF Shape, Links
<1> QED BY Zenon, <1>3, <1>4, <1>5, <1>10, <1>14

\* With no red node below a red one, a tree is at most twice as high as its black height.
LEMMA HeightIs ==
  ASSUME NEW t, NEW N, NEW B, Shape(t, N, B), Loose(t, N), NoRed(t, N),
         NEW H, Even(t, N, H, NoSpot)
  PROVE  Height(t) \in Nat /\ Height(t) <= 2 * H[t.root]
<1>1. PICK f : /\ f \in [Cells -> Nat] /\ f[Nil] = 0 /\ Height(t) = f[t.root]
               /\ \A n \in N : LET l == f[t.child["left"][n]]
                                   r == f[t.child["right"][n]]
                               IN  f[n] = 1 + (IF l < r THEN r ELSE l)
  BY HeightWalk
<1> DEFINE P(n) == f[n] <= 2 * H[n] + 1 - Weight(t, n)
           S == {n \in N \union {Nil} : P(n)}
<1>2. /\ H \in [N \union {Nil} -> Nat] /\ H[Nil] = 0
      /\ \A n \in N, r \in Side : H[n] = H[t.child[r][n]] + Weight(t, n)
  <2>1. Heights(t, N, H)
    BY EvenIs
  <2> QED BY <2>1 DEF Heights
<1>3. /\ t \in Trees /\ N \subseteq Keys /\ N \subseteq Cells /\ t.root \in N \union {Nil}
      /\ \A n \in N, r \in Side : t.child[r][n] \in N \union {Nil}
  BY CellsAreKeys DEF Shape, Links
<1>4. /\ t.color[Nil] = "black" /\ t.color[t.root] = "black"
      /\ \A n \in N, r \in Side : ~(t.color[n] = "red" /\ t.color[t.child[r][n]] = "red")
  BY DEF NoRed
<1>5. Nil \in S
  <2>1. Weight(t, Nil) = 1
    BY <1>4 DEF Weight
  <2> QED BY <2>1, <1>1, <1>2
<1>6. ASSUME NEW n \in N, \A r \in Side : t.child[r][n] \in S
      PROVE  n \in S
  <2>1. PICK a, b : a = t.child["left"][n] /\ b = t.child["right"][n]
    OBVIOUS
  <2>2. a \in N \union {Nil} /\ b \in N \union {Nil} /\ a \in Cells /\ b \in Cells
    BY <2>1, <1>3, CellsAreKeys
  <2>3. P(a) /\ P(b)
    BY <1>6, <2>1, CellsAreKeys
  <2>4. PICK h, w, wa, wb : h = H[a] /\ w = Weight(t, n) /\ wa = Weight(t, a) /\ wb = Weight(t, b)
    OBVIOUS
  <2>5. h \in Nat /\ w \in {0, 1} /\ wa \in {0, 1} /\ wb \in {0, 1} /\ H[b] = h /\ H[n] = h + w
    <3>1. H[n] = H[a] + w /\ H[n] = H[b] + w
      BY <1>2, <2>1, <2>4, CellsAreKeys
    <3>2. H[a] \in Nat /\ H[b] \in Nat
      BY <1>2, <2>2
    <3>3. w \in {0, 1} /\ wa \in {0, 1} /\ wb \in {0, 1}
      BY <2>4, ExtraIs
    <3> QED BY <3>1, <3>2, <3>3, <2>4
  <2>6. w = 0 => wa = 1 /\ wb = 1
    <3>1. w = 0 => t.color[n] = "red"
      BY <2>4, <1>3, TreeFields DEF Weight
    <3>2. t.color[n] = "red" => t.color[a] = "black" /\ t.color[b] = "black"
      BY <2>1, <2>2, <1>3, <1>4, TreeFields, CellsAreKeys
    <3> QED BY <3>1, <3>2, <2>4 DEF Weight
  <2>7. PICK fa, fb : fa = f[a] /\ fb = f[b]
    OBVIOUS
  <2>8. fa \in Nat /\ fb \in Nat /\ fa <= 2 * h + 1 - wa /\ fb <= 2 * h + 1 - wb
    BY <1>1, <2>2, <2>3, <2>4, <2>5, <2>7
  <2>9. f[n] = 1 + (IF fa < fb THEN fb ELSE fa)
    BY Zenon, <1>1, <2>1, <2>7
  <2>10. f[n] <= 2 * (h + w) + 1 - w
    BY <2>5, <2>6, <2>8, <2>9
  <2>11. P(n)
    BY Zenon, <2>4, <2>5, <2>10
  <2> QED BY <2>11
<1>7. N \subseteq S
  <2> HIDE DEF S
  <2> QED BY <1>5, <1>6, UpFromLeaves
<1>8. P(t.root) /\ Weight(t, t.root) = 1
  BY <1>3, <1>4, <1>5, <1>7 DEF Weight
<1>9. H[t.root] \in Nat /\ f[t.root] \in Nat
  BY <1>1, <1>2, <1>3, CellsAreKeys
<1> QED BY <1>1, <1>8, <1>9

\* Between two calls the invariant implies the red-black rules and the bound on the height.
LEMMA InvRedBlack ==
  ASSUME TreeInv
  PROVE  RedBlack
<1> SUFFICES ASSUME pc = "idle"
             PROVE  /\ tree.color[tree.root] = "black"
                    /\ \A n \in nodes : ~RedAbove(tree, n) /\ Balanced(tree, n, NoSpot)
                    /\ size = Cardinality(nodes)
                    /\ VerifyInvariants(tree)
                    /\ 2 ^ (Height(tree) \div 2) <= Cardinality(nodes) + 1
  BY DEF RedBlack
<1>1. Whole(tree, nodes) /\ size = Cardinality(nodes)
  BY DEF TreeInv
<1>2. PICK B, H : /\ Shape(tree, nodes, B) /\ Even(tree, nodes, H, NoSpot)
                  /\ NoRed(tree, nodes) /\ Loose(tree, nodes)
  BY <1>1, WholeHas
<1>3. /\ tree.color[Nil] = "black" /\ tree.color[tree.root] = "black"
      /\ \A n \in nodes, r \in Side :
           ~(tree.color[n] = "red" /\ tree.color[tree.child[r][n]] = "red")
  BY <1>2 DEF NoRed
<1>4. \A n \in nodes : ~RedAbove(tree, n)
  <2> SUFFICES ASSUME NEW n \in nodes, RedAbove(tree, n) PROVE FALSE
    OBVIOUS
  <2>1. PICK r \in Side : tree.child[r][tree.parent[n]] = n
    BY <1>2, <1>3, RedAboveIs
  <2>2. tree.parent[n] \in nodes /\ tree.color[n] = "red" /\ tree.color[tree.parent[n]] = "red"
    BY <1>2, <1>3, RedAboveIs
  <2> QED BY <2>1, <2>2, <1>3
<1>5. \A n \in nodes : Balanced(tree, n, NoSpot)
  BY <1>2, BalancedIs
<1>6. VerifyInvariants(tree)
  <2>1. Attached(tree) = nodes
    <3>1. tree.root \in nodes \union {Nil} /\ B[tree.root] = nodes
      BY <1>2 DEF Shape, Links, Below
    <3> QED BY <3>1, <1>2, SubtreeIs DEF Attached
  <2>2. ASSUME NEW n \in nodes, NEW s \in Side, NEW c, c = tree.child[s][n]
        PROVE  /\ tree.color[n] = "red" => tree.color[c] # "red"
               /\ c # Nil => /\ IF s = "left" THEN c < n ELSE n < c
                             /\ tree.parent[c] = n
    <3>1. ChildFacts(tree, nodes, B, n, s)
      BY <1>2, ChildHas
    <3>2. c # Nil => Before(s, c, n) /\ tree.parent[c] = n
      BY <3>1, <2>2 DEF ChildFacts
    <3> QED BY <3>2, <2>2, <1>3 DEF Before
  <2> QED BY <2>1, <2>2, <1>3 DEF VerifyInvariants
<1>7. 2 ^ (Height(tree) \div 2) <= Cardinality(nodes) + 1
  <2>1. PICK h, k : h = Height(tree) /\ k = H[tree.root]
    OBVIOUS
  <2>2. tree.root \in nodes \union {Nil} /\ B[tree.root] = nodes
    BY <1>2 DEF Shape, Links, Below
  <2>3. h \in Nat /\ k \in Nat /\ h <= 2 * k
    <3>1. h \in Nat /\ h <= 2 * k
      BY <1>2, <2>1, HeightIs
    <3>2. k \in Nat
      BY <1>2, <2>1, <2>2 DEF Even, EvenBut
    <3> QED BY <3>1, <3>2
  <2>4. PICK d : d = h \div 2
    OBVIOUS
  <2>5. d \in Nat /\ d <= k
    BY <2>3, <2>4
  <2>6. PICK vd, vk, c : vd = 2 ^ d /\ vk = 2 ^ k /\ c = Cardinality(nodes)
    OBVIOUS
  <2>7. vd \in Nat /\ vk \in Nat
    BY <2>3, <2>5, <2>6, PowerDoubles
  <2>8. vd <= vk
    BY <2>3, <2>5, <2>6, PowerGrows
  <2>9. vk <= c + 1 /\ c \in Nat
    BY <1>2, <2>1, <2>2, <2>6, ManyNodes
  <2>10. vd <= c + 1
    BY <2>7, <2>8, <2>9
  <2> QED BY Zenon, <2>1, <2>4, <2>6, <2>10
<1> QED BY <1>1, <1>3, <1>4, <1>5, <1>6, <1>7

-----------------------------------------------------------------------------
\* The iterator's moves in key order.

\* n is the first of the keys S from side s, or Nil if there are none.
Extreme(s, S, n) ==
  IF S = {} THEN n = Nil ELSE n \in S /\ \A m \in S : m = n \/ Before(s, n, m)

\* The nodes of N on side s of k.
Beyond(N, s, k) == {m \in N : Before(s, m, k)}

\* A finite set of keys has an outermost one on each side, unless it is empty.
LEMMA ExtremeExists ==
  ASSUME NEW N, N \subseteq Keys, IsFiniteSet(N), NEW s \in Side, NEW S \in SUBSET N
  PROVE  \E n : Extreme(s, S, n)
<1>1. CASE S = {}
  BY <1>1 DEF Extreme
<1>2. CASE S # {}
  <2> DEFINE U(m) == {k \in S : k = m \/ Before(s, k, m)}
  <2>1. PICK T : T = {U(m) : m \in S}
    OBVIOUS
  <2>2. T \in SUBSET (SUBSET S) /\ T # {} /\ IsFiniteSet(S)
    <3>1. IsFiniteSet(S)
      BY FS_Subset
    <3>2. \A m \in S : U(m) \in SUBSET S
      OBVIOUS
    <3> HIDE DEF U
    <3> QED BY <1>2, <2>1, <3>1, <3>2
  <2>3. PICK a \in T : \A b \in T : b \subseteq a => b = a
    BY <2>2, LeastSet
  <2>4. PICK n \in S : a = U(n)
    BY <2>1
  <2>5. ASSUME NEW m \in S, m # n
        PROVE  Before(s, n, m)
    <3>1. \A k \in S : k \in Int
      BY CellsAreKeys
    <3>2. SUFFICES ASSUME Before(s, m, n) PROVE FALSE
      BY <2>5, <3>1, BeforeIsOrder
    <3>3. U(m) \subseteq U(n)
      BY <3>1, <3>2, BeforeIsOrder
    <3>4. U(m) = U(n)
      BY <2>1, <2>3, <2>4, <3>3
    <3>5. n \in U(m)
      BY <3>4
    <3> QED BY <2>5, <3>1, <3>2, <3>5, BeforeIsOrder
  <2> QED BY <1>2, <2>5 DEF Extreme
<1> QED BY <1>1, <1>2

\* A key that is not below n is on one side of all that is.
LEMMA Apart ==
  ASSUME NEW t, NEW N, NEW B, Shape(t, N, B), NEW s \in Side, NEW n \in N, NEW k \in N \ B[n]
  PROVE  (\A j \in B[n] : Before(s, k, j)) \/ (\A j \in B[n] : Before(Mirror(s), k, j))
<1> DEFINE P(m) == \A i \in N \ B[m] : (\A j \in B[m] : Before(s, i, j)) \/ (\A j \in B[m] : Before(Mirror(s), i, j))
           S == {m \in N \union {Nil} : m \in N => P(m)}
<1>1. /\ N \subseteq Keys /\ (\A m \in N : m \in Int /\ m # Nil) /\ B[t.root] = N
      /\ t.root \in N \union {Nil}
  BY CellsAreKeys DEF Shape, Links, Below
<1>2. t.root \in S
  BY <1>1
<1>3. ASSUME NEW m \in N, t.parent[m] \in S
      PROVE  m \in S
  <2>1. CASE m = t.root
    BY <2>1, <1>2
  <2>2. CASE m # t.root
    <3>1. PICK p, q : p = t.parent[m] /\ q = SideOf(t, m)
      OBVIOUS
    <3>2. p \in N /\ q \in Side /\ t.child[q][p] = m
      BY <2>2, <3>1, NodeHas DEF NodeFacts
    <3>3. PICK d : d = t.child[Mirror(q)][p]
      OBVIOUS
    <3>4. Mirror(q) \in Side /\ Mirror(Mirror(q)) = q /\ (q = s \/ q = Mirror(s)) /\ Mirror(Mirror(s)) = s
      BY <3>2, Sides
    <3>5. ChildFacts(t, N, B, p, q) /\ ChildFacts(t, N, B, p, Mirror(q))
      BY <3>2, <3>4, ChildHas
    <3>6. /\ B[p] = {p} \union B[m] \union B[d] /\ B[m] \subseteq N /\ B[d] \subseteq N
          /\ (\A j \in B[m] : Before(q, j, p)) /\ (\A j \in B[d] : Before(Mirror(q), j, p))
      BY <3>2, <3>3, <3>5 DEF ChildFacts
    <3>7. ASSUME NEW i \in N \ B[m]
          PROVE  (\A j \in B[m] : Before(s, i, j)) \/ (\A j \in B[m] : Before(Mirror(s), i, j))
      <4>1. CASE i \notin B[p]
        <5>1. P(p)
          BY <1>3, <3>1, <3>2
        <5> QED BY <5>1, <4>1, <3>6
      <4>2. CASE i \in B[p]
        <5>1. i = p \/ Before(Mirror(q), i, p)
          BY <4>2, <3>6
        <5>2. \A j \in B[m] : Before(Mirror(q), p, j)
          BY <3>2, <3>6, <1>1, BeforeIsOrder
        <5>3. \A j \in B[m] : Before(Mirror(q), i, j)
          BY <5>1, <5>2, <3>2, <3>4, <3>6, <1>1, BeforeIsOrder
        <5> QED BY <5>3, <3>4
      <4> QED BY <4>1, <4>2
    <3> QED BY <3>7
  <2> QED BY <2>1, <2>2
<1>4. N \subseteq S
  <2> HIDE DEF S
  <2> QED BY <1>2, <1>3, DownFromRoot
<1>5. P(n)
  BY <1>4
<1> QED BY <1>5

\* The nodes on side s of all that is below n.
Past(N, B, s, n) == {k \in N : \A j \in B[n] : Before(s, k, j)}

\* The climb of Neighbour: the walk up to the first node that is reached from its other
\* side ends at the nearest node beyond all that is below n.
LEMMA ClimbStep ==
  ASSUME NEW t, NEW N, NEW B, Shape(t, N, B), NEW s \in Side, NEW n \in N,
         NEW p, p = t.parent[n]
  PROVE  /\ p = Nil => Past(N, B, s, n) = {}
         /\ p # Nil => /\ p \in N
                       /\ n = t.child[s][p] => Past(N, B, s, n) = Past(N, B, s, p)
                       /\ n # t.child[s][p] => Extreme(Mirror(s), Past(N, B, s, n), p)
<1>1. /\ N \subseteq Keys /\ (\A m \in N : m \in Int /\ m # Nil) /\ B[t.root] = N
  BY CellsAreKeys DEF Shape, Links, Below
<1>2. n \in B[n] /\ B[n] \subseteq N /\ (n = t.root <=> p = Nil)
  BY NodeHas DEF NodeFacts
<1>3. Past(N, B, s, n) = {k \in N : \A j \in B[n] : Before(s, k, j)}
  BY DEF Past
<1>4. CASE p = Nil
  <2>1. B[n] = N
    BY <1>1, <1>2, <1>4
  <2>2. \A k \in N : ~Before(s, k, k)
    BY <1>1, BeforeIsOrder
  <2> QED BY <1>3, <1>4, <2>1, <2>2
<1>5. CASE p # Nil
  <2>1. PICK q : q = SideOf(t, n)
    OBVIOUS
  <2>2. p \in N /\ q \in Side /\ t.child[q][p] = n
    BY <1>2, <1>5, <2>1, NodeHas DEF NodeFacts
  <2>3. PICK d : d = t.child[Mirror(q)][p]
    OBVIOUS
  <2>4. Mirror(q) \in Side /\ Mirror(Mirror(q)) = q /\ Mirror(q) # q /\ (q = s \/ q = Mirror(s)) /\ Mirror(s) \in Side
        /\ Mirror(Mirror(s)) = s
    BY <2>2, Sides
  <2>5. ChildFacts(t, N, B, p, q) /\ ChildFacts(t, N, B, p, Mirror(q))
    BY <2>2, <2>4, ChildHas
  <2>6. /\ B[p] = {p} \union B[n] \union B[d] /\ B[d] \subseteq N /\ d # n
        /\ (\A j \in B[n] : Before(q, j, p)) /\ (\A j \in B[d] : Before(Mirror(q), j, p))
    BY Zenon, <2>2, <2>3, <2>5, <1>1 DEF ChildFacts
  <2>7. Past(N, B, s, p) = {k \in N : \A j \in B[p] : Before(s, k, j)}
    BY DEF Past
  <2>8. ASSUME NEW k \in Past(N, B, s, n), k \notin B[p]
        PROVE  k \in Past(N, B, s, p)
    <3>1. (\A j \in B[p] : Before(s, k, j)) \/ (\A j \in B[p] : Before(Mirror(s), k, j))
      BY <1>3, <2>2, <2>8, Apart
    <3>2. Before(s, k, n) /\ n \in B[p] /\ k \in N
      BY <1>2, <1>3, <2>6, <2>8
    <3>3. ~Before(Mirror(s), k, n)
      BY <3>2, <1>1, <2>4, BeforeIsOrder
    <3> QED BY <2>7, <3>1, <3>2, <3>3
  <2>9. CASE n = t.child[s][p]
    <3>1. q = s
      BY Zenon, <2>3, <2>4, <2>6, <2>9
    <3>2. \A k \in Past(N, B, s, n) : k \notin B[p]
      <4> SUFFICES ASSUME NEW k \in Past(N, B, s, n), k \in B[p] PROVE FALSE
        OBVIOUS
      <4>1. k \in N /\ Before(s, k, n) /\ k \notin B[n]
        BY <1>1, <1>2, <1>3, BeforeIsOrder
      <4>2. Before(s, n, p)
        BY <1>2, <2>6, <3>1
      <4>3. Before(s, k, p)
        BY <4>1, <4>2, <1>1, <2>2, BeforeIsOrder
      <4>4. k = p \/ Before(Mirror(s), k, p)
        BY <4>1, <2>6, <3>1
      <4> QED BY <4>1, <4>3, <4>4, <1>1, <2>2, BeforeIsOrder
    <3>3. Past(N, B, s, p) \subseteq Past(N, B, s, n)
      BY <1>3, <2>6, <2>7
    <3> QED BY Zenon, <1>5, <2>2, <2>8, <2>9, <3>2, <3>3
  <2>10. CASE n # t.child[s][p]
    <3>1. q = Mirror(s) /\ Mirror(q) = s
      BY <2>2, <2>4, <2>10
    <3>2. p \in Past(N, B, s, n)
      BY <1>1, <1>2, <1>3, <2>2, <2>4, <2>6, <3>1, BeforeIsOrder
    <3>3. ASSUME NEW k \in Past(N, B, s, n), k # p
          PROVE  Before(Mirror(s), p, k)
      <4>1. k \in N /\ k \notin B[n]
        BY <1>1, <1>2, <1>3, <3>3, BeforeIsOrder
      <4>2. Before(s, k, p)
        <5>1. CASE k \in B[p]
          BY <5>1, <4>1, <3>1, <3>3, <2>6
        <5>2. CASE k \notin B[p]
          BY <5>2, <2>6, <2>7, <2>8
        <5> QED BY <5>1, <5>2
      <4> QED BY <4>1, <4>2, <1>1, <2>2, <2>4, BeforeIsOrder
    <3> QED BY <1>5, <2>2, <2>10, <3>2, <3>3 DEF Extreme
  <2> QED BY <2>9, <2>10
<1> QED BY <1>4, <1>5

\* Neighbour finds the nearest node on side s.
LEMMA NeighbourIs ==
  ASSUME NEW t, NEW N, NEW B, Shape(t, N, B), Bare(t, N), NEW s \in Side, NEW n \in N
  PROVE  Extreme(Mirror(s), Beyond(N, s, n), Neighbour(t, s, n))
<1> DEFINE climb == CHOOSE f : f = [m \in Cells |->
                      LET p == t.parent[m] IN IF p # Nil /\ m = t.child[s][p] THEN f[p] ELSE p]
<1>1. /\ N \subseteq Keys /\ IsFiniteSet(N) /\ (\A m \in N : m \in Int /\ m # Nil) /\ t \in Trees
      /\ t.child[s][Nil] = Nil /\ (\A m \in Cells : t.parent[m] \in Cells)
      /\ Cells = Keys \union {Nil} /\ Nil \notin N /\ Nil \notin Keys
  BY CellsAreKeys, TreeFields DEF Shape, Links
<1>2. Mirror(s) \in Side /\ Mirror(Mirror(s)) = s /\ Mirror(s) # s
  BY Sides
<1>3. Loose(t, N)
  BY DEF Bare, Loose
<1>5. PICK up : up = [m \in N |-> CHOOSE y : Extreme(Mirror(s), Past(N, B, s, m), y)]
  OBVIOUS
<1>6. ASSUME NEW m \in N
      PROVE  Extreme(Mirror(s), Past(N, B, s, m), up[m])
  <2>1. Past(N, B, s, m) \in SUBSET N
    BY DEF Past
  <2>2. \E y : Extreme(Mirror(s), Past(N, B, s, m), y)
    BY <1>1, <1>2, <2>1, ExtremeExists
  <2> QED BY <1>5, <2>2
<1>7. ASSUME NEW m \in N, NEW y, Extreme(Mirror(s), Past(N, B, s, m), y)
      PROVE  y = up[m]
  <2>1. Extreme(Mirror(s), Past(N, B, s, m), up[m])
    BY <1>6
  <2>2. Past(N, B, s, m) \subseteq N
    BY DEF Past
  <2> QED BY <1>1, <1>2, <1>7, <2>1, <2>2, BeforeIsOrder DEF Extreme
<1>8. ASSUME NEW m \in N, NEW p, p = t.parent[m]
      PROVE  up[m] = IF p # Nil /\ m = t.child[s][p] THEN up[p] ELSE p
  <2>1. /\ p = Nil => Past(N, B, s, m) = {}
        /\ p # Nil => /\ p \in N
                      /\ m = t.child[s][p] => Past(N, B, s, m) = Past(N, B, s, p)
                      /\ m # t.child[s][p] => Extreme(Mirror(s), Past(N, B, s, m), p)
    BY <1>8, ClimbStep
  <2>2. CASE p = Nil
    BY <1>7, <2>1, <2>2 DEF Extreme
  <2>3. CASE p # Nil /\ m = t.child[s][p]
    BY <1>5, <2>1, <2>3
  <2>4. CASE p # Nil /\ m # t.child[s][p]
    BY <1>7, <2>1, <2>4
  <2> QED BY <2>2, <2>3, <2>4
<1>9. PICK root : root = t.parent[Nil]
  OBVIOUS
<1>10. PICK g : g = [m \in Cells |->
                       IF m \in N THEN up[m]
                       ELSE IF m = Nil /\ root \in N /\ t.child[s][root] = Nil THEN up[root]
                       ELSE IF m = Nil /\ root # Nil /\ root \notin N THEN Nil
                       ELSE IF m = Nil THEN root ELSE Nil]
  OBVIOUS
<1>11. ASSUME NEW m \in Cells, NEW p, p = t.parent[m]
       PROVE  g[m] = IF p # Nil /\ m = t.child[s][p] THEN g[p] ELSE p
  <2>1. p \in Cells
    BY <1>1, <1>11
  <2>2. CASE m \in N
    <3>1. g[m] = up[m] /\ (p # Nil => p \in N)
      BY <1>10, <2>2, <1>11, ClimbStep
    <3>2. p # Nil => g[p] = up[p]
      BY <1>10, <2>1, <3>1
    <3> QED BY <1>8, <1>11, <2>2, <3>1, <3>2
  <2>3. CASE m \in Keys \ N
    <3>1. p = Nil /\ g[m] = Nil
      BY <1>1, <1>10, <1>11, <2>3 DEF Bare
    <3> QED BY <3>1
  <2>4. CASE m = Nil
    <3>1. p = root /\ Nil \notin N
      BY <1>1, <1>9, <1>11, <2>4
    <3>2. CASE root \in N
      BY <1>10, <2>1, <2>4, <3>1, <3>2, <1>1
    <3>3. CASE root = Nil
      BY <1>10, <2>4, <3>1, <3>3
    <3>4. CASE root \in Keys \ N
      <4>1. t.child[s][root] = Nil
        BY <3>4 DEF Bare
      <4>2. g[Nil] = Nil /\ g[root] = Nil
        BY <1>1, <1>10, <3>1, <3>4
      <4> QED BY <2>4, <3>1, <3>4, <4>1, <4>2, <1>1
    <3> QED BY <1>1, <2>1, <3>1, <3>2, <3>3, <3>4
  <2> QED BY <1>1, <2>2, <2>3, <2>4
<1>12. g = [m \in Cells |-> LET p == t.parent[m] IN IF p # Nil /\ m = t.child[s][p] THEN g[p] ELSE p]
  <2>1. \A m \in Cells : g[m] = LET p == t.parent[m] IN IF p # Nil /\ m = t.child[s][p] THEN g[p] ELSE p
    BY <1>11
  <2>2. g = [m \in Cells |-> g[m]]
    BY <1>10
  <2> QED BY <2>1, <2>2
<1>13. climb = [m \in Cells |-> LET p == t.parent[m] IN IF p # Nil /\ m = t.child[s][p] THEN climb[p] ELSE p]
  BY Zenon, <1>12
<1>14. /\ t.child[s][n] # Nil => Neighbour(t, s, n) = Outermost(t, Mirror(s), t.child[s][n])
       /\ t.child[s][n] = Nil => Neighbour(t, s, n) = climb[n]
  BY <1>1 DEF Neighbour
<1> HIDE DEF climb
<1>15. \A m \in N : climb[m] = up[m]
  <2>1. PICK S : S = {m \in N \union {Nil} : m \in N => climb[m] = up[m]}
    OBVIOUS
  <2>2. ASSUME NEW m \in N, t.parent[m] = Nil \/ t.parent[m] \in S
        PROVE  m \in S
    <3>1. PICK p : p = t.parent[m]
      OBVIOUS
    <3>2. p # Nil => p \in N /\ climb[p] = up[p]
      BY <2>1, <2>2, <3>1, <1>1
    <3>3. climb[m] = IF p # Nil /\ m = t.child[s][p] THEN climb[p] ELSE p
      BY <1>1, <1>13, <3>1
    <3>4. up[m] = IF p # Nil /\ m = t.child[s][p] THEN up[p] ELSE p
      BY <1>8, <3>1
    <3> QED BY <2>1, <3>2, <3>3, <3>4
  <2>3. t.root \in S
    <3>1. CASE t.root = Nil
      BY <1>1, <2>1, <3>1
    <3>2. CASE t.root # Nil
      BY <2>2, <3>2 DEF Shape, Links
    <3> QED BY <3>1, <3>2
  <2>4. N \subseteq S
    BY <2>2, <2>3, DownFromRoot
  <2> QED BY <2>1, <2>4
<1>16. PICK c, d, y : c = t.child[s][n] /\ d = t.child[Mirror(s)][n] /\ y = Neighbour(t, s, n)
  OBVIOUS
<1>17. ChildFacts(t, N, B, n, s) /\ ChildFacts(t, N, B, n, Mirror(s)) /\ NodeFacts(t, N, B, n)
  BY <1>2, ChildHas, NodeHas
<1>18. /\ B[n] = {n} \union B[c] \union B[d] /\ B[c] \subseteq N /\ B[d] \subseteq N
       /\ c \in N \union {Nil} /\ n \in B[n]
       /\ (\A k \in B[c] : Before(s, k, n)) /\ (\A k \in B[d] : Before(Mirror(s), k, n))
  BY <1>2, <1>16, <1>17 DEF ChildFacts, NodeFacts
<1>19. ASSUME NEW k \in N, Before(s, k, n)
       PROVE  k \in B[c] \/ \A j \in B[n] : Before(s, k, j)
  <2>1. CASE k \in B[n]
    <3>1. k # n /\ ~Before(Mirror(s), k, n)
      BY <1>1, <1>2, <1>19, BeforeIsOrder
    <3> QED BY <2>1, <3>1, <1>18
  <2>2. CASE k \notin B[n]
    <3>1. (\A j \in B[n] : Before(s, k, j)) \/ (\A j \in B[n] : Before(Mirror(s), k, j))
      BY <2>2, Apart
    <3>2. ~Before(Mirror(s), k, n)
      BY <1>1, <1>2, <1>19, BeforeIsOrder
    <3> QED BY <3>1, <3>2, <1>18
  <2> QED BY <2>1, <2>2
<1>20. CASE c # Nil
  <2>1. y = Outermost(t, Mirror(s), c) /\ c \in N
    BY <1>14, <1>16, <1>18, <1>20
  <2>2. y \in B[c] /\ \A m \in B[c] : m = y \/ Before(Mirror(s), y, m)
    BY <1>2, <1>3, <2>1, OutermostIs
  <2>3. y \in Beyond(N, s, n)
    BY <2>2, <1>18 DEF Beyond
  <2>4. ASSUME NEW k \in N, Before(s, k, n), k # y
        PROVE  Before(Mirror(s), y, k)
    <3>1. CASE k \in B[c]
      BY <3>1, <2>2, <2>4
    <3>2. CASE \A j \in B[n] : Before(s, k, j)
      <4>1. Before(s, k, y) /\ y \in N
        BY <3>2, <2>2, <1>18
      <4> QED BY <4>1, <1>1, <1>2, BeforeIsOrder
    <3> QED BY <2>4, <3>1, <3>2, <1>19
  <2> QED BY <1>16, <2>3, <2>4 DEF Extreme, Beyond
<1>21. CASE c = Nil
  <2>1. y = up[n]
    BY <1>14, <1>15, <1>16, <1>21
  <2>2. B[c] = {}
    BY <1>21 DEF Shape, Below
  <2>3. Past(N, B, s, n) = Beyond(N, s, n)
    BY <1>18, <1>19, <2>2 DEF Beyond, Past
  <2> QED BY <1>6, <1>16, <2>1, <2>3
<1> QED BY <1>20, <1>21

\* Find finds a key that is in the tree, and the sentinel otherwise.
LEMMA FindIs ==
  ASSUME NEW t, NEW N, NEW B, Shape(t, N, B), Loose(t, N), NEW k \in Keys
  PROVE  Find(t, k) = IF k \in N THEN k ELSE Nil
<1> DEFINE f == CHOOSE f : f = [n \in Cells |->
                  IF n \in {Nil, k} THEN n ELSE f[t.child[SideOfKey(k, n)][n]]]
           P(n) == f[n] = IF k \in B[n] THEN k ELSE Nil
           S == {n \in N \union {Nil} : P(n)}
<1>1. PICK halt, dir : halt = [n \in Keys |-> n = k] /\ dir = [n \in Keys |-> SideOfKey(k, n)]
  OBVIOUS
<1>2. halt \in [Keys -> BOOLEAN] /\ dir \in [Keys -> Side]
  BY <1>1, KeySide
<1>3. PICK g \in [Cells -> Cells] :
           /\ g[Nil] = Nil
           /\ \A n \in Keys : g[n] = IF halt[n] THEN n ELSE g[t.child[dir[n]][n]]
  BY <1>2, PathExists
<1>4. \A n \in Cells : g[n] = IF n \in {Nil, k} THEN n ELSE g[t.child[SideOfKey(k, n)][n]]
  BY Zenon, <1>1, <1>3, CellsAreKeys
<1>5. g = [n \in Cells |-> IF n \in {Nil, k} THEN n ELSE g[t.child[SideOfKey(k, n)][n]]]
  BY Zenon, <1>3, <1>4
<1>6. f = [n \in Cells |-> IF n \in {Nil, k} THEN n ELSE f[t.child[SideOfKey(k, n)][n]]]
  BY <1>5
<1>7. Find(t, k) = f[t.root]
  BY DEF Find
<1> HIDE DEF f
<1>8. N \subseteq Keys /\ \A n \in N : n \in Cells /\ n # Nil /\ n \in Int
  BY CellsAreKeys DEF Shape, Links
<1>9. Nil \in S
  <2>1. f[Nil] = Nil /\ B[Nil] = {}
    BY <1>6, CellsAreKeys DEF Shape, Below
  <2> QED BY <2>1
<1>10. ASSUME NEW n \in N, \A r \in Side : t.child[r][n] \in S
       PROVE  n \in S
  <2>1. PICK s, c, d : s = SideOfKey(k, n) /\ c = t.child[s][n] /\ d = t.child[Mirror(s)][n]
    OBVIOUS
  <2>2. /\ s \in Side /\ Mirror(s) \in Side /\ Mirror(Mirror(s)) = s /\ (k # n => Before(s, k, n))
    BY <2>1, <1>8, KeySide, Sides
  <2>3. ChildFacts(t, N, B, n, s) /\ ChildFacts(t, N, B, n, Mirror(s)) /\ NodeFacts(t, N, B, n)
    BY <2>2, ChildHas, NodeHas
  <2>4. /\ B[n] = {n} \union B[c] \union B[d] /\ n \in B[n]
        /\ \A m \in B[d] : Before(Mirror(s), m, n)
    BY Zenon, <2>1, <2>3 DEF ChildFacts, NodeFacts
  <2>5. f[n] = IF n = k THEN k ELSE f[c]
    BY Zenon, <1>6, <1>8, <2>1
  <2>6. P(c)
    BY <1>10, <2>1, <2>2
  <2>7. k # n => (k \in B[n] <=> k \in B[c])
    <3>1. k # n => k \notin B[d]
      BY <2>2, <2>4, <1>8, BeforeIsOrder, CellsAreKeys
    <3> QED BY <3>1, <2>4
  <2>8. P(n)
    BY <2>4, <2>5, <2>6, <2>7
  <2> QED BY <2>8
<1>11. N \subseteq S
  <2> HIDE DEF S
  <2> QED BY <1>9, <1>10, UpFromLeaves
<1>12. P(t.root) /\ B[t.root] = N
  BY <1>9, <1>11 DEF Shape, Links, Below
<1> QED BY <1>7, <1>12

\* The nodes of S that are not before k, and not k itself if strict.
From(S, k, strict) == {m \in S : k < m \/ (k = m /\ ~strict)}

\* Bound finds the first of them.
LEMMA BoundIs ==
  ASSUME NEW t, NEW N, NEW B, Shape(t, N, B), Loose(t, N), NEW k \in Keys, NEW strict \in BOOLEAN
  PROVE  Extreme("left", From(N, k, strict), Bound(t, k, strict))
<1> DEFINE f == CHOOSE f : f = [n \in Cells |->
                  IF n = Nil THEN Nil
                  ELSE IF k < n \/ (k = n /\ ~strict)
                       THEN LET lower == f[t.child["left"][n]] IN IF lower = Nil THEN n ELSE lower
                       ELSE f[t.child["right"][n]]]
           P(n) == Extreme("left", From(B[n], k, strict), f[n])
           S == {n \in N \union {Nil} : P(n)}
<1>1. PICK step : step = [a \in Keys \X Cells \X Cells |->
                            IF k < a[1] \/ (k = a[1] /\ ~strict)
                            THEN IF a[2] = Nil THEN a[1] ELSE a[2]
                            ELSE a[3]]
  OBVIOUS
<1>2. step \in [Keys \X Cells \X Cells -> Cells]
  BY <1>1, CellsAreKeys
<1>3. PICK g \in [Cells -> Cells] : Walks(t, g, Keys, Nil, step)
  BY <1>2, WalkExists, CellsAreKeys
<1>4. ASSUME NEW n \in Keys
      PROVE  g[n] = IF k < n \/ (k = n /\ ~strict)
                    THEN LET lower == g[t.child["left"][n]] IN IF lower = Nil THEN n ELSE lower
                    ELSE g[t.child["right"][n]]
  <2>1. PICK a, b : a = g[t.child["left"][n]] /\ b = g[t.child["right"][n]]
    OBVIOUS
  <2>2. t \in Trees
    BY DEF Shape, Links
  <2>3. a \in Cells /\ b \in Cells
    BY <2>1, <2>2, TreeFields, CellsAreKeys, <1>3
  <2>4. g[n] = step[<<n, a, b>>]
    BY <2>1, <1>3 DEF Walks
  <2>5. g[n] = IF k < n \/ (k = n /\ ~strict) THEN IF a = Nil THEN n ELSE a ELSE b
    BY <2>3, <2>4, <1>1
  <2> QED BY Zenon, <2>1, <2>5
<1>5. \A n \in Cells : g[n] =
        IF n = Nil THEN Nil
        ELSE IF k < n \/ (k = n /\ ~strict)
             THEN LET lower == g[t.child["left"][n]] IN IF lower = Nil THEN n ELSE lower
             ELSE g[t.child["right"][n]]
  <2>1. g[Nil] = Nil
    BY <1>3 DEF Walks
  <2> QED BY Zenon, <2>1, <1>4, CellsAreKeys
<1>6. g = [n \in Cells |->
             IF n = Nil THEN Nil
             ELSE IF k < n \/ (k = n /\ ~strict)
                  THEN LET lower == g[t.child["left"][n]] IN IF lower = Nil THEN n ELSE lower
                  ELSE g[t.child["right"][n]]]
  BY Zenon, <1>3, <1>5
<1>7. f = [n \in Cells |->
             IF n = Nil THEN Nil
             ELSE IF k < n \/ (k = n /\ ~strict)
                  THEN LET lower == f[t.child["left"][n]] IN IF lower = Nil THEN n ELSE lower
                  ELSE f[t.child["right"][n]]]
  BY Zenon, <1>6
<1>8. Bound(t, k, strict) = f[t.root]
  BY DEF Bound
<1> HIDE DEF f
<1>9. N \subseteq Keys /\ (\A n \in N : n \in Cells /\ n # Nil /\ n \in Int) /\ k \in Int
  BY CellsAreKeys DEF Shape, Links
<1>10. Nil \in S
  <2>1. f[Nil] = Nil /\ B[Nil] = {}
    BY <1>7, CellsAreKeys DEF Shape, Below
  <2> QED BY <2>1 DEF Extreme, From
<1>11. ASSUME NEW n \in N, \A r \in Side : t.child[r][n] \in S
       PROVE  n \in S
  <2>1. PICK a, b : a = t.child["left"][n] /\ b = t.child["right"][n]
    OBVIOUS
  <2>2. ChildFacts(t, N, B, n, "left") /\ ChildFacts(t, N, B, n, "right")
    BY CellsAreKeys, ChildHas
  <2>3. /\ B[n] = {n} \union B[a] \union B[b] /\ B[a] \subseteq N /\ B[b] \subseteq N
        /\ (\A m \in B[a] : Before("left", m, n)) /\ (\A m \in B[b] : Before("right", m, n))
    BY <2>1, <2>2, CellsAreKeys DEF ChildFacts
  <2>4. (\A m \in B[a] : m < n) /\ (\A m \in B[b] : n < m)
    BY <2>3 DEF Before
  <2>5. P(a) /\ P(b)
    BY <1>11, <2>1, CellsAreKeys
  <2>6. PICK l, r : l = f[a] /\ r = f[b]
    OBVIOUS
  <2>7. f[n] = IF k < n \/ (k = n /\ ~strict) THEN IF l = Nil THEN n ELSE l ELSE r
    BY Zenon, <1>7, <1>9, <2>1, <2>6
  <2>8. /\ IF From(B[a], k, strict) = {} THEN l = Nil
           ELSE l \in From(B[a], k, strict) /\ \A m \in From(B[a], k, strict) : m = l \/ l < m
        /\ IF From(B[b], k, strict) = {} THEN r = Nil
           ELSE r \in From(B[b], k, strict) /\ \A m \in From(B[b], k, strict) : m = r \/ r < m
    BY <2>5, <2>6 DEF Extreme, Before
  <2>9. CASE k < n \/ (k = n /\ ~strict)
    <3>1. CASE From(B[a], k, strict) = {}
      <4>1. f[n] = n
        BY <2>7, <2>8, <2>9, <3>1
      <4>2. n \in From(B[n], k, strict)
        BY <2>3, <2>9 DEF From
      <4>3. \A m \in From(B[n], k, strict) : m = n \/ n < m
        BY <2>3, <2>4, <3>1 DEF From
      <4> QED BY <4>1, <4>2, <4>3 DEF Extreme, Before
    <3>2. CASE From(B[a], k, strict) # {}
      <4>1. l \in From(B[a], k, strict)
        BY <2>8, <3>2
      <4>2. l # Nil /\ l \in B[a]
        BY <4>1, <2>3, <1>9 DEF From
      <4>3. f[n] = l
        BY <2>7, <2>9, <4>2
      <4>4. l \in From(B[n], k, strict)
        BY <4>1, <2>3 DEF From
      <4>5. l < n /\ \A m \in B[b] : l < m
        <5>1. l < n /\ l \in Int
          BY <4>2, <2>3, <2>4, <1>9
        <5>2. ASSUME NEW m \in B[b] PROVE l < m
          <6>1. m \in Int /\ n < m /\ n \in Int
            BY <2>3, <2>4, <1>9
          <6> QED BY <5>1, <6>1
        <5> QED BY <5>1, <5>2
      <4>6. \A m \in From(B[n], k, strict) : m = l \/ l < m
        <5>1. \A m \in From(B[a], k, strict) : m = l \/ l < m
          BY <2>8, <3>2
        <5> QED BY <5>1, <4>5, <2>3 DEF From
      <4> QED BY <4>3, <4>4, <4>6 DEF Extreme, Before
    <3> QED BY <3>1, <3>2
  <2>10. CASE ~(k < n \/ (k = n /\ ~strict))
    <3>1. f[n] = r
      BY <2>7, <2>10
    <3>2. From(B[n], k, strict) = From(B[b], k, strict)
      <4>1. ASSUME NEW m \in B[a] PROVE ~(k < m \/ (k = m /\ ~strict))
        <5>1. m \in Int /\ m < n /\ n \in Int /\ ~(k < n)
          BY <2>3, <2>4, <2>10, <1>9
        <5> QED BY <5>1, <1>9
      <4> QED BY <4>1, <2>3, <2>10 DEF From
    <3> QED BY <3>1, <3>2, <2>5, <2>6
  <2> QED BY <2>9, <2>10
<1>12. N \subseteq S
  <2> HIDE DEF S
  <2> QED BY <1>10, <1>11, UpFromLeaves
<1>13. P(t.root) /\ B[t.root] = N
  BY <1>10, <1>12 DEF Shape, Links, Below
<1> QED BY <1>8, <1>13

-----------------------------------------------------------------------------
\* The tree implements OrderedSet.

\* An iterator is at a node that stays, or at the end.
CursorInv == it \in (nodes \ {gone}) \union {Null}

\* The position of an outermost node is the one the ordered set names.
LEMMA PositionIs ==
  ASSUME NEW S, S \subseteq Keys, NEW n
  PROVE  /\ Extreme("left", S, n) => Position(n) = Set!First(S) /\ Position(n) \in S \union {Null}
         /\ Extreme("right", S, n) => Position(n) = Set!Final(S) /\ Position(n) \in S \union {Null}
<1>1. \A m \in S : m \in Int /\ m # Nil
  BY CellsAreKeys
<1>2. ASSUME Extreme("left", S, n)
      PROVE  Position(n) = Set!First(S) /\ Position(n) \in S \union {Null}
  <2>1. CASE S = {}
    BY <1>2, <2>1 DEF Extreme, Position, Set!First
  <2>2. CASE S # {}
    <3>1. n \in S /\ n # Nil /\ Position(n) = n /\ \A m \in S : n <= m
      BY <1>1, <1>2, <2>2 DEF Extreme, Position, Before
    <3>2. \A k \in S : (\A m \in S : k <= m) => k = n
      BY <1>1, <3>1
    <3> QED BY <2>2, <3>1, <3>2 DEF Set!First
  <2> QED BY <2>1, <2>2
<1>3. ASSUME Extreme("right", S, n)
      PROVE  Position(n) = Set!Final(S) /\ Position(n) \in S \union {Null}
  <2>1. CASE S = {}
    BY <1>3, <2>1 DEF Extreme, Position, Set!Final
  <2>2. CASE S # {}
    <3>1. n \in S /\ n # Nil /\ Position(n) = n /\ \A m \in S : m <= n
      BY <1>1, <1>3, <2>2 DEF Extreme, Position, Before
    <3>2. \A k \in S : (\A m \in S : m <= k) => k = n
      BY <1>1, <3>1
    <3> QED BY <2>2, <3>1, <3>2 DEF Set!Final
  <2> QED BY <2>1, <2>2
<1> QED BY <1>2, <1>3

\* Between two calls the tree is whole and nothing is being freed.
LEMMA IdleHas ==
  ASSUME TreeInv, pc = "idle"
  PROVE  /\ gone = Nil /\ nodes \ {gone} = nodes /\ nodes \subseteq Keys
         /\ IsFiniteSet(nodes) /\ Nil \notin nodes /\ Null \notin nodes
         /\ \E B : Shape(tree, nodes, B) /\ Bare(tree, nodes) /\ Loose(tree, nodes)
<1>1. Whole(tree, nodes) /\ gone = Nil /\ nodes \subseteq Keys /\ IsFiniteSet(nodes)
  BY DEF TreeInv
<1> QED BY <1>1, WholeHas, KeyAssumption

\* The node behind or before one.
LEMMA NextIs ==
  ASSUME TreeInv, pc = "idle", NEW n \in nodes
  PROVE  /\ Position(Neighbour(tree, "right", n)) = Set!Next(n)
         /\ Position(Neighbour(tree, "right", n)) \in (nodes \ {n}) \union {Null}
         /\ Position(Neighbour(tree, "left", n)) = Set!Prev(n)
         /\ Position(Neighbour(tree, "left", n)) \in nodes \union {Null}
<1>1. /\ nodes \ {gone} = nodes /\ nodes \subseteq Keys
      /\ \A m \in nodes : m \in Int
  BY IdleHas, CellsAreKeys
<1>2. PICK B : Shape(tree, nodes, B) /\ Bare(tree, nodes)
  BY IdleHas
<1>3. /\ Extreme("left", Beyond(nodes, "right", n), Neighbour(tree, "right", n))
      /\ Extreme("right", Beyond(nodes, "left", n), Neighbour(tree, "left", n))
  BY <1>2, NeighbourIs, CellsAreKeys
<1>4. /\ Beyond(nodes, "right", n) = {m \in nodes : n < m}
      /\ Beyond(nodes, "left", n) = {m \in nodes : m < n}
  BY DEF Beyond, Before
<1>5. n \notin {m \in nodes : n < m}
  BY <1>1
<1>6. {m \in nodes : n < m} \subseteq Keys /\ {m \in nodes : m < n} \subseteq Keys
  BY <1>1
<1>7. /\ Position(Neighbour(tree, "right", n)) = Set!First({m \in nodes : n < m})
      /\ Position(Neighbour(tree, "right", n)) \in {m \in nodes : n < m} \union {Null}
  BY <1>3, <1>4, <1>6, PositionIs
<1>8. /\ Position(Neighbour(tree, "left", n)) = Set!Final({m \in nodes : m < n})
      /\ Position(Neighbour(tree, "left", n)) \in {m \in nodes : m < n} \union {Null}
  BY <1>3, <1>4, <1>6, PositionIs
<1>9. Set!Next(n) = Set!First({m \in nodes : n < m}) /\ Set!Prev(n) = Set!Final({m \in nodes : m < n})
  BY <1>1 DEF Set!Next, Set!Prev
<1> QED BY <1>5, <1>7, <1>8, <1>9

\* A look into the tree leaves the set of its nodes as it is.
LEMMA SeekSet ==
  ASSUME TreeInv, NEW c, Seek(c)
  PROVE  /\ pc = "idle" /\ call' = c
         /\ nodes \ {gone} = nodes /\ nodes' \ {gone'} = nodes /\ nodes \subseteq Keys
         /\ Set!Seek(c, it')
<1>1. pc = "idle" /\ call' = c /\ nodes' = nodes /\ gone' = gone
  BY DEF Seek
<1>2. nodes \ {gone} = nodes /\ nodes \subseteq Keys
  BY <1>1, IdleHas
<1> QED BY <1>1, <1>2 DEF Set!Seek

\* find, lower_bound and upper_bound of a key answer what the ordered set answers of it.
LEMMA LookupSet ==
  ASSUME TreeInv, NEW k \in Sought, FindKey(k) \/ LowerBound(k) \/ UpperBound(k)
  PROVE  Set!Step /\ CursorInv'
<1>1. /\ pc = "idle" /\ nodes \ {gone} = nodes /\ nodes \subseteq Keys
      /\ nodes' \ {gone'} = nodes
  BY SeekSet DEF FindKey, LowerBound, UpperBound
<1>2. k \in Keys
  BY SoughtAssumption
<1>3. PICK B : Shape(tree, nodes, B) /\ Loose(tree, nodes)
  BY <1>1, IdleHas
<1>4. CASE FindKey(k)
  <2>1. Find(tree, k) = IF k \in nodes THEN k ELSE Nil
    BY <1>2, <1>3, FindIs
  <2>2. it' = IF k \in nodes THEN k ELSE Null
    BY <1>2, <1>4, <2>1, CellsAreKeys DEF FindKey, Position
  <2>3. Set!Seek(<<"find", k>>, it')
    BY <1>4, SeekSet DEF FindKey
  <2>4. Set!Find(k)
    BY <1>1, <2>2, <2>3 DEF Set!Find
  <2> QED BY <1>1, <2>2, <2>4 DEF Set!Step, CursorInv
<1>5. CASE LowerBound(k)
  <2>1. it' = Position(Bound(tree, k, FALSE)) /\ Set!Seek(<<"lower_bound", k>>, it')
    BY <1>5, SeekSet DEF LowerBound
  <2>2. Extreme("left", From(nodes, k, FALSE), Bound(tree, k, FALSE))
    BY <1>2, <1>3, BoundIs
  <2>3. From(nodes, k, FALSE) = {m \in nodes : k <= m}
    BY <1>1, <1>2, CellsAreKeys DEF From
  <2>4. {m \in nodes : k <= m} \subseteq Keys
    BY <1>1
  <2>5. it' = Set!First({m \in nodes : k <= m}) /\ it' \in {m \in nodes : k <= m} \union {Null}
    BY <2>1, <2>2, <2>3, <2>4, PositionIs
  <2>6. Set!LowerBound(k)
    BY <1>1, <2>1, <2>5 DEF Set!LowerBound
  <2> QED BY <1>1, <2>5, <2>6 DEF Set!Step, CursorInv
<1>6. CASE UpperBound(k)
  <2>1. it' = Position(Bound(tree, k, TRUE)) /\ Set!Seek(<<"upper_bound", k>>, it')
    BY <1>6, SeekSet DEF UpperBound
  <2>2. Extreme("left", From(nodes, k, TRUE), Bound(tree, k, TRUE))
    BY <1>2, <1>3, BoundIs
  <2>3. From(nodes, k, TRUE) = {m \in nodes : k < m}
    BY <1>1, <1>2, CellsAreKeys DEF From
  <2>4. {m \in nodes : k < m} \subseteq Keys
    BY <1>1
  <2>5. it' = Set!First({m \in nodes : k < m}) /\ it' \in {m \in nodes : k < m} \union {Null}
    BY <2>1, <2>2, <2>3, <2>4, PositionIs
  <2>6. Set!UpperBound(k)
    BY <1>1, <2>1, <2>5 DEF Set!UpperBound
  <2> QED BY <1>1, <2>5, <2>6 DEF Set!Step, CursorInv
<1> QED BY <1>4, <1>5, <1>6

\* The first and the last node of the tree.
LEMMA EndsAre ==
  ASSUME TreeInv, pc = "idle", nodes # {}
  PROVE  /\ tree.root # Nil
         /\ Outermost(tree, "left", tree.root) = Set!First(nodes)
         /\ Outermost(tree, "right", tree.root) = Set!Final(nodes)
         /\ Outermost(tree, "left", tree.root) \in nodes
         /\ Outermost(tree, "right", tree.root) \in nodes
<1>1. PICK B : Shape(tree, nodes, B) /\ Loose(tree, nodes)
  BY IdleHas
<1>2. tree.root \in nodes /\ B[tree.root] = nodes /\ Nil \notin nodes /\ nodes \subseteq Keys
  BY <1>1, IdleHas DEF Shape, Links, Below
<1>3. ASSUME NEW s \in Side
      PROVE  /\ Extreme(s, nodes, Outermost(tree, s, tree.root))
             /\ Outermost(tree, s, tree.root) \in nodes
  BY <1>1, <1>2, OutermostIs DEF Extreme
<1>4. \A n \in nodes : Position(n) = n
  BY <1>2 DEF Position
<1>5. /\ Extreme("left", nodes, Outermost(tree, "left", tree.root))
      /\ Extreme("right", nodes, Outermost(tree, "right", tree.root))
      /\ Outermost(tree, "left", tree.root) \in nodes
      /\ Outermost(tree, "right", tree.root) \in nodes
  BY <1>3, CellsAreKeys
<1>6. /\ Position(Outermost(tree, "left", tree.root)) = Set!First(nodes)
      /\ Position(Outermost(tree, "right", tree.root)) = Set!Final(nodes)
  BY <1>2, <1>5, PositionIs
<1> QED BY <1>2, <1>4, <1>5, <1>6

\* begin, end, ++ and -- move the iterator as the ordered set does.
LEMMA MoveSet ==
  ASSUME TreeInv, CursorInv, Begin \/ ToEnd \/ Advance \/ Retreat
  PROVE  Set!Step /\ CursorInv'
<1>1. /\ pc = "idle" /\ nodes \ {gone} = nodes /\ nodes \subseteq Keys
      /\ nodes' \ {gone'} = nodes
  BY SeekSet DEF Begin, ToEnd, Advance, Retreat
<1>2. it \in nodes \union {Null} /\ Null \notin nodes
  BY <1>1, IdleHas DEF CursorInv
<1>3. CASE Begin
  <2>1. PICK B : Shape(tree, nodes, B)
    BY <1>1, IdleHas
  <2>2. nodes = {} <=> tree.root = Nil
    BY <2>1, <1>1, IdleHas DEF Shape, Links, Below
  <2>3. it' = Set!First(nodes) /\ it' \in nodes \union {Null}
    <3>1. CASE nodes = {}
      BY <1>3, <2>2, <3>1 DEF Begin, Position, Set!First
    <3>2. CASE nodes # {}
      <4>1. /\ it' = Position(Outermost(tree, "left", tree.root))
            /\ Outermost(tree, "left", tree.root) = Set!First(nodes)
            /\ Outermost(tree, "left", tree.root) \in nodes
        BY <1>1, <1>3, <2>2, <3>2, EndsAre DEF Begin
      <4> QED BY <4>1, <1>1, IdleHas DEF Position
    <3> QED BY <3>1, <3>2
  <2>4. Set!Seek(<<"begin">>, it')
    BY <1>3, SeekSet DEF Begin
  <2>5. Set!Begin
    BY <1>1, <2>3, <2>4 DEF Set!Begin
  <2> QED BY <1>1, <2>3, <2>5 DEF Set!Step, CursorInv
<1>4. CASE ToEnd
  <2>1. it' = Null /\ Set!Seek(<<"end">>, it')
    BY <1>4, SeekSet DEF ToEnd
  <2>2. Set!ToEnd
    BY <2>1 DEF Set!ToEnd
  <2> QED BY <1>1, <2>1, <2>2 DEF Set!Step, CursorInv
<1>5. CASE Advance
  <2>1. it \in nodes /\ it' = Position(Neighbour(tree, "right", it))
    BY <1>2, <1>5 DEF Advance
  <2>2. it' = Set!Next(it) /\ it' \in nodes \union {Null}
    BY <1>1, <2>1, NextIs
  <2>3. Set!Seek(<<"++">>, it')
    BY <1>5, SeekSet DEF Advance
  <2>4. Set!Advance
    BY <1>1, <2>1, <2>2, <2>3 DEF Set!Advance
  <2> QED BY <1>1, <2>2, <2>4 DEF Set!Step, CursorInv
<1>6. CASE Retreat
  <2>1. nodes # {} /\ Set!Seek(<<"--">>, it')
    BY <1>6, SeekSet DEF Retreat
  <2>2. CASE it = Null
    <3>1. it' = Outermost(tree, "right", tree.root)
      BY <1>6, <2>2 DEF Retreat
    <3>2. it' = Set!Final(nodes) /\ it' \in nodes
      BY <1>1, <2>1, <3>1, EndsAre
    <3>3. Set!Retreat
      BY <1>1, <2>1, <2>2, <3>2 DEF Set!Retreat
    <3> QED BY <1>1, <3>2, <3>3 DEF Set!Step, CursorInv
  <2>3. CASE it # Null
    <3>1. it \in nodes /\ it' = Position(Neighbour(tree, "left", it))
      BY <1>2, <1>6, <2>3 DEF Retreat
    <3>2. it' = Set!Prev(it) /\ it' \in nodes \union {Null}
      BY <1>1, <3>1, NextIs
    <3>3. Set!Retreat
      BY <1>1, <2>1, <2>3, <3>2 DEF Set!Retreat
    <3> QED BY <1>1, <3>2, <3>3 DEF Set!Step, CursorInv
  <2> QED BY <2>2, <2>3
<1> QED BY <1>3, <1>4, <1>5, <1>6

\* insert_unique adds the key to the ordered set, and answers as it does.
LEMMA InsertSet ==
  ASSUME TreeInv, NEW k \in Keys, InsertFound(k) \/ InsertNew(k)
  PROVE  Set!Step /\ CursorInv'
<1>1. /\ pc = "idle" /\ it' = k /\ gone' = gone /\ nodes' = nodes \union {k}
      /\ call' = <<"insert", k>>
  BY DEF InsertFound, InsertNew
<1>2. nodes \ {gone} = nodes /\ nodes' \ {gone'} = nodes \union {k}
  BY <1>1, IdleHas, CellsAreKeys
<1>3. Set!Insert(k)
  BY <1>1, <1>2 DEF Set!Insert
<1> QED BY <1>1, <1>2, <1>3 DEF Set!Step, CursorInv

\* An erased node is out of the set once it is unlinked.
LEMMA EraseKeeps ==
  ASSUME TreeInv, NEW z, EraseNode(z)
  PROVE  /\ pc = "idle" /\ z \in nodes /\ nodes \ {gone} = nodes
         /\ nodes' \ {gone'} = nodes \ {z}
<1>1. pc = "idle" /\ z \in nodes
  BY DEF EraseNode
<1>2. nodes \ {gone} = nodes /\ Nil \notin nodes /\ gone = Nil
  BY <1>1, IdleHas
<1>3. (gone' = z /\ nodes' = nodes) \/ (gone' = gone /\ nodes' = nodes \ {z})
  BY DEF EraseNode
<1> QED BY <1>1, <1>2, <1>3

\* erase takes the key from the ordered set, and answers as it does.
LEMMA EraseSet ==
  ASSUME TreeInv, CursorInv, EraseAtIterator \/ \E k \in Keys : EraseKey(k)
  PROVE  Set!Step /\ CursorInv'
<1>1. CASE EraseAtIterator
  <2>1. /\ it \in nodes /\ EraseNode(it) /\ it' = Position(Neighbour(tree, "right", it))
        /\ call' = <<"erase_at">>
    BY <1>1 DEF EraseAtIterator
  <2>2. pc = "idle" /\ nodes \ {gone} = nodes /\ nodes' \ {gone'} = nodes \ {it}
    BY <2>1, EraseKeeps
  <2>3. it' = Set!Next(it) /\ it' \in (nodes \ {it}) \union {Null}
    BY <2>1, <2>2, NextIs
  <2>4. Set!EraseAt
    BY <2>1, <2>2, <2>3 DEF Set!EraseAt
  <2> QED BY <2>2, <2>3, <2>4 DEF Set!Step, CursorInv
<1>2. ASSUME NEW k \in Keys, EraseKey(k)
      PROVE  Set!Step /\ CursorInv'
  <2>1. EraseNode(k) /\ call' = <<"erase", k>> /\ it' = IF it = k THEN Null ELSE it
    BY <1>2 DEF EraseKey
  <2>2. nodes \ {gone} = nodes /\ nodes' \ {gone'} = nodes \ {k}
    BY <2>1, EraseKeeps
  <2>3. Set!Erase(k)
    BY <2>1, <2>2 DEF Set!Erase
  <2> QED BY <2>1, <2>2, <2>3 DEF Set!Step, CursorInv
<1> QED BY <1>1, <1>2

\* clear empties the ordered set.
LEMMA ClearSet ==
  ASSUME TreeInv, Clear
  PROVE  Set!Step /\ CursorInv'
<1>1. nodes' \ {gone'} = {} /\ it' = Null /\ call' = <<"clear">>
  BY DEF Clear
<1>2. Set!Clear
  BY <1>1 DEF Set!Clear
<1> QED BY <1>1, <1>2 DEF Set!Step, CursorInv

\* Nobody outside sees a fixup, which belongs to the call that began it and leaves
\* the nodes and the iterator alone.
LEMMA FixupSet ==
  ASSUME TreeInv, CursorInv, Fixup \/ UNCHANGED vars
  PROVE  UNCHANGED Set!setVars /\ CursorInv'
<1>1. it' = it /\ call' = call
  BY DEF Fixup, InsertRecolor, InsertRotate, InsertDone, EraseRecolor, EraseRotate, EraseDone, vars
<1>2. nodes' \ {gone'} = nodes \ {gone}
  <2>1. CASE EraseDone
    <3>1. nodes' = nodes \ {gone} /\ gone' = Nil /\ Nil \notin nodes
      BY Zenon, <2>1, CellsAreKeys DEF EraseDone, TreeInv
    <3> QED BY <3>1
  <2>2. CASE ~EraseDone
    BY <2>2 DEF Fixup, InsertRecolor, InsertRotate, InsertDone, EraseRecolor, EraseRotate, vars
  <2> QED BY <2>1, <2>2
<1> QED BY Zenon, <1>1, <1>2 DEF Set!setVars, CursorInv

\* Every step is a step of the ordered set, or leaves what it shows unchanged: the turns of a fixup.
LEMMA NextSet ==
  ASSUME TreeInv, CursorInv, [Next]_vars
  PROVE  (Set!Step \/ UNCHANGED Set!setVars) /\ CursorInv'
<1>1. \/ \E k \in Keys : InsertFound(k) \/ InsertNew(k)
      \/ \E k \in Sought : FindKey(k) \/ LowerBound(k) \/ UpperBound(k)
      \/ EraseAtIterator \/ \E k \in Keys : EraseKey(k)
      \/ Clear
      \/ Begin \/ ToEnd \/ Advance \/ Retreat
      \/ Fixup \/ UNCHANGED vars
  BY DEF Next
<1> QED BY <1>1, InsertSet, LookupSet, EraseSet, ClearSet, MoveSet, FixupSet

-----------------------------------------------------------------------------
\* The fixups end.

\* d is the depth of every node.
Deep(t, N, d) ==
  /\ d \in [N -> Nat]
  /\ \A n \in N : d[n] = IF n = t.root THEN 0 ELSE 1 + d[t.parent[n]]

\* The nodes above a node other than the root are it and those above its parent.
LEMMA AboveIs ==
  ASSUME NEW t, NEW N, NEW B, Shape(t, N, B), NEW n \in N
  PROVE  /\ n = t.root => {m \in N : n \in B[m]} = {n}
         /\ n # t.root => /\ t.parent[n] \in N
                          /\ n \notin {m \in N : t.parent[n] \in B[m]}
                          /\ {m \in N : n \in B[m]} = {m \in N : t.parent[n] \in B[m]} \union {n}
<1>1. NodeFacts(t, N, B, n)
  BY NodeHas
<1>2. ASSUME n # t.root
      PROVE  /\ t.parent[n] \in N /\ t.parent[n] \notin B[n] /\ B[n] \subseteq B[t.parent[n]]
             /\ \E r \in Side : t.child[r][t.parent[n]] = n
    <2>1. PICK p, r : p = t.parent[n] /\ r = SideOf(t, n)
      OBVIOUS
    <2>2. p \in N /\ r \in Side /\ t.child[r][p] = n
      BY <1>1, <1>2, <2>1 DEF NodeFacts
    <2>3. ChildFacts(t, N, B, p, r)
      BY <2>2, ChildHas
    <2>4. p \notin B[n] /\ B[n] \subseteq B[p]
      BY <2>2, <2>3 DEF ChildFacts
    <2> QED BY <2>1, <2>2, <2>4
<1>3. CASE n = t.root
  <2>1. ASSUME NEW m \in N, n \in B[m], m # n
        PROVE  FALSE
    <3>1. NodeFacts(t, N, B, m)
      BY NodeHas
    <3>2. B[n] = N
      BY <1>3 DEF Shape, Below
    <3>3. B[n] \subseteq B[m]
      BY <2>1, BelowIsTransitive
    <3>4. PICK p, r : p = t.parent[m] /\ r = SideOf(t, m)
      OBVIOUS
    <3>5. p \in N /\ r \in Side /\ t.child[r][p] = m
      BY <1>3, <2>1, <3>1, <3>4 DEF NodeFacts
    <3>6. p \notin B[m]
      BY <3>5, ChildHas DEF ChildFacts
    <3> QED BY <3>2, <3>3, <3>5, <3>6
  <2> QED BY <1>1, <1>3, <2>1 DEF NodeFacts
<1>4. CASE n # t.root
  <2>1. PICK p : p = t.parent[n]
    OBVIOUS
  <2>2. /\ p \in N /\ p \notin B[n] /\ n \in B[p] /\ n \in B[n]
        /\ \E r \in Side : t.child[r][p] = n
    BY <1>1, <1>2, <1>4, <2>1 DEF NodeFacts
  <2>3. ASSUME NEW m \in N, p \in B[m]
        PROVE  n \in B[m]
    BY <2>2, <2>3, BelowIsTransitive
  <2> DEFINE S == {m \in N \union {Nil} : n \in B[m] => n = m \/ p \in B[m]}
  <2>4. N \subseteq S
    <3>1. Nil \in S
      BY DEF Shape, Below
    <3>2. ASSUME NEW m \in N, \A r \in Side : t.child[r][m] \in S
          PROVE  m \in S
      <4>1. CASE n \in B[m] /\ n # m
        <5>1. PICK r \in Side : n \in B[t.child[r][m]]
          <6>1. B[m] = {m} \union B[t.child["left"][m]] \union B[t.child["right"][m]]
            BY DEF Shape, Below
          <6> QED BY <6>1, <4>1 DEF Side
        <5>2. ChildFacts(t, N, B, m, r)
          BY ChildHas
        <5>3. B[t.child[r][m]] \subseteq B[m] /\ m \in B[m]
          BY <5>2 DEF ChildFacts
        <5>4. CASE n = t.child[r][m]
          <6>1. t.parent[n] = m
            BY <5>2, <5>4, <1>1 DEF ChildFacts, NodeFacts
          <6> QED BY <6>1, <5>3, <2>1
        <5>5. CASE n # t.child[r][m]
          BY <5>1, <5>3, <5>5, <3>2
        <5> QED BY <5>4, <5>5
      <4> QED BY <4>1
    <3> HIDE DEF S
    <3> QED BY <3>1, <3>2, UpFromLeaves
  <2>5. \A m \in N : n \in B[m] => n = m \/ p \in B[m]
    BY <2>4
  <2>6. {m \in N : n \in B[m]} = {m \in N : p \in B[m]} \union {n}
    BY <2>2, <2>3, <2>5
  <2> QED BY <1>4, <2>1, <2>2, <2>6
<1> QED BY <1>3, <1>4

\* Every node has a depth: there are so many nodes above it.
LEMMA DeepExists ==
  ASSUME NEW t, NEW N, NEW B, Shape(t, N, B)
  PROVE  \E d : Deep(t, N, d)
<1> DEFINE Above(n) == {m \in N : n \in B[m]}
           d == [n \in N |-> Cardinality(Above(n)) - 1]
<1>1. IsFiniteSet(N)
  BY DEF Shape, Links
<1>2. \A n : IsFiniteSet(Above(n)) /\ Cardinality(Above(n)) \in Nat
  <2>1. \A n : Above(n) \subseteq N
    OBVIOUS
  <2> HIDE DEF Above
  <2> QED BY <1>1, <2>1, FS_Subset, FS_CardinalityType
<1>3. ASSUME NEW n \in N
      PROVE  d[n] \in Nat /\ d[n] = IF n = t.root THEN 0 ELSE 1 + d[t.parent[n]]
  <2>1. CASE n = t.root
    <3>1. Above(n) = {n}
      BY <2>1, AboveIs
    <3>2. Cardinality(Above(n)) = 1
      BY <3>1, FS_Singleton
    <3>3. d[n] = Cardinality(Above(n)) - 1
      OBVIOUS
    <3> HIDE DEF d, Above
    <3> QED BY <3>2, <3>3, <2>1
  <2>2. CASE n # t.root
    <3>1. PICK p : p = t.parent[n]
      OBVIOUS
    <3>2. p \in N /\ n \notin Above(p) /\ Above(n) = Above(p) \union {n}
      BY <2>2, <3>1, AboveIs
    <3>3. Cardinality(Above(n)) = Cardinality(Above(p)) + 1
      <4> HIDE DEF Above
      <4> QED BY <1>2, <3>2, FS_AddElement
    <3>4. p \in Above(p)
      BY <3>2, NodeHas DEF NodeFacts
    <3>5. Cardinality(Above(p)) # 0
      <4> HIDE DEF Above
      <4> QED BY <1>2, <3>4, FS_EmptySet
    <3>6. PICK i \in Nat : i = Cardinality(Above(p)) /\ i # 0
      BY <1>2, <3>5
    <3>7. d[n] = Cardinality(Above(n)) - 1 /\ d[p] = Cardinality(Above(p)) - 1
      BY <3>2
    <3>8. d[n] = i /\ d[p] = i - 1
      <4> HIDE DEF d, Above
      <4> QED BY <3>3, <3>6, <3>7
    <3> HIDE DEF d
    <3> QED BY <2>2, <3>1, <3>6, <3>8
  <2> QED BY <2>1, <2>2
<1>4. d \in [N -> Nat]
  <2>1. d = [n \in N |-> d[n]]
    OBVIOUS
  <2> HIDE DEF d
  <2> QED BY <1>3, <2>1
<1> HIDE DEF d
<1> QED BY <1>3, <1>4 DEF Deep

\* Remaining, of any tree.
RemainingOf(t, N, x) ==
  LET depth[n \in N] == IF n = t.root THEN 0 ELSE 1 + depth[t.parent[n]]
  IN  2 * (IF x = t.root THEN 0 ELSE 1 + depth[t.parent[x]])
      + (IF t.color[x] = "black" THEN 1 ELSE 0)

\* The recursive function of Remaining is the depth.
LEMMA RemainingIs ==
  ASSUME NEW t, NEW N, NEW B, Shape(t, N, B), NEW d, Deep(t, N, d), NEW x
  PROVE  /\ x = t.root => RemainingOf(t, N, x) = Weight(t, x)
         /\ x # t.root /\ t.parent[x] \in N =>
              RemainingOf(t, N, x) = 2 * (1 + d[t.parent[x]]) + Weight(t, x)
         /\ x \in N => RemainingOf(t, N, x) = 2 * d[x] + Weight(t, x)
<1> DEFINE f == CHOOSE f : f = [n \in N |-> IF n = t.root THEN 0 ELSE 1 + f[t.parent[n]]]
<1>1. d = [n \in N |-> IF n = t.root THEN 0 ELSE 1 + d[t.parent[n]]]
  BY Zenon DEF Deep
<1>2. f = [n \in N |-> IF n = t.root THEN 0 ELSE 1 + f[t.parent[n]]]
  BY Zenon, <1>1
<1>3. RemainingOf(t, N, x) = 2 * (IF x = t.root THEN 0 ELSE 1 + f[t.parent[x]])
                             + (IF t.color[x] = "black" THEN 1 ELSE 0)
  BY DEF RemainingOf
<1> HIDE DEF f
<1> DEFINE S == {n \in N : f[n] = d[n]} \union {Nil}
<1>4. t.root \in S
  <2>1. t.root \in N \union {Nil}
    BY DEF Shape, Links
  <2>2. t.root \in N => f[t.root] = 0 /\ d[t.root] = 0
    BY Zenon, <1>1, <1>2
  <2> QED BY <2>1, <2>2
<1>5. ASSUME NEW n \in N, t.parent[n] \in S
      PROVE  n \in S
  <2>1. CASE n = t.root
    BY <2>1, <1>4
  <2>2. CASE n # t.root
    <3>1. t.parent[n] \in N /\ t.parent[n] # Nil
      BY <2>2, KeyAssumption DEF Shape, Links
    <3>2. f[n] = 1 + f[t.parent[n]] /\ d[n] = 1 + d[t.parent[n]]
      BY Zenon, <2>2, <1>1, <1>2
    <3> QED BY <3>1, <3>2, <1>5
  <2> QED BY <2>1, <2>2
<1>6. \A n \in N : f[n] = d[n]
  <2>1. N \subseteq S
    <3> HIDE DEF S
    <3> QED BY <1>4, <1>5, DownFromRoot
  <2>2. Nil \notin N
    BY KeyAssumption DEF Shape, Links
  <2> QED BY <2>1, <2>2
<1>7. \A n \in N : /\ d[n] \in Nat /\ d[n] = IF n = t.root THEN 0 ELSE 1 + d[t.parent[n]]
                   /\ n # t.root => t.parent[n] \in N
  BY DEF Deep, Shape, Links
<1>8. PICK w : w = Weight(t, x) /\ w \in {0, 1}
  BY DEF Weight
<1>9. RemainingOf(t, N, x) = 2 * (IF x = t.root THEN 0 ELSE 1 + f[t.parent[x]]) + w
  BY Zenon, <1>3, <1>8 DEF Weight
<1>10. CASE x = t.root
  <2>1. RemainingOf(t, N, x) = w
    BY <1>8, <1>9, <1>10
  <2>2. x \in N => d[x] = 0
    BY <1>7, <1>10
  <2> QED BY <1>8, <1>10, <2>1, <2>2
<1>11. CASE x # t.root
  <2>1. x \in N => t.parent[x] \in N /\ d[x] = 1 + d[t.parent[x]]
    BY <1>7, <1>11
  <2>2. t.parent[x] \in N => RemainingOf(t, N, x) = 2 * (1 + d[t.parent[x]]) + w
    BY <1>6, <1>9, <1>11
  <2> QED BY <1>8, <1>11, <2>1, <2>2
<1> QED BY <1>10, <1>11

\* A rotation takes y up to where x was, and x one level down; what is not below x
\* stays where it is.
LEMMA TurnDepth ==
  ASSUME NEW t, NEW N, NEW B, Shape(t, N, B), NEW s \in Side, NEW x \in N,
         NEW y, NEW z, y = t.child[Mirror(s)][x], z = t.child[s][y], y # Nil,
         NEW u, Turn(t, s, x, y, z, u), NEW d, Deep(t, N, d), NEW e, Deep(u, N, e)
  PROVE  /\ y \in N /\ e[y] = d[x] /\ e[x] = 1 + d[x] /\ u.parent[x] = y
         /\ \A m \in N \ B[x] : e[m] = d[m]
<1>1. TurnedLinks(t, N, s, x, y, z, u)
  BY TurnLinks
<1>2. /\ y \in N /\ y # x /\ z \in N \union {Nil} /\ z # x /\ z # y
      /\ u.root = IF t.root = x THEN y ELSE t.root
  BY <1>1 DEF TurnedLinks
<1>3. Mirror(s) \in Side
  BY Sides
<1>4. ChildFacts(t, N, B, x, Mirror(s)) /\ ChildFacts(t, N, B, y, s)
  BY <1>2, <1>3, ChildHas
<1>5. x \in B[x] /\ y \in B[x] /\ (z # Nil => z \in B[x])
  <2>1. x \in B[x] /\ B[y] \subseteq B[x] /\ B[z] \subseteq B[y] /\ y \in B[y]
    BY <1>2, <1>4 DEF ChildFacts
  <2>2. z # Nil => z \in B[z]
    BY <1>4 DEF ChildFacts
  <2> QED BY <2>1, <2>2
<1>6. \A m \in N : m \in Cells /\ m # Nil
  BY CellsAreKeys DEF Shape, Links
<1>7. \A m \in N : u.parent[m] = IF m = z /\ z # Nil THEN x
                                 ELSE IF m = x THEN y
                                 ELSE IF m = y THEN t.parent[x] ELSE t.parent[m]
  BY <1>6 DEF Turn
<1>8. \A m \in N : m # t.root => /\ t.parent[m] \in N
                                 /\ t.parent[m] \in B[x] => m \in B[x]
  <2>1. ASSUME NEW m \in N, m # t.root
        PROVE  t.parent[m] \in N /\ (t.parent[m] \in B[x] => m \in B[x])
    <3>1. PICK r \in Side : t.parent[m] \in N /\ t.child[r][t.parent[m]] = m
      BY <2>1 DEF Shape, Links
    <3> QED BY <3>1, <1>6, BelowIsTransitive
  <2> QED BY <2>1
<1>9. /\ \A m \in N : d[m] \in Nat /\ e[m] \in Nat
      /\ \A m \in N : d[m] = IF m = t.root THEN 0 ELSE 1 + d[t.parent[m]]
      /\ \A m \in N : e[m] = IF m = u.root THEN 0 ELSE 1 + e[u.parent[m]]
  BY DEF Deep
<1> DEFINE S == {m \in N \union {Nil} : m \in N \ B[x] => e[m] = d[m]}
<1>10. N \subseteq S
  <2>1. t.root \in S
    <3>1. t.root \in N \union {Nil}
      BY DEF Shape, Links
    <3>2. t.root \in N \ B[x] => e[t.root] = 0 /\ d[t.root] = 0
      BY <1>2, <1>5, <1>9
    <3> QED BY <3>1, <3>2
  <2>2. ASSUME NEW m \in N, t.parent[m] \in S
        PROVE  m \in S
    <3>1. CASE m = t.root
      BY <2>1, <3>1
    <3>2. CASE m # t.root /\ m \notin B[x]
      <4>1. t.parent[m] \in N \ B[x]
        BY <3>2, <1>8
      <4>2. u.parent[m] = t.parent[m]
        BY <3>2, <1>5, <1>6, <1>7
      <4>3. m # u.root
        BY <3>2, <1>2, <1>5
      <4>4. e[m] = 1 + e[t.parent[m]] /\ d[m] = 1 + d[t.parent[m]]
        BY <4>2, <4>3, <3>2, <1>9
      <4> QED BY <4>1, <4>4, <2>2
    <3> QED BY <3>1, <3>2
  <2> HIDE DEF S
  <2> QED BY <2>1, <2>2, DownFromRoot
<1>11. \A m \in N \ B[x] : e[m] = d[m]
  BY <1>10
<1>12. e[y] = d[x]
  <2>1. CASE x = t.root
    BY <2>1, <1>2, <1>9
  <2>2. CASE x # t.root
    <3>1. PICK p : p = t.parent[x]
      OBVIOUS
    <3>2. p \in N /\ p \notin B[x]
      <4>1. PICK r \in Side : p \in N /\ t.child[r][p] = x
        BY <2>2, <3>1 DEF Shape, Links
      <4>2. ChildFacts(t, N, B, p, r)
        BY <4>1, ChildHas
      <4> QED BY <4>1, <4>2 DEF ChildFacts
    <3>3. y # u.root
      <4>1. y # t.root
        BY <1>4, <1>2, <1>6 DEF ChildFacts
      <4> QED BY <4>1, <2>2, <1>2
    <3>4. u.parent[y] = p
      BY <1>2, <1>7, <3>1
    <3>5. e[y] = 1 + e[p] /\ d[x] = 1 + d[p]
      BY <3>1, <3>3, <3>4, <2>2, <1>2, <1>9
    <3> QED BY <3>2, <3>5, <1>11
  <2> QED BY <2>1, <2>2
<1>13. u.parent[x] = y /\ e[x] = 1 + e[y]
  <2>1. u.parent[x] = y
    BY <1>2, <1>7
  <2>2. x # u.root
    BY <1>2
  <2> QED BY <2>1, <2>2, <1>9
<1> QED BY <1>2, <1>11, <1>12, <1>13

\* What the two rotations of insert_fixup do to the depth of z: one level less.
LEMMA OuterDepth ==
  ASSUME NEW t, NEW N, NEW z, NEW p, NEW g, NEW s, NEW o,
         NEW B, Shape(t, N, B), UpFacts(t, N, z, p, g, s, o), IsChild(t, s, p, z), z \in N,
         NEW u, u = Turned(t, s, p, g), NEW D, Shape(u, N, D),
         NEW d, Deep(t, N, d), NEW e, Deep(u, N, e)
  PROVE  e[z] = 1 + d[g]
<1>1. /\ p \in N /\ g \in N /\ s \in Side /\ t.child[s][g] = p /\ z # p /\ p # g /\ z # g
      /\ t.parent[p] = g /\ t.parent[z] = p /\ z # t.root /\ p # t.root
  BY DEF UpFacts
<1>2. /\ t \in Trees /\ p \in Cells /\ g \in Cells /\ z \in Cells /\ p # Nil /\ z # Nil
  BY <1>1, CellsAreKeys DEF Shape, Links
<1>3. PICK v : v = Paint(Paint(t, p, "black"), g, "red")
  OBVIOUS
<1>4. SameLinks(t, v)
  BY <1>2, <1>3, PaintTwo
<1>5. Shape(v, N, B) /\ v \in Trees /\ v.child = t.child /\ v.parent = t.parent /\ v.root = t.root
  BY <1>4, PaintKeepsShape DEF SameLinks
<1>6. Deep(v, N, d)
  BY <1>5 DEF Deep
<1>7. PICK r, i : r = Mirror(s) /\ i = v.child[r][p]
  OBVIOUS
<1>8. r \in Side /\ s = Mirror(r) /\ r # s /\ p = v.child[Mirror(r)][g]
  BY <1>1, <1>5, <1>7, Sides
<1>9. i \in Cells /\ u = Rotate(v, r, g)
  BY <1>2, <1>3, <1>5, <1>7, <1>8, TreeFields DEF Turned
<1>10. Turn(v, r, g, p, i, u)
  BY <1>2, <1>5, <1>7, <1>8, <1>9, TurnRotates
<1>11. e[p] = d[g] /\ i = v.child[r][p]
  BY <1>1, <1>2, <1>5, <1>6, <1>7, <1>8, <1>10, TurnDepth
<1>12. u.parent[z] = p
  <2>1. z # i
    <3>1. ChildFacts(t, N, B, p, s)
      BY <1>1, ChildHas
    <3> QED BY <3>1, <1>2, <1>5, <1>7 DEF ChildFacts, IsChild
  <2>2. u.parent[z] = v.parent[z]
    BY <2>1, <1>1, <1>2, <1>10 DEF Turn
  <2> QED BY <2>2, <1>1, <1>5
<1>13. z # u.root
  <2>1. u.root = IF v.root = g THEN p ELSE v.root
    BY <1>1, <1>2, <1>5, <1>7, <1>8, <1>10, TurnLinks DEF TurnedLinks
  <2> QED BY <2>1, <1>1, <1>5
<1>14. e[z] = 1 + e[p]
  BY <1>12, <1>13 DEF Deep
<1> QED BY <1>11, <1>14

\* Remaining, of the tree before a step and after it.
LEMMA RemainingOfTree ==
  /\ Remaining = RemainingOf(tree, nodes \ {gone}, at)
  /\ Remaining' = RemainingOf(tree', nodes' \ {gone'}, at')
<1>1. Remaining = RemainingOf(tree, nodes \ {gone}, at)
  BY Zenon DEF Remaining, RemainingOf
<1>2. Remaining' = RemainingOf(tree', nodes' \ {gone'}, at')
  BY Zenon DEF Remaining, RemainingOf
<1> QED BY <1>1, <1>2

\* The recolouring of insert_fixup takes z two levels up.
LEMMA InsertRecolorNearer ==
  ASSUME TreeInv, InsertRecolor
  PROVE  Remaining' < Remaining
<1>1. PICK z, p, g, s, o : /\ z = at /\ p = Up(at) /\ g = Up(p) /\ s = UpSide
                           /\ o = Uncle
  OBVIOUS
<1>2. /\ pc = "insert_fixup" /\ tree.color[p] = "red" /\ tree.color[o] = "red"
      /\ tree' = Paint(Paint(Paint(tree, p, "black"), o, "black"), g, "red")
      /\ at' = g /\ nodes' = nodes /\ gone' = gone
  BY <1>1 DEF InsertRecolor, InsertLoop, Up
<1>3. /\ p = tree.parent[z] /\ g = tree.parent[p] /\ s = SideOf(tree, p)
      /\ o = tree.child[Mirror(s)][g]
  BY <1>1 DEF Up, UpSide, Uncle
<1>4. Rising(tree, nodes, z) /\ gone = Nil /\ nodes \ {gone} = nodes
  BY <1>1, <1>2, KeyAssumption DEF TreeInv
<1>5. UpFacts(tree, nodes, z, p, g, s, o)
  BY Zenon, <1>2, <1>3, <1>4, UpHas
<1>6. Rising(tree', nodes, g) /\ SameLinks(tree, tree')
  BY <1>2, <1>4, <1>5, RecolorRises
<1>7. PICK B : Shape(tree, nodes, B)
  BY <1>4 DEF Rising
<1>8. PICK d : Deep(tree, nodes, d)
  BY <1>7, DeepExists
<1>9. Shape(tree', nodes, B) /\ Deep(tree', nodes, d)
  BY <1>6, <1>7, <1>8, PaintKeepsShape DEF SameLinks, Deep
<1>10. Remaining = RemainingOf(tree, nodes, z) /\ Remaining' = RemainingOf(tree', nodes, g)
  BY Zenon, <1>1, <1>2, <1>4, RemainingOfTree
<1>11. /\ z \in nodes /\ Weight(tree, z) = 0 /\ g \in nodes /\ Weight(tree', g) = 0
  BY <1>4, <1>6 DEF Rising, Weight
<1>12. Remaining = 2 * d[z] + 0 /\ Remaining' = 2 * d[g] + 0
  BY <1>7, <1>8, <1>9, <1>10, <1>11, RemainingIs
<1>13. d[z] = 1 + d[p] /\ d[p] = 1 + d[g] /\ d[g] \in Nat
  BY <1>3, <1>5, <1>8, <1>11 DEF Deep, UpFacts
<1> QED BY <1>12, <1>13

\* The rotations of insert_fixup take z one level up.
LEMMA InsertRotateNearer ==
  ASSUME TreeInv, InsertRotate
  PROVE  Remaining' < Remaining
<1>1. PICK z, p, g, s, o : /\ z = at /\ p = Up(at) /\ g = Up(p) /\ s = UpSide
                           /\ o = Uncle
  OBVIOUS
<1>2. PICK y : y = IF z = tree.child[Mirror(s)][p] THEN p ELSE z
  OBVIOUS
<1>3. PICK t : t = IF z = tree.child[Mirror(s)][p] THEN Rotate(tree, s, p) ELSE tree
  OBVIOUS
<1>4. /\ pc = "insert_fixup" /\ tree.color[p] = "red" /\ tree.color[o] = "black"
      /\ tree' = Turned(t, s, t.parent[y], t.parent[t.parent[y]])
      /\ at' = y /\ nodes' = nodes /\ gone' = gone
  BY Zenon, <1>1, <1>2, <1>3 DEF InsertRotate, InsertLoop, Up
<1>5. /\ p = tree.parent[z] /\ g = tree.parent[p] /\ s = SideOf(tree, p)
      /\ o = tree.child[Mirror(s)][g]
  BY <1>1 DEF Up, UpSide, Uncle
<1>6. Rising(tree, nodes, z) /\ gone = Nil /\ nodes \ {gone} = nodes
  BY <1>1, <1>4, KeyAssumption DEF TreeInv
<1>7. UpFacts(tree, nodes, z, p, g, s, o)
  BY <1>4, <1>5, <1>6, UpHas
<1>8. Remaining = RemainingOf(tree, nodes, z) /\ Remaining' = RemainingOf(tree', nodes, y)
  BY Zenon, <1>1, <1>4, <1>6, RemainingOfTree
<1>9. PICK B : Shape(tree, nodes, B)
  BY <1>6 DEF Rising
<1>10. PICK d : Deep(tree, nodes, d)
  BY <1>9, DeepExists
<1>11. /\ d[z] = 1 + d[p] /\ d[p] = 1 + d[g] /\ d[g] \in Nat /\ z \in nodes /\ p \in nodes
       /\ g \in nodes /\ s \in Side
  BY <1>5, <1>6, <1>7, <1>10 DEF Deep, UpFacts, Rising
<1>12. Remaining = 2 * (2 + d[g])
  <2>1. Weight(tree, z) = 0
    BY <1>6 DEF Rising, Weight
  <2>2. Remaining = 2 * d[z] + Weight(tree, z)
    BY <1>8, <1>9, <1>10, <1>11, RemainingIs
  <2> QED BY <2>1, <2>2, <1>11
<1>13. \E D, e : /\ Rising(tree', nodes, y) /\ Shape(tree', nodes, D) /\ Deep(tree', nodes, e)
                 /\ e[y] = 1 + d[g]
  <2>1. CASE z = tree.child[Mirror(s)][p]
    <3>1. y = p /\ t = Rotate(tree, s, p)
      BY <2>1, <1>2, <1>3
    <3>2. /\ Rising(t, nodes, p) /\ UpFacts(t, nodes, p, z, g, s, o) /\ p = t.child[s][z]
          /\ t.color = tree.color
      BY <3>1, <2>1, <1>6, <1>7, InnerRises
    <3>3. IsChild(t, s, z, p) /\ Black(t, o)
      BY <3>2, <1>4 DEF IsChild, Black
    <3>4. tree' = Turned(t, s, z, g)
      BY Zenon, <3>1, <3>2, <1>4 DEF UpFacts
    <3>5. Rising(tree', nodes, p)
      BY <3>2, <3>3, <3>4, OuterRises
    <3>6. PICK C, D : Shape(t, nodes, C) /\ Shape(tree', nodes, D)
      BY <3>2, <3>5 DEF Rising
    <3>7. PICK c, e : Deep(t, nodes, c) /\ Deep(tree', nodes, e)
      BY <3>6, DeepExists
    <3>8. e[p] = 1 + c[g]
      BY <3>2, <3>3, <3>4, <3>6, <3>7, <1>11, OuterDepth
    <3>9. c[g] = d[g]
      <4>1. PICK i : i = tree.child[s][z]
        OBVIOUS
      <4>2. /\ tree \in Trees /\ p \in Cells /\ z \in Cells /\ i \in Cells /\ z # Nil
        <5>1. tree \in Trees /\ p \in Cells /\ z \in Cells /\ z # Nil
          BY <1>9, <1>11, CellsAreKeys DEF Shape, Links
        <5> QED BY <5>1, <4>1, <1>11, TreeFields
      <4>3. Turn(tree, s, p, z, i, t)
        BY <4>1, <4>2, <3>1, <2>1, <1>11, TurnRotates
      <4>4. g \notin B[p]
        <5>1. ChildFacts(tree, nodes, B, g, s) /\ tree.child[s][g] = p
          BY <1>7, <1>9, ChildHas DEF UpFacts
        <5> QED BY <5>1 DEF ChildFacts
      <4>5. \A m \in nodes \ B[p] : c[m] = d[m]
        BY <4>1, <4>2, <4>3, <3>7, <2>1, <1>9, <1>10, <1>11, TurnDepth
      <4> QED BY <4>4, <4>5, <1>11
    <3> QED BY <3>1, <3>5, <3>6, <3>7, <3>8, <3>9
  <2>2. CASE z # tree.child[Mirror(s)][p]
    <3>1. y = z /\ t = tree
      BY <2>2, <1>2, <1>3
    <3>2. IsChild(t, s, p, z) /\ Black(t, o)
      <4>1. PICK r \in Side : tree.child[r][p] = z
        BY <1>7 DEF UpFacts
      <4>2. r = s
        BY Zenon, <4>1, <1>11, <2>2, Sides
      <4> QED BY <3>1, <4>1, <4>2, <1>4 DEF IsChild, Black
    <3>3. tree' = Turned(t, s, p, g)
      BY <3>1, <1>4, <1>5
    <3>4. Rising(tree', nodes, z)
      BY <3>1, <3>2, <3>3, <1>6, <1>7, OuterRises
    <3>5. PICK D : Shape(tree', nodes, D)
      BY <3>4 DEF Rising
    <3>6. PICK e : Deep(tree', nodes, e)
      BY <3>5, DeepExists
    <3>7. e[z] = 1 + d[g]
      BY <3>1, <3>2, <3>3, <3>5, <3>6, <1>7, <1>9, <1>10, <1>11, OuterDepth
    <3> QED BY <3>1, <3>4, <3>5, <3>6, <3>7
  <2> QED BY <2>1, <2>2
<1>14. PICK D, e : /\ Rising(tree', nodes, y) /\ Shape(tree', nodes, D) /\ Deep(tree', nodes, e)
                   /\ e[y] = 1 + d[g]
  BY <1>13
<1>15. Remaining' = 2 * (1 + d[g])
  <2>1. y \in nodes /\ Weight(tree', y) = 0
    BY <1>14 DEF Rising, Weight
  <2>2. RemainingOf(tree', nodes, y) = 2 * e[y] + Weight(tree', y)
    BY <2>1, <1>14, RemainingIs
  <2> QED BY <2>1, <2>2, <1>8, <1>11, <1>14
<1> QED BY <1>11, <1>12, <1>15

\* In erase_fixup x has a parent unless it is the root.
LEMMA DeficitHasParent ==
  ASSUME NEW t, NEW N, NEW x, Deficit(t, N, x), x # t.root, Black(t, x)
  PROVE  t.parent[x] \in N
<1>1. PICK p, s, w : p = t.parent[x] /\ s = SideOf(t, x) /\ w = t.child[Mirror(s)][p]
  OBVIOUS
<1>2. PICK H : Low(t, N, x, p, s, w, H)
  BY <1>1, LowFrom
<1> QED BY <1>1, <1>2 DEF Low

\* An iteration of erase_fixup begins at a black x below p, and nothing but the tree
\* and x changes.
LEMMA EraseBegins ==
  ASSUME TreeInv, EraseLoop, NEW p, p = tree.parent[at], NEW N, N = nodes \ {gone}
  PROVE  \E B, d : /\ Deficit(tree, N, at) /\ Shape(tree, N, B) /\ Deep(tree, N, d)
                   /\ p \in N /\ d[p] \in Nat /\ Remaining = 2 * (1 + d[p]) + 1
<1>1. Deficit(tree, N, at) /\ at # tree.root /\ Black(tree, at)
  BY DEF TreeInv, EraseLoop, Black
<1>2. PICK B : Shape(tree, N, B)
  BY <1>1 DEF Deficit
<1>3. PICK d : Deep(tree, N, d)
  BY <1>2, DeepExists
<1>4. p \in N
  BY <1>1, DeficitHasParent
<1>5. d[p] \in Nat
  BY <1>3, <1>4 DEF Deep
<1>6. Weight(tree, at) = 1
  BY <1>1 DEF Black, Weight
<1>7. RemainingOf(tree, N, at) = 2 * (1 + d[p]) + 1
  BY <1>1, <1>2, <1>3, <1>4, <1>6, RemainingIs
<1>8. Remaining = RemainingOf(tree, N, at)
  BY Zenon, RemainingOfTree
<1> QED BY <1>1, <1>2, <1>3, <1>4, <1>5, <1>7, <1>8

\* Case 1 takes p one level down and paints it red.
LEMMA RedSiblingDepth ==
  ASSUME NEW t, NEW N, NEW x, NEW p, NEW s, NEW w, NEW H, Low(t, N, x, p, s, w, H),
         NEW u, u = Rotate(Paint(Paint(t, w, "black"), p, "red"), s, p),
         NEW B, Shape(t, N, B), NEW d, Deep(t, N, d), NEW e, Deep(u, N, e)
  PROVE  e[p] = 1 + d[p] /\ u.color[p] = "red"
<1>1. PICK a : a = t.child[s][w]
  OBVIOUS
<1>2. LowFacts(t, N, x, p, s, w, a, t.child[Mirror(s)][w], H)
  BY <1>1, LowHas
<1>3. /\ t \in Trees /\ N \subseteq Cells /\ p \in N /\ w \in N /\ w # p /\ a \in Cells
      /\ s \in Side /\ w = t.child[Mirror(s)][p] /\ w # Nil
  BY <1>2 DEF LowFacts, Low
<1>4. PICK v : v = Paint(Paint(t, w, "black"), p, "red")
  OBVIOUS
<1>5. SameLinks(t, v) /\ v.color[p] = "red"
  BY <1>3, <1>4, PaintTwo
<1>6. /\ Shape(v, N, B) /\ Deep(v, N, d) /\ v \in Trees
      /\ w = v.child[Mirror(s)][p] /\ a = v.child[s][w]
  BY <1>1, <1>3, <1>5, PaintKeepsShape DEF SameLinks, Deep
<1>7. Turn(v, s, p, w, a, u)
  BY <1>3, <1>4, <1>6, TurnRotates
<1>8. u.color = v.color
  BY <1>7 DEF Turn
<1>9. e[p] = 1 + d[p]
  BY <1>3, <1>6, <1>7, TurnDepth
<1> QED BY <1>5, <1>8, <1>9

\* The recolouring of erase_fixup takes x to its old parent, and leaves it there
\* as a red node if that went down.
LEMMA EraseRecolorNearer ==
  ASSUME TreeInv, EraseRecolor
  PROVE  Remaining' < Remaining
<1>1. PICK t, p, s, N : /\ t = BlackSibling /\ p = tree.parent[at] /\ s = AtSide
                        /\ N = nodes \ {gone}
  BY Zenon
<1>2. /\ EraseLoop /\ NephewsBlack(t)
      /\ tree' = Paint(t, Sibling(t), "red") /\ at' = t.parent[at]
      /\ nodes' = nodes /\ gone' = gone
  BY <1>1 DEF EraseRecolor
<1>3. PICK B, d : /\ Deficit(tree, N, at) /\ Shape(tree, N, B) /\ Deep(tree, N, d)
                  /\ p \in N /\ d[p] \in Nat /\ Remaining = 2 * (1 + d[p]) + 1
  BY <1>1, <1>2, EraseBegins
<1>4. /\ \E D : Low(t, N, at, p, s, Sibling(t), D)
      /\ Black(t, Sibling(t)) /\ t.parent[at] = p
  BY <1>1, <1>2, <1>3, BlackSiblingHas
<1>5. PICK h : h = Sibling(t) /\ \E D : Low(t, N, at, p, s, h, D)
  BY <1>4
<1>6. \A r \in Side : Black(t, t.child[r][h])
  BY <1>2, <1>5 DEF NephewsBlack, Black
<1>7. SameLinks(t, tree') /\ h # p /\ h \in N /\ t \in Trees /\ N \subseteq Cells
  <2>1. PICK D : Low(t, N, at, p, s, h, D)
    BY <1>5
  <2>2. LowFacts(t, N, at, p, s, h, t.child[s][h], t.child[Mirror(s)][h], D)
    BY <2>1, LowHas
  <2>3. SameLinks(t, tree')
    BY <1>2, <1>4, <1>5, <1>6, PaintedRises
  <2> QED BY <2>1, <2>2, <2>3 DEF Low, LowFacts
<1>8. tree'.color[p] = t.color[p]
  <2>1. ColorSet(t, h, "red", tree')
    BY <1>2, <1>5, <1>7, SetColor
  <2> QED BY <2>1, <1>3, <1>7 DEF ColorSet
<1>9. PICK C : Shape(t, N, C)
  BY <1>5 DEF Low
<1>10. PICK e : Deep(t, N, e)
  BY <1>9, DeepExists
<1>11. Shape(tree', N, C) /\ Deep(tree', N, e)
  BY <1>7, <1>9, <1>10, PaintKeepsShape DEF SameLinks, Deep
<1>12. Remaining' = 2 * e[p] + Weight(tree', p)
  <2>1. Remaining' = RemainingOf(tree', N, p)
    BY Zenon, <1>1, <1>2, <1>4, RemainingOfTree
  <2> QED BY <2>1, <1>3, <1>11, RemainingIs
<1>13. e[p] \in Nat /\ Weight(tree', p) \in {0, 1}
  BY <1>3, <1>10 DEF Deep, Weight
<1>14. PICK w : w = Sibling(tree) /\ w = tree.child[Mirror(s)][p]
  BY <1>1 DEF Sibling
<1>15. CASE tree.color[w] = "red"
  <2>1. t = Rotate(Paint(Paint(tree, w, "black"), p, "red"), s, p)
    BY <1>1, <1>14, <1>15 DEF BlackSibling, Up
  <2>2. \E H : Low(tree, N, at, p, s, w, H)
    BY <1>1, <1>2, <1>3, <1>14, LowFrom DEF EraseLoop, Black, AtSide
  <2>3. e[p] = 1 + d[p] /\ t.color[p] = "red"
    BY <2>1, <2>2, <1>3, <1>10, RedSiblingDepth
  <2>4. Weight(tree', p) = 0
    BY <2>3, <1>8 DEF Weight
  <2> QED BY <2>3, <2>4, <1>3, <1>12
<1>16. CASE tree.color[w] # "red"
  <2>1. t = tree
    BY <1>1, <1>14, <1>16 DEF BlackSibling
  <2>2. e[p] = d[p]
    <3>1. RemainingOf(t, N, p) = 2 * e[p] + Weight(t, p)
      BY <2>1, <1>3, <1>10, RemainingIs
    <3>2. RemainingOf(t, N, p) = 2 * d[p] + Weight(t, p)
      BY <2>1, <1>3, RemainingIs
    <3>3. PICK i \in Nat, j \in Nat, k \in {0, 1} : i = e[p] /\ j = d[p] /\ k = Weight(t, p)
      BY <1>3, <1>13 DEF Weight
    <3> QED BY <3>1, <3>2, <3>3
  <2> QED BY <2>2, <1>3, <1>12, <1>13
<1> QED BY <1>15, <1>16

\* The rotations of erase_fixup leave x at the root.
LEMMA EraseRotateNearer ==
  ASSUME TreeInv, EraseRotate
  PROVE  Remaining' < Remaining
<1>1. PICK p, N : p = tree.parent[at] /\ N = nodes \ {gone}
  OBVIOUS
<1>2. EraseLoop /\ at' = tree'.root /\ nodes' = nodes /\ gone' = gone
  BY Zenon DEF EraseRotate
<1>3. PICK B, d : /\ Deficit(tree, N, at) /\ Shape(tree, N, B) /\ Deep(tree, N, d)
                  /\ p \in N /\ d[p] \in Nat /\ Remaining = 2 * (1 + d[p]) + 1
  BY <1>1, <1>2, EraseBegins
<1>4. Deficit(tree', N, at')
  BY <1>3, RotateKeepsDeficit
<1>5. PICK C : Shape(tree', N, C)
  BY <1>4 DEF Deficit
<1>6. PICK e : Deep(tree', N, e)
  BY <1>5, DeepExists
<1>7. RemainingOf(tree', N, at') = Weight(tree', at')
  BY <1>2, <1>5, <1>6, RemainingIs
<1>8. Remaining' = Weight(tree', at')
  BY Zenon, <1>1, <1>2, <1>7, RemainingOfTree
<1>9. Weight(tree', at') \in {0, 1}
  BY DEF Weight
<1> QED BY <1>3, <1>8, <1>9

-----------------------------------------------------------------------------
\* The theorems.

\* Every reachable state satisfies the inductive invariant: at every turn of insert_fixup and
\* erase_fixup the links are a search tree of the nodes, and the colours are wrong in at most the
\* one place the loop works at.
THEOREM TreeIsInvariant == Spec => []TreeInv
<1>1. Init => TreeInv
  BY InitTree
<1>2. TreeInv /\ [Next]_vars => TreeInv'
  BY NextTree
<1> QED BY <1>1, <1>2, PTL DEF Spec

\* The links of the nodes and their keys stay a search tree, at every turn of the fixups, through
\* the rotations and transplants of insert_unique and erase_node, for every finite or infinite set
\* of keys.
THEOREM SearchTreeCorrect == Spec => []SearchTree
<1>1. TreeInv => SearchTree
  BY InvSearchTree
<1> QED BY <1>1, TreeIsInvariant, PTL

\* Between two calls the colours keep the red-black rules, and the height is at most logarithmic in
\* the number of nodes: every walk of the code down the tree is that short.
THEOREM RedBlackCorrect == Spec => []RedBlack
<1>1. TreeInv => RedBlack
  BY InvRedBlack
<1> QED BY <1>1, TreeIsInvariant, PTL

\* At every turn the fixup loops find what their case analysis takes for granted: one place that is
\* wrong, a grandparent above a red parent, a sibling that is a node.
THEOREM LoopInvCorrect == Spec => []LoopInv
<1>1. TreeInv => LoopInv
  BY InvLoop
<1> QED BY <1>1, TreeIsInvariant, PTL

\* Every iteration of a fixup ends the operation or comes nearer to its end, for every
\* set of keys: insert_fixup takes z up, and erase_fixup takes x up or, once case 1 has
\* taken it down, to a red node, where it stops.
THEOREM FixupsEndCorrect == Spec => FixupsEnd
<1>1. ASSUME TreeInv, Fixup
      PROVE  pc' = "idle" \/ Remaining' < Remaining
  <2>1. CASE InsertRecolor
    BY <2>1, <1>1, InsertRecolorNearer
  <2>2. CASE InsertRotate
    BY <2>2, <1>1, InsertRotateNearer
  <2>3. CASE InsertDone
    BY <2>3 DEF InsertDone
  <2>4. CASE EraseRecolor
    BY <2>4, <1>1, EraseRecolorNearer
  <2>5. CASE EraseRotate
    BY <2>5, <1>1, EraseRotateNearer
  <2>6. CASE EraseDone
    BY <2>6 DEF EraseDone
  <2> QED BY <2>1, <2>2, <2>3, <2>4, <2>5, <2>6, <1>1 DEF Fixup
<1>2. TreeInv => [Fixup => pc' = "idle" \/ Remaining' < Remaining]_vars
  BY <1>1
<1> QED BY <1>2, TreeIsInvariant, PTL DEF FixupsEnd

\* An iterator that is not past the end stands on a node of the tree.
LEMMA CursorInvariant == Spec => [](TreeInv /\ CursorInv)
<1>1. Init => TreeInv /\ CursorInv
  BY InitTree DEF Init, CursorInv
<1>2. TreeInv /\ CursorInv /\ [Next]_vars => (TreeInv /\ CursorInv)'
  BY NextTree, NextSet
<1> QED BY <1>1, <1>2, PTL DEF Spec

\* Every variable stays in its type: no link, no iterator and no answer is ever anything else.
THEOREM TypeCorrect == Spec => []TypeOK
<1>1. ASSUME TreeInv, CursorInv
      PROVE  TypeOK
  <2>1. PICK B : Shape(tree, nodes \ {gone}, B)
    BY <1>1, TreeHas
  <2>2. tree \in Trees
    BY <2>1 DEF Shape, Links
  <2>3. at \in Cells /\ gone \in nodes \union {Nil}
    BY <1>1, CellsAreKeys DEF TreeInv, Rising, Deficit, Gap
  <2>4. it \in nodes \union {Null}
    BY <1>1 DEF CursorInv
  <2> QED BY <1>1, <2>2, <2>3, <2>4 DEF TypeOK, TreeInv, Trees
<1> QED BY <1>1, CursorInvariant, PTL

\* The tree implements the ordered set: every public call acts on the nodes, the iterator and the
\* answer as that specification says, and every turn of a fixup is a stutter.
THEOREM OrderedSetRefined == Spec => OrderedSetSpec
<1>1. Init => Set!Init
  BY DEF Init, Set!Init
<1>2. TreeInv /\ CursorInv /\ [Next]_vars => [Set!Step]_(Set!setVars)
  BY NextSet
<1> QED BY <1>1, <1>2, CursorInvariant, PTL DEF Spec, OrderedSetSpec, Set!Spec
=============================================================================
