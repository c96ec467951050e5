---------------------------- MODULE RedBlackTree ----------------------------
(***************************************************************************)
(* imdb::RedBlackTree of include/imdb/RedBlackTree.h: nodes, links and     *)
(* colours of one tree, one action per public operation and one per        *)
(* iteration of insert_fixup and erase_fixup, so that the trees between    *)
(* two iterations are visible.  An operation begins only when pc is "idle".*)
(*                                                                         *)
(* A node is named by its key, which never changes; values ride along and  *)
(* are left out.  The code writes its left and right branches out twice;   *)
(* here one definition with the side s stands for both.                    *)
(***************************************************************************)
EXTENDS Integers, FiniteSets

CONSTANTS
  Keys,   \* the keys that can be inserted; comp_ is < on them
  Sought, \* the keys that are looked up
  Nil,    \* the sentinel nil_
  Null    \* nullptr, the node of end()

ASSUME KeyAssumption == Keys \subseteq Int /\ Nil \notin Keys /\ Null \notin Keys \union {Nil}
ASSUME SoughtAssumption == Sought \subseteq Keys

VARIABLES
  tree,  \* root_ and the fields of the nodes: root, child, parent, color
  nodes, \* the nodes allocated, without the sentinel
  size,  \* size_
  pc,    \* "idle", "insert_fixup" or "erase_fixup"
  at,    \* the local z of insert_fixup or x of erase_fixup
  gone,  \* the node erase_node has unlinked and not yet destroyed, or Nil
  it,    \* the node of an iterator that a caller holds
  call   \* the operation called last, with its key, whose answer it is

vars == <<tree, nodes, size, pc, at, gone, it, call>>

Side == {"left", "right"}
Mirror(s) == IF s = "left" THEN "right" ELSE "left"

Cells == Keys \union {Nil}

\* init_nil: the sentinel is black and its own child and parent.
Empty == [root |-> Nil,
          child |-> [s \in Side |-> [n \in Cells |-> Nil]],
          parent |-> [n \in Cells |-> Nil],
          color |-> [n \in Cells |-> "black"]]

Init ==
  /\ tree = Empty /\ nodes = {} /\ size = 0
  /\ pc = "idle" /\ at = Nil /\ gone = Nil
  /\ it = Null /\ call = <<>>

-----------------------------------------------------------------------------
\* Walks over a tree t.

\* min_node and max_node: as far as the links of side s go.
Outermost(t, s, n) ==
  LET f[m \in Cells] == IF t.child[s][m] = Nil THEN m ELSE f[t.child[s][m]]
  IN  f[n]

\* next_node_in_tree (s = "right") and prev_node_in_tree (s = "left").
Neighbour(t, s, n) ==
  LET climb[m \in Cells] == LET p == t.parent[m] IN
        IF p # Nil /\ m = t.child[s][p] THEN climb[p] ELSE p
  IN  IF n = Nil THEN Nil
      ELSE IF t.child[s][n] # Nil THEN Outermost(t, Mirror(s), t.child[s][n]) ELSE climb[n]

\* Mutant of Position: the sentinel itself gets into an iterator.
PositionKeepsNil(n) == n

\* The iterators hold a null pointer where the tree holds its sentinel.
Position(n) == IF n = Nil THEN Null ELSE n

SideOfKey(k, n) == IF k < n THEN "left" ELSE "right"

Find(t, k) ==
  LET f[n \in Cells] == IF n \in {Nil, k} THEN n ELSE f[t.child[SideOfKey(k, n)][n]]
  IN  f[t.root]

\* The parent under which insert_unique links a key that is not in the tree.
InsertParent(t, k) ==
  LET f[n \in Cells] ==
        IF t.child[SideOfKey(k, n)][n] = Nil THEN n ELSE f[t.child[SideOfKey(k, n)][n]]
  IN  IF t.root = Nil THEN Nil ELSE f[t.root]

\* Mutant of Bound: upper_bound stops at the key it is given.
BoundNotStrict(t, k, strict) ==
  LET f[n \in Cells] ==
        IF n = Nil THEN Nil
        ELSE IF k <= n
             THEN LET lower == f[t.child["left"][n]] IN IF lower = Nil THEN n ELSE lower
             ELSE f[t.child["right"][n]]
  IN  f[t.root]

\* lower_bound, and upper_bound if strict: the last node left of which the search
\* went on.
Bound(t, k, strict) ==
  LET f[n \in Cells] ==
        IF n = Nil THEN Nil
        ELSE IF k < n \/ (k = n /\ ~strict)
             THEN LET lower == f[t.child["left"][n]] IN IF lower = Nil THEN n ELSE lower
             ELSE f[t.child["right"][n]]
  IN  f[t.root]

-----------------------------------------------------------------------------
\* Changes of a tree t.

Paint(t, n, c) == [t EXCEPT !.color[n] = c]
Child(t, n, s, c) == [t EXCEPT !.child[s][n] = c]
Parent(t, n, p) == [t EXCEPT !.parent[n] = p]

\* n gets c as its child on side s, and c gets n as its parent.
Attach(t, n, s, c) == Parent(Child(t, n, s, c), c, n)

SideOf(t, n) == IF n = t.child["left"][t.parent[n]] THEN "left" ELSE "right"

\* The link to u from its parent, or root_, is set to v.
Relink(t, u, v) ==
  IF t.parent[u] = Nil THEN [t EXCEPT !.root = v]
  ELSE Child(t, t.parent[u], SideOf(t, u), v)

\* Mutant of Adopted: the parent of the subtree that changes sides is not set.
AdoptedNot(t, inner, x) == t

\* The subtree that changes sides in a rotation gets x as its parent.
Adopted(t, inner, x) == IF inner = Nil THEN t ELSE Parent(t, inner, x)

\* rotate_left(x) for s = "left", rotate_right(x) for s = "right".
Rotate(t, s, x) ==
  LET y == t.child[Mirror(s)][x]
      inner == t.child[s][y]
      above == Parent(Relink(t, x, y), y, t.parent[x])
  IN  Adopted(Child(Attach(above, y, s, x), x, Mirror(s), inner), inner, x)

\* Mutant of Transplant: the parent is set only for a node that is not the sentinel.
TransplantSkipsNil(t, u, v) ==
  IF v = Nil THEN Relink(t, u, v) ELSE Parent(Relink(t, u, v), v, t.parent[u])

\* transplant(u, v): v's parent is set even if v is the sentinel.
Transplant(t, u, v) == Parent(Relink(t, u, v), v, t.parent[u])

\* A new node for k is a red leaf below p.
Leaf(t, k, p) ==
  [t EXCEPT !.child["left"][k] = Nil, !.child["right"][k] = Nil,
            !.parent[k] = p, !.color[k] = "red"]

\* The tree into which insert_unique has linked a node for k.
Linked(t, k) ==
  LET p == InsertParent(t, k)
      new == Leaf(t, k, p)
  IN  IF p = Nil THEN [new EXCEPT !.root = k] ELSE Child(new, p, SideOfKey(k, p), k)

\* erase_node(z) before erase_fixup: the tree without z, the node x that took the
\* place of the one moved, and the colour that was lost there.
Unlinked(t, z) ==
  LET only(s) == [tree |-> Transplant(t, z, t.child[s][z]), x |-> t.child[s][z],
                  color |-> t.color[z]]
      y == Outermost(t, "left", t.child["right"][z])
      x == t.child["right"][y]
      freed == IF t.parent[y] = z THEN Parent(t, x, y)
               ELSE Attach(Transplant(t, y, x), y, "right", t.child["right"][z])
      moved == Transplant(freed, z, y)
  IN  IF t.child["left"][z] = Nil THEN only("right")
      ELSE IF t.child["right"][z] = Nil THEN only("left")
      ELSE [tree |-> Paint(Attach(moved, y, "left", t.child["left"][z]), y, t.color[z]),
            x |-> x, color |-> t.color[y]]

\* destroy_node(z): nothing is left of the fields.
Destroyed(t, z) ==
  [t EXCEPT !.child["left"][z] = Nil, !.child["right"][z] = Nil,
            !.parent[z] = Nil, !.color[z] = "black"]

-----------------------------------------------------------------------------
\* Insertion.

\* insert_unique finds the key, or links a node for it and calls insert_fixup.
InsertFound(k) ==
  /\ pc = "idle" /\ k \in nodes
  /\ it' = k /\ call' = <<"insert", k>>
  /\ UNCHANGED <<tree, nodes, size, pc, at, gone>>

InsertNew(k) ==
  /\ pc = "idle" /\ k \notin nodes
  /\ tree' = Linked(tree, k)
  /\ nodes' = nodes \union {k}
  /\ pc' = "insert_fixup" /\ at' = k
  /\ it' = k /\ call' = <<"insert", k>>
  /\ UNCHANGED <<size, gone>>

InsertLoop == pc = "insert_fixup" /\ tree.color[tree.parent[at]] = "red"

\* The names of insert_fixup's body.
Up(n) == tree.parent[n]
UpSide == SideOf(tree, Up(at))
Uncle == tree.child[Mirror(UpSide)][Up(Up(at))]

\* Case 1: parent and uncle both red.
InsertRecolor ==
  /\ InsertLoop /\ tree.color[Uncle] = "red"
  /\ tree' = Paint(Paint(Paint(tree, Up(at), "black"), Uncle, "black"), Up(Up(at)), "red")
  /\ at' = Up(Up(at))
  /\ UNCHANGED <<nodes, size, pc, gone, it, call>>

\* Case 3: p black, g red, and p above g.
Turned(t, s, p, g) == Rotate(Paint(Paint(t, p, "black"), g, "red"), Mirror(s), g)

\* Cases 2 and 3: a red parent, a black uncle; an inner node is first turned out.
InsertRotate ==
  /\ InsertLoop /\ tree.color[Uncle] = "black"
  /\ LET s == UpSide
         inner == at = tree.child[Mirror(s)][Up(at)]
         z == IF inner THEN Up(at) ELSE at
         t == IF inner THEN Rotate(tree, s, Up(at)) ELSE tree
         p == t.parent[z]
     IN  /\ at' = z
         /\ tree' = Turned(t, s, p, t.parent[p])
  /\ UNCHANGED <<nodes, size, pc, gone, it, call>>

InsertDone ==
  /\ pc = "insert_fixup" /\ tree.color[tree.parent[at]] = "black"
  /\ tree' = Paint(tree, tree.root, "black")
  /\ size' = size + 1
  /\ pc' = "idle" /\ at' = Nil
  /\ UNCHANGED <<nodes, gone, it, call>>

-----------------------------------------------------------------------------
\* Erasure.

\* erase_node(z) up to erase_fixup, or to its end if no black node was lost.
EraseNode(z) ==
  LET u == Unlinked(tree, z)
  IN  /\ pc = "idle" /\ z \in nodes
      /\ IF u.color = "black"
         THEN /\ tree' = u.tree /\ pc' = "erase_fixup" /\ at' = u.x /\ gone' = z
              /\ UNCHANGED <<nodes, size>>
         ELSE /\ tree' = Destroyed(u.tree, z) /\ nodes' = nodes \ {z} /\ size' = size - 1
              /\ UNCHANGED <<pc, at, gone>>

\* erase(k), by a caller who drops an iterator that is at k.
EraseKey(k) ==
  /\ EraseNode(k)
  /\ it' = (IF it = k THEN Null ELSE it)
  /\ call' = <<"erase", k>>

\* erase(it) moves the iterator on before it unlinks the node.
EraseAtIterator ==
  /\ it \in nodes /\ EraseNode(it)
  /\ it' = Position(Neighbour(tree, "right", it))
  /\ call' = <<"erase_at">>

EraseLoop == pc = "erase_fixup" /\ at # tree.root /\ tree.color[at] = "black"

\* The side x is on, and the sibling w in a tree t.
AtSide == SideOf(tree, at)
Sibling(t) == t.child[Mirror(AtSide)][t.parent[at]]

\* Mutant of BlackSibling: the parent that goes down is not painted red.
BlackSiblingUnpainted ==
  LET w == Sibling(tree)
  IN  IF tree.color[w] = "red"
      THEN Rotate(Paint(tree, w, "black"), AtSide, Up(at))
      ELSE tree

\* The tree once case 1 has made the sibling black.
BlackSibling ==
  LET w == Sibling(tree)
  IN  IF tree.color[w] = "red"
      THEN Rotate(Paint(Paint(tree, w, "black"), Up(at), "red"), AtSide, Up(at))
      ELSE tree

NephewsBlack(t) == \A s \in Side : t.color[t.child[s][Sibling(t)]] = "black"

\* Case 1 or not, then case 2: the nephews are black, x moves up.
EraseRecolor ==
  LET t == BlackSibling
  IN  /\ EraseLoop /\ NephewsBlack(t)
      /\ tree' = Paint(t, Sibling(t), "red")
      /\ at' = t.parent[at]
      /\ UNCHANGED <<nodes, size, pc, gone, it, call>>

\* Mutant of TopColor: the sibling does not take the parent's colour.
TopColorBlack(t, p) == "black"

\* The colour of the subtree's new top: that of its old one.
TopColor(t, p) == t.color[p]

\* Case 1 or not, then case 3 or not (the far nephew is black), then case 4.
EraseRotate ==
  LET s == AtSide
      w == Sibling(BlackSibling)
      near == BlackSibling.child[s][w]
      far == BlackSibling.child[Mirror(s)][w]
      t == IF BlackSibling.color[far] = "black"
           THEN Rotate(Paint(Paint(BlackSibling, near, "black"), w, "red"), Mirror(s), w)
           ELSE BlackSibling
      v == Sibling(t)
      p == t.parent[at]
      done == Paint(Paint(Paint(t, v, TopColor(t, p)), p, "black"),
                    t.child[Mirror(s)][v], "black")
  IN  /\ EraseLoop /\ ~NephewsBlack(BlackSibling)
      /\ tree' = Rotate(done, s, p)
      /\ at' = tree'.root
      /\ UNCHANGED <<nodes, size, pc, gone, it, call>>

EraseDone ==
  /\ pc = "erase_fixup" /\ (at = tree.root \/ tree.color[at] = "red")
  /\ tree' = Destroyed(Paint(tree, at, "black"), gone)
  /\ nodes' = nodes \ {gone}
  /\ size' = size - 1
  /\ pc' = "idle" /\ at' = Nil /\ gone' = Nil
  /\ UNCHANGED <<it, call>>

\* destroy_recursive(root_); what the sentinel's parent link was, it stays.
Clear ==
  /\ pc = "idle"
  /\ tree' = [Empty EXCEPT !.parent[Nil] = tree.parent[Nil]]
  /\ nodes' = {} /\ size' = 0
  /\ it' = Null /\ call' = <<"clear">>
  /\ UNCHANGED <<pc, at, gone>>

-----------------------------------------------------------------------------
\* The iterator.

Seek(c) ==
  /\ pc = "idle" /\ call' = c
  /\ UNCHANGED <<tree, nodes, size, pc, at, gone>>

\* find, on which count, contains and at rest.
FindKey(k) == Seek(<<"find", k>>) /\ it' = Position(Find(tree, k))

\* The two ends of equal_range.
LowerBound(k) == Seek(<<"lower_bound", k>>) /\ it' = Position(Bound(tree, k, FALSE))
UpperBound(k) == Seek(<<"upper_bound", k>>) /\ it' = Position(Bound(tree, k, TRUE))

Begin ==
  /\ Seek(<<"begin">>)
  /\ it' = Position(IF tree.root = Nil THEN Nil ELSE Outermost(tree, "left", tree.root))

ToEnd == Seek(<<"end">>) /\ it' = Null

Advance == Seek(<<"++">>) /\ it # Null /\ it' = Position(Neighbour(tree, "right", it))

\* --it, and ++ of a reverse_iterator, whose current_ is it.  Decrementing end() of an
\* empty tree is a caller's error.
Retreat ==
  /\ Seek(<<"--">>) /\ nodes # {}
  /\ it' = IF it = Null THEN Outermost(tree, "right", tree.root)
           ELSE Position(Neighbour(tree, "left", it))

Fixup ==
  \/ InsertRecolor \/ InsertRotate \/ InsertDone
  \/ EraseRecolor \/ EraseRotate \/ EraseDone

Next ==
  \/ \E k \in Keys : InsertFound(k) \/ InsertNew(k) \/ EraseKey(k)
  \/ \E k \in Sought : FindKey(k) \/ LowerBound(k) \/ UpperBound(k)
  \/ EraseAtIterator
  \/ Clear
  \/ Begin \/ ToEnd \/ Advance \/ Retreat
  \/ Fixup

Spec == Init /\ [][Next]_vars

-----------------------------------------------------------------------------
\* What a tree is, said of its whole shape.

\* The nodes below and at n.
Subtree(t, n) ==
  LET f[m \in Cells] ==
        IF m = Nil THEN {} ELSE {m} \union f[t.child["left"][m]] \union f[t.child["right"][m]]
  IN  f[n]

Attached(t) == Subtree(t, t.root)

\* Black nodes from n to the leaves along the left links; a link <<m, s>> that is
\* the spot counts for one more.
BlackHeight(t, n, spot) ==
  LET f[m \in Cells] ==
        IF m = Nil THEN 0
        ELSE f[t.child["left"][m]] + (IF t.color[m] = "black" THEN 1 ELSE 0)
                                   + (IF spot = <<m, "left">> THEN 1 ELSE 0)
  IN  f[n]

\* Both sides of n have as many black nodes on every path.
Balanced(t, n, spot) ==
  LET through(s) == BlackHeight(t, t.child[s][n], spot) + (IF spot = <<n, s>> THEN 1 ELSE 0)
  IN  through("left") = through("right")

NoSpot == <<>>

Height(t) ==
  LET f[m \in Cells] ==
        IF m = Nil THEN 0
        ELSE LET l == f[t.child["left"][m]]
                 r == f[t.child["right"][m]]
             IN  1 + (IF l < r THEN r ELSE l)
  IN  f[t.root]

RedAbove(t, n) == t.color[n] = "red" /\ t.color[t.parent[n]] = "red"

\* verify_invariants and verify_node.
VerifyInvariants(t) ==
  /\ t.root # Nil => t.color[t.root] = "black"
  /\ \A n \in Attached(t), s \in Side :
       LET c == t.child[s][n]
       IN  /\ t.color[n] = "red" => t.color[c] # "red"
           /\ c # Nil => /\ IF s = "left" THEN c < n ELSE n < c
                         /\ t.parent[c] = n

-----------------------------------------------------------------------------
\* The kind of value each variable holds.
TypeOK ==
  /\ tree \in [root : Cells, child : [Side -> [Cells -> Cells]],
               parent : [Cells -> Cells], color : [Cells -> {"red", "black"}]]
  /\ nodes \subseteq Keys /\ size \in Nat
  /\ pc \in {"idle", "insert_fixup", "erase_fixup"}
  /\ at \in Cells /\ gone \in nodes \union {Nil}
  /\ it \in nodes \union {Null}

\* At every step of every operation the tree holds exactly the nodes allocated but
\* the one being erased, all keys are in search order, and every parent link is the
\* reverse of a child link: no rotation or transplant loses or duplicates a subtree.
SearchTree ==
  /\ Attached(tree) = nodes \ {gone}
  /\ tree.root # Nil => tree.parent[tree.root] = Nil
  /\ \A n \in Attached(tree), s \in Side :
       LET below == Subtree(tree, tree.child[s][n])
       IN  /\ \A m \in below : IF s = "left" THEN m < n ELSE n < m
           /\ tree.child[s][n] # Nil => tree.parent[tree.child[s][n]] = n

\* Whenever a caller sees the tree, the five properties of RedBlackTree.h:7-12 hold,
\* size() is the number of keys, verify_invariants() returns true, and the height is
\* what makes the operations logarithmic, as docs/algorithms.md:136-141 has them.
RedBlack ==
  pc = "idle" =>
    /\ tree.color[tree.root] = "black"
    /\ \A n \in nodes : ~RedAbove(tree, n) /\ Balanced(tree, n, NoSpot)
    /\ size = Cardinality(nodes)
    /\ VerifyInvariants(tree)
    /\ 2 ^ (Height(tree) \div 2) <= Cardinality(nodes) + 1

\* What the two loops keep: the sentinel is black and its own child; in
\* insert_fixup only z may be red under a red parent or be a red root; in
\* erase_fixup x is where its parent says it is, even if x is the sentinel, and
\* counting one more black node at x makes all paths even.
LoopInv ==
  /\ tree.color[Nil] = "black" /\ \A s \in Side : tree.child[s][Nil] = Nil
  /\ pc = "insert_fixup" =>
       /\ tree.color[at] = "red"
       /\ \A n \in nodes : Balanced(tree, n, NoSpot) /\ (RedAbove(tree, n) => n = at)
       /\ tree.color[tree.root] = "red" => tree.root = at
  /\ pc = "erase_fixup" =>
       /\ at # tree.root => at \in {tree.child[s][tree.parent[at]] : s \in Side}
       /\ \A n \in nodes \ {gone} :
            /\ RedAbove(tree, n) => at \in {n, tree.parent[n]}
            /\ Balanced(tree, n, IF at = tree.root THEN NoSpot ELSE <<tree.parent[at], AtSide>>)

\* How far a fixup is from its end: twice the depth of its node, and one more if
\* the node is black.
Remaining ==
  LET depth[n \in nodes \ {gone}] == IF n = tree.root THEN 0 ELSE 1 + depth[tree.parent[n]]
  IN  2 * (IF at = tree.root THEN 0 ELSE 1 + depth[tree.parent[at]])
      + (IF tree.color[at] = "black" THEN 1 ELSE 0)

\* Both fixup loops end: every iteration ends the operation or comes nearer to the
\* root, also where case 1 of an erasure takes x one level down first.
FixupsEnd == [][Fixup => pc' = "idle" \/ Remaining' < Remaining]_vars

\* The tree implements OrderedSet: an insertion or erasure happens when its node is
\* linked or unlinked, and fixups are invisible.  An iterator is at a node, and no
\* rotation, transplant or erasure of another key moves or invalidates it.
Set == INSTANCE OrderedSet WITH keys <- nodes \ {gone}, End <- Null
OrderedSetSpec == Set!Spec
=============================================================================
