------------------------------ MODULE AvlTree ------------------------------
(***************************************************************************)
(* The balanced trees of ladr/avltree.c, as operators on trees: a tree is  *)
(* Nil or a node with its item, two subtrees, and the height and size the  *)
(* code keeps in it.  Items are compared by key[item], a tuple of numbers, *)
(* in lexicographic order.                                                 *)
(***************************************************************************)
EXTENDS Integers, Sequences, FiniteSets, SequencesExt

Nil == [height |-> 0, size |-> 0]
IsNil(p) == p.size = 0

LOCAL IMax(a, b) == IF a > b THEN a ELSE b

\* A node over two subtrees, with its fields set (set_height_and_size).
Node(item, left, right) ==
  [item |-> item, left |-> left, right |-> right,
   height |-> IMax(left.height, right.height) + 1, size |-> left.size + right.size + 1]

Less(k1, k2) == \E i \in DOMAIN k1 : k1[i] < k2[i] /\ \A j \in 1 .. i - 1 : k1[j] = k2[j]

RotateLeft(p)  == Node(p.right.item, Node(p.item, p.left, p.right.left), p.right.right)
RotateRight(p) == Node(p.left.item, p.left.left, Node(p.item, p.left.right, p.right))

\* avl_fix: the heights of the subtrees differ by at most 2.  A mutant first.
FixSingle(p) ==
  IF p.left.height - p.right.height \in -1 .. 1 THEN p
  ELSE IF p.left.height < p.right.height THEN RotateLeft(p) ELSE RotateRight(p)

Fix(p) ==
  LET l == p.left  r == p.right IN
  IF l.height - r.height \in -1 .. 1 THEN p
  ELSE IF l.height < r.height
  THEN IF r.left.height =< r.right.height THEN RotateLeft(p)
       ELSE RotateLeft(Node(p.item, l, RotateRight(r)))
  ELSE IF l.right.height =< l.left.height THEN RotateRight(p)
       ELSE RotateRight(Node(p.item, RotateLeft(l), r))

\* avl_lookup; avl_insert is fatal when it finds something, avl_delete when it does not.
RECURSIVE Found(_, _, _)
Found(p, x, key) ==
  IF IsNil(p) THEN FALSE
  ELSE IF Less(key[x], key[p.item]) THEN Found(p.left, x, key)
  ELSE IF Less(key[p.item], key[x]) THEN Found(p.right, x, key)
  ELSE TRUE

RECURSIVE Insert(_, _, _)
Insert(p, x, key) ==
  IF IsNil(p) THEN Node(x, Nil, Nil)
  ELSE IF Less(key[x], key[p.item])
  THEN Fix(Node(p.item, Insert(p.left, x, key), p.right))
  ELSE Fix(Node(p.item, p.left, Insert(p.right, x, key)))

RECURSIVE Smallest(_)
Smallest(p) == IF IsNil(p.left) THEN p.item ELSE Smallest(p.left)
RECURSIVE Largest(_)
Largest(p) == IF IsNil(p.right) THEN p.item ELSE Largest(p.right)

RECURSIVE WithoutLargest(_)
WithoutLargest(p) ==
  IF IsNil(p.right) THEN p.left ELSE Fix(Node(p.item, p.left, WithoutLargest(p.right)))
RECURSIVE WithoutSmallest(_)
WithoutSmallest(p) ==
  IF IsNil(p.left) THEN p.right ELSE Fix(Node(p.item, WithoutSmallest(p.left), p.right))

\* Both subtrees of a deleted node: the next item of the higher one takes its place.
Joined(left, right) ==
  IF IsNil(left) /\ IsNil(right) THEN Nil
  ELSE IF left.height < right.height
  THEN Fix(Node(Smallest(right), left, WithoutSmallest(right)))
  ELSE Fix(Node(Largest(left), WithoutLargest(left), right))

RECURSIVE Delete(_, _, _)
Delete(p, x, key) ==
  IF Less(key[x], key[p.item]) THEN Fix(Node(p.item, Delete(p.left, x, key), p.right))
  ELSE IF Less(key[p.item], key[x]) THEN Fix(Node(p.item, p.left, Delete(p.right, x, key)))
  ELSE Joined(p.left, p.right)

\* avl_place: the place of x in order, or the one it would be inserted at.
RECURSIVE Place(_, _, _)
Place(p, x, key) ==
  IF IsNil(p) THEN 1
  ELSE IF Less(key[x], key[p.item]) THEN Place(p.left, x, key)
  ELSE IF Less(key[p.item], key[x]) THEN p.left.size + 1 + Place(p.right, x, key)
  ELSE p.left.size + 1

\* avl_nth_item, for 1 =< n =< p.size.
RECURSIVE Nth(_, _)
Nth(p, n) ==
  IF n =< p.left.size THEN Nth(p.left, n)
  ELSE IF n = p.left.size + 1 THEN p.item
  ELSE Nth(p.right, n - (p.left.size + 1))

\* avl_build_sorted: a tree from a sequence in order.
RECURSIVE Build(_)
Build(seq) ==
  IF seq = <<>> THEN Nil
  ELSE LET mid == (Len(seq) + 1) \div 2
       IN  Node(seq[mid], Build(SubSeq(seq, 1, mid - 1)), Build(SubSeq(seq, mid + 1, Len(seq))))

(***************************************************************************)
(* For the properties: the items of a tree in order, and the shape that    *)
(* avl_check asks for.                                                     *)
(***************************************************************************)
RECURSIVE InOrder(_)
InOrder(p) == IF IsNil(p) THEN <<>> ELSE InOrder(p.left) \o <<p.item>> \o InOrder(p.right)

RECURSIVE Balanced(_)
Balanced(p) ==
  \/ IsNil(p)
  \/ /\ Balanced(p.left) /\ Balanced(p.right)
     /\ p.left.height - p.right.height \in -1 .. 1
     /\ p.height = IMax(p.left.height, p.right.height) + 1
     /\ p.size = p.left.size + p.right.size + 1

Ascending(seq, key) == \A i \in 1 .. Len(seq) - 1 : Less(key[seq[i]], key[seq[i + 1]])

=============================================================================
