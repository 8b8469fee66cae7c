------------------------------- MODULE AvlMap -------------------------------
(***************************************************************************)
(* alp_utils::avl_map<K, V> of container/avl_map.h: an intrusive AVL tree  *)
(* with a header node, in the style of libstdc++'s red-black tree.  The    *)
(* header's parent_ is the root, its left_ the leftmost node and its       *)
(* right_ the rightmost; begin() is the leftmost node and end() the        *)
(* header.                                                                 *)
(*                                                                         *)
(* The map is sequential, so every public operation is one step.  Its     *)
(* pointer algorithms (rotations, the two rebalancing loops, the           *)
(* increment and decrement of iterators, the searches) are operators over  *)
(* the tree, a record of the four link fields of avl_tree_node_base as     *)
(* functions over node ids.  A node is named by its key (keys are unique   *)
(* in the map), the header is H and nullptr is NIL.  Mapped values are     *)
(* left out: no operation compares them.  The fields of a freed node are   *)
(* not state and are reset to NIL.                                         *)
(***************************************************************************)
EXTENDS Integers, Sequences, FiniteSets

CONSTANT Keys   \* the keys, integers ordered by std::less

ASSUME Keys \subseteq Nat \ {0}

H == 0        \* &impl_.header_
NIL == -1     \* nullptr
Node == Keys \cup {H}

VARIABLES
  tree,     \* [l, r, p, h]: left_, right_, parent_, height_ of every node
  count     \* impl_.node_count_

vars == <<tree, count>>

Max2(a, b) == IF a >= b THEN a ELSE b

\* One assignment to a field of a node.
Set(t, f, n, v) == [t EXCEPT ![f][n] = v]

-----------------------------------------------------------------------------
(* height_helper, avl_tree_node_base::minimum/maximum                      *)

height(t, x) == IF x = NIL THEN 0 ELSE t.h[x]

new_height(t, x) == Max2(height(t, t.l[x]), height(t, t.r[x])) + 1

RECURSIVE minimum(_, _)
minimum(t, x) == IF t.l[x] = NIL THEN x ELSE minimum(t, t.l[x])

RECURSIVE maximum(_, _)
maximum(t, x) == IF t.r[x] = NIL THEN x ELSE maximum(t, t.r[x])

-----------------------------------------------------------------------------
(* avl_tree_increment / avl_tree_decrement                                 *)

\* The climb of increment: up while x is a right child.
RECURSIVE ClimbRight(_, _, _)
ClimbRight(t, x, y) == IF x = t.r[y] THEN ClimbRight(t, y, t.p[y]) ELSE <<x, y>>

avl_tree_increment(t, x) ==
  IF t.r[x] # NIL THEN minimum(t, t.r[x])
  ELSE LET c == ClimbRight(t, x, t.p[x])
       IN  IF t.r[c[1]] # c[2] THEN c[2] ELSE c[1]

\* The climb of decrement: up while x is a left child.
RECURSIVE ClimbLeft(_, _, _)
ClimbLeft(t, x, y) == IF x = t.l[y] THEN ClimbLeft(t, y, t.p[y]) ELSE y

avl_tree_decrement(t, x) ==
  IF t.p[x] = x THEN t.r[x]
  ELSE IF t.l[x] # NIL THEN maximum(t, t.l[x])
  ELSE ClimbLeft(t, x, t.p[x])

-----------------------------------------------------------------------------
(* avl_rotate_left / avl_rotate_right                                      *)

\* x takes p's place, in the parent g of p or, for the root, in the header
\* (whose parent_ is the root); first is the child link tested first.
Replace(t, g, p, x, first) ==
  IF g = NIL THEN t
  ELSE IF t.p[g] = p THEN Set(t, "p", g, x)
  ELSE IF t[first][g] = p THEN Set(t, first, g, x)
  ELSE Set(t, IF first = "l" THEN "r" ELSE "l", g, x)

\* A write through a pointer guarded by if (n).
Link(t, f, n, v) == IF n = NIL THEN t ELSE Set(t, f, n, v)

\* The links of a rotation of x above p: p's a-side child becomes x's
\* b-side child c, and p becomes x's b-side child.  c and p's parent g are
\* read before the writes.
Rotate(t, x, p, a, b) ==
  LET c == t[b][x]
      g == t.p[p]
  IN  Replace(Link([t EXCEPT ![a][p] = c, ![b][x] = p, !.p[x] = g, !.p[p] = x],
                   "p", c, p),
              g, p, x, b)

\* n->height_ = height_helper::new_height(n).
FixHeight(t, n) == Set(t, "h", n, new_height(t, n))

avl_rotate_left(t, x, p) == FixHeight(FixHeight(Rotate(t, x, p, "r", "l"), p), x)

\* Unlike avl_rotate_left, it leaves the heights to the caller.
avl_rotate_right(t, x, p) == Rotate(t, x, p, "l", "r")

-----------------------------------------------------------------------------
(* avl_tree_insert_and_rebalance                                           *)

\* The rotations of a diff == 2 step; state encodes whether p is g's left
\* child (bit 1) and whether x is p's left child (bit 0).
InsertRotate(t, state, x, p, g) ==
  LET \* after the switch: g->height_, then p->height_ (p the new top)
      fix(t1, np) == FixHeight(FixHeight(t1, g), np)
  IN  CASE state = 0 -> fix(avl_rotate_left(t, p, g), p)      \* right_right
        [] state = 3 -> fix(avl_rotate_right(t, p, g), p)     \* left_left
        \* a double rotation swaps x and p and sets the height of the old p
        [] state = 2 ->                                       \* left_right
             fix(FixHeight(avl_rotate_right(avl_rotate_left(t, x, p), x, g), p), x)
        [] state = 1 ->                                       \* right_left
             fix(FixHeight(avl_rotate_left(avl_rotate_right(t, x, p), x, g), p), x)

\* The while (g != &header) loop: p's subtree is now height tall.
RECURSIVE InsertLoop(_, _, _, _, _, _)
InsertLoop(t, x, p, g, hgt, state) ==
  IF g = H THEN t
  ELSE
    LET is_left    == t.l[g] = p
        tmp_height == IF is_left THEN height(t, t.r[g]) ELSE height(t, t.l[g])
        diff       == hgt - tmp_height
        nh         == Max2(tmp_height, hgt) + 1
        st         == state + (IF is_left THEN 2 ELSE 0)
        t1         == Set(t, "h", g, nh)
    IN  IF nh = t.h[g] THEN t
        ELSE IF diff = 2 THEN InsertRotate(t1, st, x, p, g)
        ELSE InsertLoop(t1, p, g, t1.p[g], nh, IF is_left THEN 1 ELSE 0)

\* Links the fresh node x below p (on the left if insert_left) and
\* rebalances; the header's leftmost and rightmost follow.
avl_tree_insert_and_rebalance(t, insert_left, x, p) ==
  LET t0 == [t EXCEPT !.h[x] = 1, !.p[x] = p, !.l[x] = NIL, !.r[x] = NIL]
      t1 == IF insert_left
              THEN LET a == Set(t0, "l", p, x)
                   IN  IF p = H THEN Set(Set(a, "p", H, x), "r", H, x)
                       ELSE IF p = a.l[H] THEN Set(a, "l", H, x) ELSE a
              ELSE LET a == Set(t0, "r", p, x)
                   IN  IF p = a.r[H] THEN Set(a, "r", H, x) ELSE a
      tmp_height == IF insert_left THEN height(t1, t1.r[p])
                                   ELSE height(t1, t1.l[p])
      hgt == Max2(tmp_height, 1) + 1
  IN  IF insert_left /\ p = H THEN t1
      ELSE IF hgt = t1.h[p] THEN t1
      ELSE LET t2 == Set(t1, "h", p, hgt)
           IN  InsertLoop(t2, x, p, t2.p[p], hgt,
                          IF insert_left THEN 1 ELSE 0)

-----------------------------------------------------------------------------
(* avl_tree_rebalance_for_erase                                            *)

\* The part before the loop: unlink z, or, when z has two children, put its
\* successor y in z's place.  x is the subtree that took the place of the
\* removed node, x_parent its parent, erase_left whether it is on the left.
\* Where z was the child of zp (the root: zp is the header), v is now.
ReplaceChild(t, zp, z, v) ==
  IF t.p[H] = z THEN Set(t, "p", H, v)
  ELSE IF t.l[zp] = z THEN Set(t, "l", zp, v)
  ELSE Set(t, "r", zp, v)

\* y != z: the successor y of z (x its right child) takes z's place.
RelinkSuccessor(t, z, y) ==
  LET x  == t.r[y]
      a  == [t EXCEPT !.p[t.l[z]] = y, !.l[y] = t.l[z], !.h[y] = t.h[z]]
      b  == IF y # t.r[z]
              THEN Link([a EXCEPT !.l[t.p[y]] = x, !.r[y] = t.r[z],
                                  !.p[t.r[z]] = y], "p", x, t.p[y])
              ELSE a
  IN  [t |-> [ReplaceChild(b, t.p[z], z, y) EXCEPT !.p[y] = t.p[z]],
       x |-> x,
       x_parent |-> IF y # t.r[z] THEN t.p[y] ELSE y,
       erase_left |-> y # t.r[z]]

\* The header's leftmost and rightmost when z, now unlinked, was one.
Extremes(b, z, x, zp, zl, zr) ==
  LET c == IF b.l[H] # z THEN b
           ELSE Set(b, "l", H, IF zr = NIL THEN zp ELSE minimum(b, x))
  IN  IF c.r[H] # z THEN c
      ELSE Set(c, "r", H, IF zl = NIL THEN zp ELSE maximum(c, x))

\* y == z: z has at most one child x, which takes its place.
UnlinkNode(t, z) ==
  LET x  == IF t.l[z] = NIL THEN t.r[z] ELSE t.l[z]
      zp == t.p[z]
  IN  [t |-> Extremes(ReplaceChild(Link(t, "p", x, zp), zp, z, x),
                      z, x, zp, t.l[z], t.r[z]),
       x |-> x, x_parent |-> zp,
       erase_left |-> t.p[H] # z /\ t.l[zp] = z]

\* The part before the loop: x is the subtree that took the place of the
\* removed node, x_parent its parent, erase_left whether it is on the left.
EraseUnlink(t, z) ==
  IF t.l[z] # NIL /\ t.r[z] # NIL
    THEN RelinkSuccessor(t, z, minimum(t, t.r[z]))
    ELSE UnlinkNode(t, z)

\* The rotations of a diff == 2 step, the subtree's new top, and its
\* heights: x_parent's, then the top's.
EraseRotateCase(t, xp, tmp, state, x) ==
  LET rot == CASE state = 0 -> <<avl_rotate_left(t, tmp, xp), tmp>>
               [] state = 3 -> <<avl_rotate_right(t, tmp, xp), tmp>>
               [] state = 2 ->
                    <<FixHeight(avl_rotate_right(avl_rotate_left(t, x, tmp), x, xp), tmp), x>>
               [] state = 1 ->
                    <<FixHeight(avl_rotate_left(avl_rotate_right(t, x, tmp), x, xp), tmp), x>>
  IN  <<FixHeight(FixHeight(rot[1], xp), rot[2]), rot[2]>>

\* Mutant: on a tie, is_left follows erase_left instead of opposing it.
EraseRotate_tie_same_side(t, xp, tmp, el) ==
  LET lh == height(t, t.l[tmp])
      rh == height(t, t.r[tmp])
      is_left == IF lh = rh THEN el ELSE lh > rh
  IN  EraseRotateCase(t, xp, tmp, (IF el THEN 0 ELSE 2) + (IF is_left THEN 1 ELSE 0),
                      IF is_left THEN t.l[tmp] ELSE t.r[tmp])

\* is_left: the taller child of tmp; on a tie, the side opposite erase_left.
EraseRotate(t, xp, tmp, el) ==
  LET lh == height(t, t.l[tmp])
      rh == height(t, t.r[tmp])
      is_left == IF lh = rh THEN ~el ELSE lh > rh
  IN  EraseRotateCase(t, xp, tmp, (IF el THEN 0 ELSE 2) + (IF is_left THEN 1 ELSE 0),
                      IF is_left THEN t.l[tmp] ELSE t.r[tmp])

\* The while (x_parent != &header) loop: the subtree on the erase_left side
\* of x_parent is hgt tall, its sibling tmp is th tall.  EraseClimb is the
\* loop's tail: x = x_parent, x_parent = x_parent->parent_.
RECURSIVE EraseLoop(_, _, _, _, _, _), EraseClimb(_, _), EraseAfterRotate(_, _)

EraseClimb(t, n) ==
  LET pn == t.p[n]
      l  == n = t.l[pn]
  IN  EraseLoop(t, pn, IF l THEN t.r[pn] ELSE t.l[pn], l, t.h[n],
                height(t, IF l THEN t.r[pn] ELSE t.l[pn]))

\* After the swap, x_parent is the top: stop if its height is unchanged.
EraseAfterRotate(rot, old) ==
  IF old = rot[1].h[rot[2]] THEN rot[1] ELSE EraseClimb(rot[1], rot[2])

EraseLoop(t, xp, tmp, el, hgt, th) ==
  LET nh == Max2(th, hgt) + 1
  IN  IF xp = H THEN t
      ELSE IF nh = t.h[xp] /\ th - hgt = 1 THEN t
      ELSE IF th - hgt # 2 THEN EraseClimb(Set(t, "h", xp, nh), xp)
      ELSE EraseAfterRotate(EraseRotate(Set(t, "h", xp, nh), xp, tmp, el), t.h[xp])

EraseFrom(u) ==
  LET tmp == IF u.erase_left THEN u.t.r[u.x_parent] ELSE u.t.l[u.x_parent]
  IN  EraseLoop(u.t, u.x_parent, tmp, u.erase_left, height(u.t, u.x),
                height(u.t, tmp))

\* The tree without z; the caller frees z.
avl_tree_rebalance_for_erase(t, z) == EraseFrom(EraseUnlink(t, z))

-----------------------------------------------------------------------------
(* Searches of avl_tree.  Keys are node ids, so node_key(x) is x.          *)

\* The nodes in the tree: every linked node has a parent (the root's is H).
InTree(t) == {k \in Keys : t.p[k] # NIL}

RECURSIVE lower_bound(_, _, _, _)
lower_bound(t, x, y, k) ==
  IF x = NIL THEN y
  ELSE IF ~(x < k) THEN lower_bound(t, t.l[x], x, k)
  ELSE lower_bound(t, t.r[x], y, k)

RECURSIVE upper_bound(_, _, _, _)
upper_bound(t, x, y, k) ==
  IF x = NIL THEN y
  ELSE IF k < x THEN upper_bound(t, t.l[x], x, k)
  ELSE upper_bound(t, t.r[x], y, k)

find(t, k) ==
  LET j == lower_bound(t, t.p[H], H, k)
  IN  IF j = H \/ k < j THEN H ELSE j

RECURSIVE EqualRangeFrom(_, _, _, _)
\* Mutant: the upper end of an equal key is the bound found so far.
EqualRangeFrom_upper_from_parent(t, x, y, k) ==
  IF x = NIL THEN <<y, y>>
  ELSE IF x < k THEN EqualRangeFrom(t, t.r[x], y, k)
  ELSE IF k < x THEN EqualRangeFrom(t, t.l[x], x, k)
  ELSE <<lower_bound(t, t.l[x], x, k), y>>

EqualRangeFrom(t, x, y, k) ==
  IF x = NIL THEN <<y, y>>
  ELSE IF x < k THEN EqualRangeFrom(t, t.r[x], y, k)
  ELSE IF k < x THEN EqualRangeFrom(t, t.l[x], x, k)
  ELSE <<lower_bound(t, t.l[x], x, k), upper_bound(t, t.r[x], y, k)>>

equal_range(t, k) == EqualRangeFrom(t, t.p[H], H, k)

\* The descent of get_insert_unique_pos: the last node y and the last
\* comparison k < y.
RECURSIVE UniqueDescent(_, _, _, _, _)
UniqueDescent(t, x, y, comp, k) ==
  IF x = NIL THEN <<y, comp>>
  ELSE UniqueDescent(t, IF k < x THEN t.l[x] ELSE t.r[x], x, k < x, k)

\* <<x, p>>: insert below p (p # NIL), or the equal key is at x (p = NIL).
get_insert_unique_pos(t, k) ==
  LET d == UniqueDescent(t, t.p[H], H, TRUE, k)
      y == d[1]
      j == IF d[2] /\ y # t.l[H] THEN avl_tree_decrement(t, y) ELSE y
  IN  IF d[2] /\ y = t.l[H] THEN <<NIL, y>>
      ELSE IF j < k THEN <<NIL, y>>
      ELSE <<j, NIL>>

\* Mutant: after pos, insert below pos without testing pos->right_.
get_insert_hint_unique_pos_no_right_check(t, size, pos, k) ==
  IF pos = H THEN
    IF size > 0 /\ t.r[H] < k THEN <<NIL, t.r[H]>>
    ELSE get_insert_unique_pos(t, k)
  ELSE IF k < pos THEN
    LET before == avl_tree_decrement(t, pos)
    IN  IF pos = t.l[H] THEN <<t.l[H], t.l[H]>>
        ELSE IF before < k THEN
          IF t.r[before] = NIL THEN <<NIL, before>> ELSE <<pos, pos>>
        ELSE get_insert_unique_pos(t, k)
  ELSE IF pos < k THEN
    LET after == avl_tree_increment(t, pos)
    IN  IF pos = t.r[H] THEN <<NIL, t.r[H]>>
        ELSE IF k < after THEN <<NIL, pos>>
        ELSE get_insert_unique_pos(t, k)
  ELSE <<pos, NIL>>

get_insert_hint_unique_pos(t, size, pos, k) ==
  IF pos = H THEN
    IF size > 0 /\ t.r[H] < k THEN <<NIL, t.r[H]>>
    ELSE get_insert_unique_pos(t, k)
  ELSE IF k < pos THEN
    LET before == avl_tree_decrement(t, pos)
    IN  IF pos = t.l[H] THEN <<t.l[H], t.l[H]>>
        ELSE IF before < k THEN
          IF t.r[before] = NIL THEN <<NIL, before>> ELSE <<pos, pos>>
        ELSE get_insert_unique_pos(t, k)
  ELSE IF pos < k THEN
    LET after == avl_tree_increment(t, pos)
    IN  IF pos = t.r[H] THEN <<NIL, t.r[H]>>
        ELSE IF k < after THEN
          IF t.r[pos] = NIL THEN <<NIL, pos>> ELSE <<after, after>>
        ELSE get_insert_unique_pos(t, k)
  ELSE <<pos, NIL>>

insert_node(t, x, p, z) ==
  avl_tree_insert_and_rebalance(t, x # NIL \/ p = H \/ z < p, z, p)

\* drop_node: a freed node's fields are no longer state.
Free(t, z) == [t EXCEPT !.l[z] = NIL, !.r[z] = NIL, !.p[z] = NIL, !.h[z] = 0]

\* avl_tree_header::reset, after tree_erase freed every node.
Empty == [l |-> [n \in Node |-> IF n = H THEN H ELSE NIL],
          r |-> [n \in Node |-> IF n = H THEN H ELSE NIL],
          p |-> [n \in Node |-> NIL],
          h |-> [n \in Node |-> 0]]

-----------------------------------------------------------------------------
(* The operations of avl_map                                               *)

Init ==
  /\ tree = Empty
  /\ count = 0

\* Inserts z at the position res = <<x, p>> when p # NIL (auto_node::insert,
\* insert_node, ++node_count_); otherwise the new node is dropped.
InsertAt(res, z) ==
  IF res[2] # NIL
    THEN /\ tree' = insert_node(tree, res[1], res[2], z)
         /\ count' = count + 1
    ELSE UNCHANGED <<tree, count>>

\* emplace(k, v) (and operator[]): lower_bound, then emplace_hint_unique at
\* the bound when the key is absent.
emplace(k) ==
  LET i == lower_bound(tree, tree.p[H], H, k)
  IN  IF i = H \/ k < i
        THEN InsertAt(get_insert_hint_unique_pos(tree, count, i, k), k)
        ELSE UNCHANGED <<tree, count>>

\* emplace with another number of arguments: emplace_unique.
emplace_unique(k) == InsertAt(get_insert_unique_pos(tree, k), k)

RECURSIVE EraseRange(_, _, _, _)

\* Mutant: erase_aux without --node_count_ per erased node.
EraseRange_keeps_count(t, n, first, last) ==
  IF first = last THEN <<t, n>>
  ELSE EraseRange(Free(avl_tree_rebalance_for_erase(t, first), first),
                  n, avl_tree_increment(t, first), last)

\* erase_aux(first, last): first++ is taken before first is erased, and
\* every erased node decrements node_count_.
EraseRange(t, n, first, last) ==
  IF first = last THEN <<t, n>>
  ELSE EraseRange(Free(avl_tree_rebalance_for_erase(t, first), first),
                  n - 1, avl_tree_increment(t, first), last)

Assign(r) == tree' = r[1] /\ count' = r[2]

\* erase(k): equal_range, then clear() when the range is the whole tree.
EraseEqual(er) ==
  IF er[1] = tree.l[H] /\ er[2] = H
    THEN tree' = Empty /\ count' = 0
    ELSE Assign(EraseRange(tree, count, er[1], er[2]))

erase(k) == EraseEqual(equal_range(tree, k))

clear ==
  /\ tree' = Empty
  /\ count' = 0

\* insert(hint, nh) = reinsert_node_hint_unique: a new node with the
\* handle's key, inserted at the hinted position unless the key is there.
\* node_type is std::map's node handle, so nh comes from a std::map's
\* extract() and may hold any key.  (avl_map's own extract() does not
\* compile: line 1039 builds that handle from an avl node.)  An empty nh
\* returns end() and changes nothing.
insert(hint, k) == InsertAt(get_insert_hint_unique_pos(tree, count, hint, k), k)

Next ==
  \/ \E k \in Keys : emplace(k) \/ emplace_unique(k) \/ erase(k)
  \/ \E k \in Keys, hint \in InTree(tree) \cup {H} : insert(hint, k)
  \/ clear

Spec == Init /\ [][Next]_vars

-----------------------------------------------------------------------------
TypeOK ==
  /\ tree.l \in [Node -> Node \cup {NIL}]
  /\ tree.r \in [Node -> Node \cup {NIL}]
  /\ tree.p \in [Node -> Node \cup {NIL}]
  /\ tree.h \in [Node -> Nat]
  /\ count \in 0..Cardinality(Keys)

\* The nodes below x, at most d levels down (d bounds the descent in a
\* tree whose links may be broken).
RECURSIVE Below(_, _, _)
Below(t, x, d) ==
  IF x = NIL \/ x = H \/ d = 0 THEN {}
  ELSE {x} \cup Below(t, t.l[x], d - 1) \cup Below(t, t.r[x], d - 1)

\* The shape avl_tree::check() asserts, and the links it relies on: every
\* node of the tree is below the root, its children point back to it, its
\* height_ is one more than its taller child's, and the children's heights
\* differ by at most one.  Insertion and erasure must restore it with the
\* rotations of their rebalancing loops, whatever the order of calls.
AvlShape ==
  LET t == tree
  IN  /\ t.p[H] = NIL \/ t.p[t.p[H]] = H
      /\ Below(t, t.p[H], Cardinality(Keys)) = InTree(t)
      /\ \A n \in InTree(t) :
           /\ t.l[n] # NIL => t.p[t.l[n]] = n
           /\ t.r[n] # NIL => t.p[t.r[n]] = n
           /\ t.h[n] = new_height(t, n)
           /\ height(t, t.l[n]) - height(t, t.r[n]) \in -1..1

\* The nodes ++ visits from x, n steps, and where it ends.
RECURSIVE Walk(_, _, _)
Walk(t, x, n) ==
  IF n = 0 \/ x \notin Keys THEN <<x>>
  ELSE <<x>> \o Walk(t, avl_tree_increment(t, x), n - 1)

\* Iterating from begin() with ++ visits the keys of the map in ascending
\* order, size() of them, and then reaches end(): the header's leftmost,
\* rightmost and node_count_ and the search-tree order all stay right.
IterationOrder ==
  LET w == Walk(tree, tree.l[H], count)
  IN  /\ Len(w) = count + 1
      /\ w[count + 1] = H
      /\ {w[i] : i \in 1..count} = InTree(tree)
      /\ \A i \in 1..count - 1 : w[i] < w[i + 1]

\* -- (avl_tree_decrement) undoes ++: from end() it reaches the last key,
\* as a bidirectional iterator must.
ReverseIteration ==
  \A x \in (InTree(tree) \cup {H}) \ {tree.l[H]} :
    avl_tree_increment(tree, avl_tree_decrement(tree, x)) = x

\* The map behaves as an ordered map with unique keys: its keys change only
\* as AbstractMap allows, whatever the hints given to insert(hint, nh).
Abs == INSTANCE AbstractMap WITH keys <- InTree(tree)
AbsSpec == Abs!Spec

=============================================================================
