------------------------------- MODULE NdHeap -------------------------------
(***************************************************************************)
(* alp_utils::nd_heap<T, d> of container/nd_heap.h with Compare =          *)
(* std::less<T> (a max-heap over a std::vector), driven by push and pop,   *)
(* and compared with a reference priority queue: the bag of the values     *)
(* pushed and not yet popped, which pop() reduces by its maximum.          *)
(*                                                                         *)
(* data_ is a sequence; the code's 0-based indices are kept, At(s, i) is   *)
(* data_[i].  swim and sink are recursive operators over the vector.  For  *)
(* a d that is not a power of two or exceeds 8, sink reads                 *)
(* data_[child_index(size, 0)], past the end of the vector; that read is   *)
(* undefined and yields whatever the memory holds, modelled as any element *)
(* value (a stale element), so sink has a set of outcomes.  Writes past    *)
(* the end leave the vector's elements alone.                              *)
(***************************************************************************)
EXTENDS Integers, Sequences, SequencesExt, BagsExt

CONSTANTS
  D,        \* the arity d
  Vals,     \* element values
  MaxSize   \* bound on the number of elements

ASSUME D \in Nat /\ D > 1 /\ Vals \subseteq Int /\ MaxSize \in Nat

VARIABLES data, ref
vars == <<data, ref>>

At(s, i) == s[i + 1]
Put(s, i, v) == IF i < Len(s) THEN [s EXCEPT ![i + 1] = v] ELSE s

\* Compare: std::less<T>.
cmp(a, b) == a < b

is_power_of_two == \E k \in 0..D : 2^k = D

\* __builtin_ctz(d): the number of trailing zero bits.
d_shift == CHOOSE k \in 0..D : (D \div 2^k) % 2 = 1

parent_index(i) == IF is_power_of_two THEN (i - 1) \div D
                                      ELSE (i - 1) \div 2^d_shift

\* Mutant: the k-th child without the + 1.
child_index_noplus1(i, k) == IF is_power_of_two THEN D * i + k
                                                ELSE i * 2^d_shift + k

child_index(i, k) == IF is_power_of_two THEN D * i + k + 1
                                        ELSE i * 2^d_shift + (k + 1)

\* swim(index): move the parents smaller than current down, then store it.
RECURSIVE SwimFrom(_, _, _)
SwimFrom(s, index, current) ==
  IF index > 0 /\ cmp(At(s, parent_index(index)), current)
    THEN SwimFrom(Put(s, index, At(s, parent_index(index))),
                  parent_index(index), current)
    ELSE Put(s, index, current)

swim(s, index) == SwimFrom(s, index, At(s, index))

\* find_extreme_child_impl: child 0, replaced by each child I + 1 < size
\* that compares greater.
RECURSIVE ExtremeFrom(_, _, _, _, _)
ExtremeFrom(s, index, size, I, extreme) ==
  IF I > D - 2 THEN extreme
  ELSE LET c == child_index(index, I + 1)
       IN  ExtremeFrom(s, index, size, I + 1,
                       IF c < size /\ cmp(At(s, extreme), At(s, c))
                         THEN c ELSE extreme)

find_extreme_child(s, index, size) ==
  ExtremeFrom(s, index, size, 0, child_index(index, 0))

\* sink, power-of-two d <= 8: one loop.
RECURSIVE SinkPow2(_, _, _, _)
SinkPow2(s, index, size, current) ==
  LET e == find_extreme_child(s, index, size)
  IN  IF e >= size \/ ~cmp(current, At(s, e))
        THEN Put(s, index, current)
        ELSE SinkPow2(Put(s, index, At(s, e)), e, size, current)

\* sink, other d: the first loop starts every scan from min_child =
\* child_index(size, 0), past the end, whose content is g.  Rd reads an
\* index of the vector as the code does, past the end included.
Rd(s, i, size, g) == IF i < size THEN At(s, i) ELSE g

RECURSIVE ScanFrom(_, _, _, _, _, _)
ScanFrom(s, index, size, g, k, extreme) ==
  LET c == child_index(index, k)
  IN  IF k >= D \/ c >= size THEN extreme
      ELSE ScanFrom(s, index, size, g, k + 1,
                    IF cmp(Rd(s, extreme, size, g), At(s, c)) THEN c
                                                              ELSE extreme)

\* The second loop: an ordinary sink that stops at the last level.
RECURSIVE SinkTail(_, _, _, _)
SinkTail(s, index, size, current) ==
  LET first == child_index(index, 0)
      e     == ScanFrom(s, index, size, 0, 1, first)
  IN  IF first >= size \/ ~cmp(current, At(s, e))
        THEN Put(s, index, current)
        ELSE SinkTail(Put(s, index, At(s, e)), e, size, current)

RECURSIVE SinkHead(_, _, _, _, _)
SinkHead(s, index, size, current, g) ==
  LET min_child == child_index(size, 0)
      e         == ScanFrom(s, index, size, g, 0, min_child)
  IN  IF index >= min_child THEN SinkTail(s, index, size, current)
      ELSE IF ~cmp(current, Rd(s, e, size, g))
             THEN SinkTail(s, index, size, current)
             ELSE SinkHead(Put(s, index, Rd(s, e, size, g)), e, size,
                           current, g)

\* sink(index): the vectors it can leave, one per content of the memory
\* past the end.
sink(s, index) ==
  IF is_power_of_two /\ D <= 8
    THEN {SinkPow2(s, index, Len(s), At(s, index))}
    ELSE {SinkHead(s, index, Len(s), At(s, index), g) : g \in Vals}

Init == data = <<>> /\ ref = <<>>

\* push(val) = emplace: emplace_back, then swim(size - 1).
push(v) ==
  /\ Len(data) < MaxSize
  /\ data' = swim(Append(data, v), Len(data))
  /\ ref' = BagAdd(ref, v)

\* Mutant: pop() without the swap of front and back.
pop_noswap ==
  /\ data # <<>>
  /\ ref' = BagRemove(ref, Max(DOMAIN ref))
  /\ IF Len(data) = 1
       THEN data' = <<>>
       ELSE data' \in sink(Front(data), 0)

\* pop(): a single element is popped back; otherwise the back is swapped to
\* the front, popped back, and the front sunk.
pop ==
  /\ data # <<>>
  /\ ref' = BagRemove(ref, Max(DOMAIN ref))
  /\ IF Len(data) = 1
       THEN data' = <<>>
       ELSE data' \in sink(Put(Front(data), 0, Last(data)), 0)

Next == (\E v \in Vals : push(v)) \/ pop

Spec == Init /\ [][Next]_vars

-----------------------------------------------------------------------------
TypeOK == data \in Seq(Vals) /\ Len(data) <= MaxSize

\* Every element is no greater than its parent as parent_index computes
\* it: the order swim keeps and sink restores.
HeapOrdered ==
  \A i \in 1..Len(data) - 1 : ~cmp(At(data, parent_index(i)), At(data, i))

\* The heap holds exactly the values pushed and not popped, and top() is
\* their maximum: after any sequence of push and pop, nd_heap behaves as a
\* priority queue.
MatchesReference ==
  /\ ToBag(data) = ref
  /\ data # <<>> => At(data, 0) = Max(DOMAIN ref)

=============================================================================
