-------------------------------- MODULE Arena --------------------------------
(***************************************************************************)
(* alp_utils::Arena (allocator/arena.h): a single-threaded bump allocator  *)
(* that carves each 4096-byte block from both ends.  allocate() bumps      *)
(* alloc_ptr up from the front, allocate_aligned() moves alloc_aligned_ptr *)
(* down from the back, and alloc_bytes_remaining is the gap between them.  *)
(* A request that does not fit falls back to a fresh block: its own block  *)
(* when it is larger than a quarter block, otherwise a new shared block    *)
(* that replaces the current one.                                          *)
(*                                                                         *)
(* Addresses are integers; nullptr is 0.  Block k returned by new char[]   *)
(* starts at k * Stride plus an offset the allocator may choose, so blocks *)
(* never overlap.  Each public call is one step: the class is documented   *)
(* as single-threaded.  The history variable handed records every range a *)
(* call returned, with the kind of call that returned it.                  *)
(***************************************************************************)
EXTENDS Integers, Sequences, FiniteSets

CONSTANTS
  PtrSize,     \* sizeof(void *)
  Sizes,       \* request sizes the client passes
  NewOffsets,  \* addresses new char[] may return, modulo the alignment
  MaxCalls     \* bound on allocate / allocate_aligned calls

\* static constexpr int align = (sizeof(void *) > 8) ? sizeof(void *) : 8;
align == IF PtrSize > 8 THEN PtrSize ELSE 8
ARENA_BLOCK_SIZE == 4096

\* Room between consecutive blocks; every block fits in one stride.
Stride == 2 * ARENA_BLOCK_SIZE

ASSUME /\ PtrSize \in {4, 8, 16}
       /\ Sizes \subseteq 1 .. ARENA_BLOCK_SIZE
       /\ NewOffsets \subseteq 0 .. align - 1
       /\ NewOffsets # {}
       /\ MaxCalls \in Nat

VARIABLES
  waste_,                 \* uint64_t, unbounded here: never read back
  allocs_,
  alloc_ptr,
  alloc_aligned_ptr,
  alloc_bytes_remaining,
  pool,                   \* std::vector<char *>, with each block's size
  alive,                  \* FALSE once ~Arena has run
  handed,                 \* history: ranges returned so far
  calls                   \* history: number of allocation calls

vars == <<waste_, allocs_, alloc_ptr, alloc_aligned_ptr,
          alloc_bytes_remaining, pool, alive, handed, calls>>

Handed == [at : Nat, len : Nat, aligned : BOOLEAN, call : Nat]

Init ==
  /\ waste_ = 0
  /\ allocs_ = 0
  /\ alloc_ptr = 0
  /\ alloc_aligned_ptr = 0
  /\ alloc_bytes_remaining = 0
  /\ pool = <<>>
  /\ alive = TRUE
  /\ handed = {}
  /\ calls = 0

(***************************************************************************)
(* Each helper below is one path through allocate or allocate_aligned.     *)
(* A path is a record of the fields it sets and the address it returns;    *)
(* fields it leaves alone keep the values of the state `s` it starts from. *)
(***************************************************************************)

\* allocate_new_block: new char[bytes], pushed on the pool.
allocate_new_block(s, bytes, off) ==
  [s EXCEPT !.pool = Append(@, [base |-> (Len(@) + 1) * Stride + off,
                                size |-> bytes])]

NewBase(s, off) == (Len(s.pool) + 1) * Stride + off

\* Mutant: a fresh block that keeps the old remaining byte count.
allocate_ptr_keeps_remaining(s, off) ==
  LET p == NewBase(s, off)
  IN [allocate_new_block(s, ARENA_BLOCK_SIZE, off) EXCEPT
        !.alloc_ptr = p,
        !.alloc_aligned_ptr = p - (p % align) + ARENA_BLOCK_SIZE,
        !.waste_ = @ + ARENA_BLOCK_SIZE]

\* allocate_ptr: a fresh shared block whose back end is aligned down.
allocate_ptr(s, off) ==
  LET p == NewBase(s, off)
      padding == p % align
  IN [allocate_new_block(s, ARENA_BLOCK_SIZE, off) EXCEPT
        !.alloc_ptr = p,
        !.alloc_aligned_ptr = p - padding + ARENA_BLOCK_SIZE,
        !.waste_ = @ + ARENA_BLOCK_SIZE,
        !.alloc_bytes_remaining = ARENA_BLOCK_SIZE - padding]

\* Mutant: the small fallback returns alloc_ptr without bumping it.
allocate_fall_back_no_bump(s, bytes, off) ==
  IF bytes > ARENA_BLOCK_SIZE \div 4
  THEN <<NewBase(s, off), allocate_new_block(s, bytes, off)>>
  ELSE LET t == allocate_ptr(s, off)
       IN <<t.alloc_ptr, [t EXCEPT !.alloc_bytes_remaining = @ - bytes]>>

\* allocate_fall_back: result and resulting fields as <<result, state>>.
allocate_fall_back(s, bytes, off) ==
  IF bytes > ARENA_BLOCK_SIZE \div 4
  THEN <<NewBase(s, off), allocate_new_block(s, bytes, off)>>
  ELSE LET t == allocate_ptr(s, off)
       IN <<t.alloc_ptr, [t EXCEPT !.alloc_ptr = @ + bytes,
                                   !.alloc_bytes_remaining = @ - bytes]>>

\* allocate_align_fallback: a large request gets bytes + align and is
\* aligned up; a small one is carved from the back of a fresh block.
allocate_align_fallback(s, bytes, off) ==
  IF bytes > ARENA_BLOCK_SIZE \div 4
  THEN LET r == NewBase(s, off)
       IN <<(r + align - 1) - ((r + align - 1) % align),
            allocate_new_block(s, bytes + align, off)>>
  ELSE LET t == allocate_ptr(s, off)
       IN <<t.alloc_aligned_ptr - bytes,
            [t EXCEPT !.alloc_aligned_ptr = @ - bytes,
                      !.alloc_bytes_remaining = @ - bytes]>>

\* The fields of the current state as a record.
Fields == [waste_ |-> waste_, allocs_ |-> allocs_, alloc_ptr |-> alloc_ptr,
           alloc_aligned_ptr |-> alloc_aligned_ptr,
           alloc_bytes_remaining |-> alloc_bytes_remaining, pool |-> pool]

\* Arena::allocate body after the two counters are updated.
AllocateFrom(s, bytes, off) ==
  IF bytes <= s.alloc_bytes_remaining
  THEN <<s.alloc_ptr, [s EXCEPT !.alloc_ptr = @ + bytes,
                                !.alloc_bytes_remaining = @ - bytes]>>
  ELSE allocate_fall_back(s, bytes, off)

\* Mutant: the fast path moves the back end but not the byte count.
AllocateAlignedFrom_no_remaining(s, bytes, off) ==
  IF bytes <= s.alloc_bytes_remaining
  THEN <<s.alloc_aligned_ptr - bytes,
         [s EXCEPT !.alloc_aligned_ptr = @ - bytes]>>
  ELSE allocate_align_fallback(s, bytes, off)

\* Mutant: the fast path carves from the front end, like allocate.
AllocateAlignedFrom_front(s, bytes, off) ==
  IF bytes <= s.alloc_bytes_remaining
  THEN <<s.alloc_ptr, [s EXCEPT !.alloc_ptr = @ + bytes,
                                !.alloc_bytes_remaining = @ - bytes]>>
  ELSE allocate_align_fallback(s, bytes, off)

\* Arena::allocate_aligned body after the two counters are updated.
AllocateAlignedFrom(s, bytes, off) ==
  IF bytes <= s.alloc_bytes_remaining
  THEN <<s.alloc_aligned_ptr - bytes,
         [s EXCEPT !.alloc_aligned_ptr = @ - bytes,
                   !.alloc_bytes_remaining = @ - bytes]>>
  ELSE allocate_align_fallback(s, bytes, off)

Counted(bytes) == [Fields EXCEPT !.allocs_ = @ + bytes, !.waste_ = @ - bytes]

\* Install the outcome <<result, fields>> of a call that returned a range
\* of `bytes` bytes.
Apply(out, bytes, isAligned) ==
  /\ waste_' = out[2].waste_
  /\ allocs_' = out[2].allocs_
  /\ alloc_ptr' = out[2].alloc_ptr
  /\ alloc_aligned_ptr' = out[2].alloc_aligned_ptr
  /\ alloc_bytes_remaining' = out[2].alloc_bytes_remaining
  /\ pool' = out[2].pool
  /\ handed' = handed \cup {[at |-> out[1], len |-> bytes,
                              aligned |-> isAligned, call |-> calls]}
  /\ calls' = calls + 1
  /\ UNCHANGED alive

allocate(bytes) ==
  /\ alive /\ calls < MaxCalls
  /\ \E off \in NewOffsets :
       Apply(AllocateFrom(Counted(bytes), bytes, off), bytes, FALSE)

allocate_aligned(bytes) ==
  /\ alive /\ calls < MaxCalls
  /\ \E off \in NewOffsets :
       Apply(AllocateAlignedFrom(Counted(bytes), bytes, off), bytes, TRUE)

\* ~Arena: delete[] every pooled block; the object's life ends.
Destroy ==
  /\ alive
  /\ alive' = FALSE
  /\ UNCHANGED <<waste_, allocs_, alloc_ptr, alloc_aligned_ptr,
                 alloc_bytes_remaining, pool, handed, calls>>

\* After destruction nothing happens any more.
Destroyed == ~alive /\ UNCHANGED vars

Next ==
  \/ \E b \in Sizes : allocate(b) \/ allocate_aligned(b)
  \/ Destroy
  \/ Destroyed

Spec == Init /\ [][Next]_vars


(***************************************************************************)
(* Properties                                                              *)
(***************************************************************************)

TypeOK ==
  /\ allocs_ \in Nat
  /\ waste_ \in Int
  /\ {alloc_ptr, alloc_aligned_ptr, alloc_bytes_remaining} \subseteq Nat
  /\ pool \in Seq([base : Nat, size : Nat])
  /\ alive \in BOOLEAN
  /\ handed \subseteq Handed
  /\ calls \in 0 .. MaxCalls

\* The assert in allocate (line 101), checked in every state: the gap
\* between the front and the back end of the current block is exactly
\* alloc_bytes_remaining, whichever mix of allocate, allocate_aligned and
\* fallbacks led there.
GapMatchesRemaining ==
  alloc_aligned_ptr - alloc_ptr = alloc_bytes_remaining

Blocks == {pool[i] : i \in DOMAIN pool}

Inside(r, b) == b.base <= r.at /\ r.at + r.len <= b.base + b.size

Disjoint(r, q) == r.at + r.len <= q.at \/ q.at + q.len <= r.at

\* No two ranges returned by allocate or allocate_aligned overlap, and each
\* lies inside one block of the pool: the front bump, the back carve and
\* the two fallbacks never hand out a byte twice or a byte outside new[].
NoOverlap ==
  /\ \A r \in handed : \E b \in Blocks : Inside(r, b)
  /\ \A r, q \in handed : r.call # q.call => Disjoint(r, q)

\* allocate_aligned returns an align-multiple whenever every
\* allocate_aligned request so far asked for a multiple of align, however
\* odd the sizes given to allocate were: the two ends keep the aligned
\* carve independent of the unaligned bump.
AlignedWhenSizesAligned ==
  \A r \in handed :
    (/\ r.aligned
     /\ \A q \in handed : q.aligned /\ q.call <= r.call => q.len % align = 0)
    => r.at % align = 0

\* What the name promises: every allocate_aligned result is aligned.
\* Violated: the fast path and the small fallback subtract the raw byte
\* count from alloc_aligned_ptr (lines 58 and 118), so one request of an
\* odd size misaligns it and every later one.
AlignedResults ==
  \A r \in handed : r.aligned => r.at % align = 0

=============================================================================
