# TLA+ models of cpp-utils

This directory holds TLA+ models of the concurrent parts of the cpp-utils
library. The main one is the hazard-pointer reclamation engine in
`src/include/cpp_utils/concurrency/hazard_ptr.h`. The TLC configurations
check the models, and `PROJECT.json` lists the components, the runs, the
mutants, how definitions map to source lines, the findings and the hazards.

## 1. Inventory

### Components and their state

| Component | Source | State | Operations |
|---|---|---|---|
| Hazard slot (`detail::holder`) | hazard_ptr.h 17-49 | `ptr` (INUSE=0, NOUSE=1, or a protected address); `m_next_` (free-list link); `next_` (directory link) | publish, clear, mark NOUSE |
| List primitives | hazard_ptr.h 51-254 | `linked_list` (head, tail, size); `forward_list` (head, size_); `shared_head_only_list` (atomic head); `concurrent_forward_list` (Treiber stack) | push, splice, pop, pop_all, push_list |
| Reader-writer spinlock (`read_write_lock`) | hazard_ptr.h 256-325 | one 32-bit word: writer bit and reader count | lock_shared, unlock_shared, lock, unlock |
| Handle (`hazard_ptr`) | hazard_ptr.h 328-372, 922-945 | the owned `holder*` | try_protect, protect, reset, move, destructor |
| Thread cache (`reclaimer::local_holder`) | hazard_ptr.h 396-480 | thread-local `free_list` (a forward_list); `holder_storage` (the set of slots this thread took from the domain) | get_hazard_ptr, get_hazard_ptrs<N>, reserve_hazp, reuse, evict_hazard_ptr, thread exit |
| Slot directory (`holder_list`) and global free list (`reclaimer::free_list`) | hazard_ptr.h 494-607, 632-639, 674-686 | a Treiber list of all slots with a size counter and an rw-lock; a Treiber stack of reusable slots | make_holder, make_new_holder, reuse, delete_hazard_ptr/compact, destructor |
| Retired registry and reclamation (`reclaimer`) | hazard_ptr.h 482-492, 609-920 | 8 shards (`shared_head_only_list`); `count_`; `due_time_`; `num_bulk_reclaims_` | retire/push_list, check_threshold_and_reclaim, check_count_threshold, check_due_time, do_reclamation, extract_retired_objects, load_hazptr_vals, match_reclaim, reclaim, the destructor |
| Sequence lock, shared_ptr flavour (`seq_lock` in sequence_lock.h) | sequence_lock.h | `value_` (atomic shared_ptr); `seq_`; spin lock `lock_` | lock, unlock, load_shared, load_shared(retry), store, load, update |
| Sequence lock, plain flavour (`seq_lock` in seq_lock.h) | seq_lock.h | `value_` (plain T); `seq_`; std::mutex | load, store |
| Double buffer | double_buffer.h | two atomic shared_ptr buffers; `current_`; mutex | update, read |
| rcu_ez | rcu_ez.h | one atomic shared_ptr | load, store |
| d-ary heap (`nd_heap`) | nd_heap.h | a vector | push/emplace, pop, top, swim, sink |
| AVL map (`avl_map`) | avl_map.h | intrusive AVL tree with a header node | insert, erase, rebalance, find, iterate |
| Bitmap, bloom filter | bitmap.h, bloom_filter.h | byte arrays | set, reset, test; insert, contains |
| Arena | arena.h | block pool, bump pointers, counters | allocate, allocate_aligned |
| radix_tree | radix_tree.h | empty stubs | none |

### How the hazard-pointer parts interact

A reader calls `make_hazard_ptr()`. The thread cache pops a slot from its
own `free_list`. When that list is empty it calls `reclaimer::make_holder()`,
which pops the global free list or allocates a new slot. A new slot is pushed
onto the directory under the shared side of the rw-lock. `protect()` stores
the loaded pointer into the slot, issues a seq_cst fence, and re-reads the
source until the pointer is stable.

A writer unlinks an object and calls `retire()`. That pushes a record onto
one shard, bumps `count_`, and may start `do_reclamation`. A reclamation pass:

1. exchanges every shard to null;
2. issues a fence;
3. walks the directory under the shared lock;
4. frees every record whose address no slot holds;
5. pushes the rest back onto shard 0.

`reclaim()` runs one pass and then spins until `num_bulk_reclaims_` is zero.
A handle's destructor puts its slot back on the thread's `free_list`.
`evict_hazard_ptr()` moves the thread's free slots to the global free list.
`delete_hazard_ptr()` drains the global free list, then rebuilds the directory
without those slots under the exclusive lock and deletes them. At thread
exit, every slot in `holder_storage` is marked NOUSE.

### What is hard

* Interleavings of readers publishing against a reclaimer that scans the
  directory one slot at a time, between the drain and the frees.
* Several concurrent passes. `done` and the push-back onto shard 0 let one
  pass see the leftovers of another.
* `count_` is moved around by add, CAS, exchange and add-back. It can be
  negative for a while.
* The Treiber pop of the global free list reads `head->m_next_` and then
  CASes. That is exposed to ABA, because slots come back through evict, and
  to use-after-free, because `delete_hazard_ptr` deletes slots.
* Slot lifecycle across thread exit, eviction, compaction and process
  teardown.
* Spin waits (`wait_for_zero_bulk_reclaims`, the rw-lock, the do_reclamation
  loop) whose progress depends on other threads.

### What makes each component correct

* Reclamation:
  * No object is freed while a slot still holds the pointer protect()
    returned (no use after free).
  * Every retired record is in exactly one place.
  * `count_` accounts for the unfreed records.
  * `reclaim()` frees everything retired before it that no slot has held
    since retirement.
  * Every call returns.
* Slot management:
  * A slot is owned by at most one handle.
  * An owned slot is on no free list and is in the directory.
  * The size counter matches the directory.
  * No thread dereferences a deleted slot.
  * Teardown terminates.
* Sequence locks:
  * A reader that succeeds returns a value some writer completely wrote.
  * Writers are mutually exclusive.
* Double buffer: a reader never gets a buffer the writer is updating.
* nd_heap: after every push or pop, the vector is a d-ary heap and `top()`
  is the extreme element.

## 2. Plan

Modules, in order of importance:

1. `HazptrReclaim` (done). Protection and reclamation: protect/reset,
   retire, check_threshold_and_reclaim, do_reclamation, reclaim. Every
   thread owns one fixed slot. This is the heart of the engine.
2. `HazptrSlots` (done). The slot lifecycle: the thread caches,
   the global free list as a Treiber stack with explicit `m_next_` links
   (so that ABA is reachable), the directory with its size counter and
   rw-lock, compaction, evict, thread exit, and teardown.
3. No abstract specification for the reclaimer. An earlier `HazptrAbstract`
   refinement only restated NoUseAfterFree and RetiredAccounted: with
   the mapping by equal variable names, its guards held by the shape of
   `protect_validate`. It was removed.
4. `RWLock` is folded into `HazptrSlots`: its only exclusive user is
   `compact`, and `try_lock`/`try_lock_shared` are never called.
5. `SeqLock` (sequence_lock.h, done). Writers against both load_shared
   forms; the parity and validation check, and the atomic wait/notify.
   `seq_lock` (seq_lock.h) is not planned: see section 4.
6. `DoubleBuffer` (done). update() against read(), and the
   `use_count() == 2` wait.
7. `NdHeap` (done). swim and sink as RECURSIVE operators, checked against
   heap order and a reference priority queue.
8. `AvlMap` (done). The tree as link and height functions over node ids.
   The rotations, both rebalancing loops and the searches are RECURSIVE
   operators, and each `avl_map` call is one step. `AbstractMap` is the
   ordered map it refines.
9. `Arena` (done). The two-ended bump allocator with its fallbacks.

## 3. Modules and runs so far

### HazptrReclaim

Each thread has a `pc` and a record `loc` of its locals. Each atomic
load, store, CAS or exchange on shared state is a separate action, named
after the function it belongs to:

* `try_protect_load`, `try_protect_store` and `protect_validate` are the
  protect() loop.
* `reset`.
* `retire` is the user's unlink plus the `retire()` call.
* `push_list` and `add_count`.
* `check_count_threshold` and `check_due_time_load`, `_cas`, `_exchange`
  and `_addback`.
* `reclaim`.
* `inc_num_bulk_reclaims` and `extract_retired_objects`, one shard per step.
* `load_hazptr_vals`, one slot per step.
* `match_reclaim` (frees the unmatched records and computes `done`) and
  `match_reclaim_push` (push-back onto shard 0).
* `do_reclamation_add`, `do_reclamation_check` and `dec_num_bulk_reclaims`.
* `wait_for_zero_bulk_reclaims`.
* `Tick` advances the steady clock.

Shards hold sets of records. The drain, the free and the push-back act on
whole chains, and the order of a chain is never observed. The shard a
record goes to is a nondeterministic choice, because it is hashed from a
heap address. Memory is sequentially consistent. The code's seq_cst fences
(in protect, push_list and do_reclamation) exist to give exactly the
store-load ordering this needs. The model does not cover weaker orderings.

History variables: `exposed` holds the retired objects some slot held
while retired. `start_unfreed[t]` holds the unfreed retired records when
`t` called `reclaim()`.

| Run | Config | Checks | Result |
|---|---|---|---|
| `reclaim_safety` | `HazptrReclaim_safety.cfg` | TypeOK, NoUseAfterFree, RetiredAccounted, CountConsistent, ReclaimIsBarrier | pass, about 6.3M states |
| `reclaim_live` | `HazptrReclaim_live.cfg` | CallsReturn under FairSpec | pass |
| `retire_spins_while_protected` | `HazptrReclaim_spin.cfg` | CallsReturn | violation: finding |

Bounds:

* Safety uses two threads, both able to retire and reclaim, one of which
  also protects. There are four objects, so three retires happen and
  Threshold = 2 is reached. A due-time exchange sees a negative `count_`
  only after a `reclaim()` pass has freed two records whose count another
  pass took; with fewer retires `check_due_time_addback` cannot happen.
* There is one shard in the safety run. Two shards (a record drained by
  another pass from a shard other than 0) were checked with three objects
  and pass too, but together with four objects the run takes too long.
* The clock reaches the due time twice, at 0 and at 1.
* `reclaim()` is called at most once in `reclaim_safety` and at most twice
  in `reclaim_live`. A single
  call already races with the other thread's threshold and due-time passes.
  `MaxReclaims` bounds the calls, because each call is otherwise unbounded.

Fairness:

* `SchedFairness` gives weak fairness to every step inside a call. The OS
  runs runnable threads, and each spin in these calls re-reads the word
  it waits on.
* `ReaderFairness` gives weak fairness to `reset`, meaning a reader does
  not protect for ever.
* The liveness run bounds `reclaim()` calls. With unboundedly many calls by
  other threads, `wait_for_zero_bulk_reclaims` can starve: the counter is
  zero only intermittently, and TLC finds that schedule. The starvation is
  listed as a hazard.
* The liveness run lets one thread protect (`Readers = {t1}`), so fewer
  slots can hold retired objects than Threshold. The run below shows why
  this is needed.

### Finding: retire() livelocks when Threshold retired objects are protected

When `count_` reaches `kReclaimThreshold` and every retired record is still
protected, the following repeats:

1. `do_reclamation` takes the count.
2. The pass frees nothing.
3. `add_count(rcount)` puts the count back, still at least the threshold.
4. `check_count_threshold` takes it again.

The loop (lines 784-806) never ends while the records stay protected. The
protecting threads may be the ones stuck in `retire()`, so the protection
is never released. `HazptrReclaim_spin.cfg` reproduces this with two
threads and Threshold = 2, even under ReaderFairness. In the code this takes
1000 simultaneously protected retired objects. That is reachable with
`hazptr_array`s or many handles; `tc_miss_bench` creates 10000.

### HazptrSlots

State (`HazptrSlots.tla`):

* `alive` and `ever` are the allocator: the holders not yet deleted, and
  every address `new` has returned.
* `ptr`, `mnext` and `dir` are the holders' `ptr` word, their `m_next_`
  link, and the directory's `next_` chain. `dir` is a sequence from `head_`,
  and `dsize` is `holder_list::size_`.
* `rw` is the `read_write_lock` word, as `[writer, readers]`.
* `ghead` is the global free list's head. `lhead`, `lsize` and `storage`
  are each thread's `free_list.head_`, its `free_list.size_` and its
  `holder_storage`.
* `handles[t]` counts thread `t`'s live `hazard_ptr`s per holder. NULL
  counts the null handles.
* `td` is the process-exit destructor `~holder_list`.

The local and global free lists share the single `m_next_` word, as the
code does, so a stale pop CAS installs whatever that word holds.

Actions:

* The Treiber pop of `make_holder()` is three steps: `make_holder_load`,
  `pop_read_next` and `pop_cas`.
* `make_new_holder` is two steps: `make_new_holder_lock` takes the shared
  lock and allocates, and `make_new_holder_push` does size+1 and the push.
* `get_hazard_ptr`, `get_hazard_ptrs` with `get_hazard_ptrs_pop`, and
  `reserve_hazp` are the thread cache. `hazard_ptr_destroy` is
  `~hazard_ptr`: it marks the holder INUSE and pushes it locally.
* `evict_hazard_ptr` is walked one holder per `evict_step`, then
  `evict_clear`.
* `delete_hazard_ptr` (pop_all), then `compact_lock`, `compact_store` and
  `compact_delete`.
* `local_holder_exit` is thread exit.
* `holder_list_destroy`, `_wait` and `_done` are the process-exit destructor.

The constant `Ops` is the workload: which calls the program makes. Two
threads that all evict, compact and reserve reach tens of millions of
states. The passing runs therefore split the work: one thread doing
everything, and two threads without evict. `AddrReuse` says whether `new`
may return a deleted holder's address. `free_list.size_` is a `uint32_t`;
the model keeps it modulo 16 (`SizeMod`). It drifts from the cache's
length both ways. Evict's `clear()` leaves it alone, so get/destroy/evict
cycles grow it. A corrupted cache can decrement it below zero, and the
wrapped value then compares as large, as in the code. A count that grows
to 16 wraps to 0 in the model while the code keeps counting. From there
the model reserves holders as the code does at that lower count, so it
still only takes steps the code can take.

| Run | Config | Checks | Result |
|---|---|---|---|
| `slots_single_thread` | `HazptrSlots_single.cfg` | ExclusiveOwnership, NoDeletedOwned, TypeOK | pass, about 198K states |
| `slots_compaction_vs_push` | `HazptrSlots_compact.cfg` | DirectoryComplete, TeardownTerminates under FairSpec | pass, about 65K states |
| `free_list_aba` | `HazptrSlots_aba.cfg` | ExclusiveOwnership | violation: finding |

Findings 3 to 5 below are single-thread call sequences. TLC reaches each
of them with one thread, three addresses and no address reuse: `Ops` =
{get, getN, evict} violates NoNullHandle, {get} violates
OrphansReclaimable, and {get, evict} under FairSpec violates
TeardownTerminates. But they are not kept as runs: a unit test reaches
them as easily, and the run budget goes to the concurrent questions.
They are listed as hazards in PROJECT.json.

Bounds:

* Two or three addresses and at most two handles per thread, with arrays
  of two. This lets `reserve_hazp` keep a second holder, which ABA
  needs, and lets a thread hold a holder while another pushes.
* Threads stop for good at exit. The HazptrSlots cfgs therefore say
  `CHECK_DEADLOCK FALSE`: the final state, with every thread exited and
  the destructor done, is a real end.

Fairness: `FairSpec` gives weak fairness to every step of a thread and to
the destructor. Each thread runs until it exits, and the destructor's
spin re-reads `ptr`.

Findings:

1. **ABA in the global free list** (lines 239-253). Thread A reads
   `next` of head `a`. Thread B pops `a` and its next holder (keeping it
   via `reserve_hazp`), evicts, and `a` returns to the head. A's CAS then
   installs a holder B still owns, so two handles share a holder. With
   `delete_hazard_ptr` in the mix, the same CAS installs a holder that
   compaction already deleted.
2. **Use after free in the pop** (line 242). `make_holder()` reads
   `head->m_next_` after `delete_hazard_ptr()` may have deleted `head`.
   This is no longer a run: its slot went to the arena. To reproduce it,
   run `tlc -config HazptrSlots_uaf.cfg MCHazptrSlots`, which checks
   NoDeletedSlotRead with two threads and `Ops` = {get, delete}.
3. **Null handles after evict** (lines 133, 418). `forward_list::clear()`
   leaves `size_` alone. After an evict, `make_hazard_ptr<N>()` believes the
   cache still holds holders, skips `reserve_hazp`, and pops nulls.
4. **Exit leaks holders** (line 401, spec 4.5). The spec says exit forwards
   orphans to the global free list. The code only marks them NOUSE, so
   compaction never removes them and every later scan walks them.
5. **Teardown spins on evicted holders** (line 538). Evict stores INUSE
   (the spec says NOUSE). An evicted holder that was never compacted keeps
   `~holder_list` waiting forever at process exit.
6. Also reached, not a run: `~holder_list` dereferences `head_` (line
   534) even when the directory is empty.

### SeqLock

`SeqLock.tla` models `seq_lock<T>` of sequence_lock.h together with its
spin lock `details::atomic_lock`.

State:

* `lockw` is `lock_.lock_`. `seq` is `seq_`.
* `value` is `value_`, an index into `heap`, the sequence of every `T`
  object ever made. Each object is `[val, busy]`, where `busy` means
  `update(fun)` is writing it.
* `lwaiters` and `vwaiters` are the threads blocked in `lock_.wait` and
  `value_.wait`. A blocked thread has no step. `notify_one` removes one
  waiter of its choice, and `notify_all` removes all of them.
* `committed` (a history variable) holds the objects a completed
  `unlock()` published.

Each atomic operation is one step:

* `lock_try` is the CAS of `try_lock`.
* `lock_impl_load`, `lock_impl_wait` and `lock_impl_fetch_or` are the loop
  of `lock_impl`.
* `lock_seq_inc` is the first `seq_` increment.
* `store_assign` is `store(args)`. `update_begin` and `update_end` are
  `update(fun)`, which writes in place.
* `unlock_copy`, `unlock_seq`, `unlock_store`, `unlock_notify_one` and
  `unlock_notify_all` are `unlock()`.
* A reader calls either `load_shared()` (op "wait") or
  `load_shared(retry)` (op "retry"). `read_seq1`, `read_data` and
  `read_seq2` are its three loads and the check. `read_wait` is
  `value_.wait(data)`.

| Run | Config | Checks | Result |
|---|---|---|---|
| `seqlock` | `SeqLock.cfg` | TypeOK, MutualExclusion, ReadCommitted, WriterProgress under FairSpec | pass, about 511K states |
| `seqlock_reader_hang` | `SeqLock_reader_hang.cfg` | ReaderReturns under FairSpec | violation: finding |

Bounds:

* Two writers, one storing and one updating (`MCWriterOp`), with three
  critical sections in all. A third lock lets a writer take and release
  the lock between another writer's `lock_impl` load and its `fetch_or`,
  which is the race MutualExclusion is about. With two critical sections
  the unguarded `fetch_or` mutant is not caught.
* One reader making one call. `Retry = 2` lets `load_shared(2)` retry once.

Fairness: weak fairness on each writer's steps. Blocked threads have no
enabled step, so fairness cannot wake them; only a notify can.

Findings:

1. **load_shared() can sleep forever** (line 80). The reader reads `seq_`
   odd, then the copy `unlock()` installs (line 136), then `seq_` even. It
   then waits for `value_` to change from that copy. `unlock()`'s
   `notify_all` is already past, so without another write the reader never
   wakes. The run has one writer, one write and one reader.
2. Also reached, not a run: `update(fun)` writes `*value_` in place. A
   reader that got that pointer before `lock()` reads the object while it is
   being written. NoTornRead is defined and fails under `SeqLock.cfg`.

### NdHeap

`NdHeap.tla` models `nd_heap<T, d>` with `std::less` (a max-heap).

* `data` is `data_`, and `ref` is a bag: a reference priority queue.
* `push` is `emplace`: append, then `swim`. `pop` handles the single
  element case, or swaps the front and back, pops the back and calls
  `sink(0)`.
* `swim`, `find_extreme_child`, and both branches of `sink` are RECURSIVE
  operators over the vector, keeping the code's 0-based indices.
* The general branch of `sink` starts every scan from
  `min_child = child_index(size, 0)`, which is past the end of the vector.
  Reading it is undefined behaviour. The model takes it as any element
  value (a stale element in the vector's capacity), so `sink` returns a set
  of outcomes.

| Run | Config | Checks | Result |
|---|---|---|---|
| `ndheap` | `NdHeap.cfg` | HeapOrdered, MatchesReference | pass, about 99K states |

Bounds: values 1..4, so ties and every order occur, and up to 10 elements.
With d = 4 this fills three levels. d = 2 and d = 8 also pass.

Finding: **sink is wrong for d that is not a power of two, or exceeds 8**
(lines 118-130). With d = 16, the sequence push 2, push 1, pop leaves a
heap with a value that was never pushed. d = 3 fails too. The
`static_assert` accepts every d > 1. To reproduce it, set `D = 16` in
`NdHeap.cfg` and check MatchesReference alone: TLC reports the violation
within a few states. It has no run of its own: a single sequence of three
calls reproduces it, and a unit test with d = 16 would too.

### DoubleBuffer

`DoubleBuffer.tla` models `double_buffer<T>` of double_buffer.h.

State:

* `current` is `current_`, and `mutex` is the owner of `mutex_`.
* The two buffers are fixed.
* `held[t][b]` counts the `shared_ptr` copies of buffer `b` that thread
  `t` owns, so `use_count(b)` is 1 plus their sum.
* `busy[b]` is TRUE while `fun` writes `b`.

Steps:

* `update` is `update_lock`, then `wait_for_write_load` and
  `wait_for_write_spin` (load `buffers_[next()]`, then spin until
  `use_count() == 2`), then `fun_begin`/`fun_end`, then `swap`. The second
  wait and `fun` follow, then `update_return`.
* `read` is `read_begin`, `read_load`, `read_check` and `read_reload`.
  The caller then uses the buffer and `release`s it.

| Run | Config | Checks | Result |
|---|---|---|---|
| `double_buffer` | `DoubleBuffer.cfg` | TypeOK, NoReadDuringWrite, UpdateReturns under FairSpec | pass, about 18K states |

Bounds: two writers and two readers, with three updates and three reads.
That is enough for a reader to load a buffer after the writer has swapped
and passed `wait_for_write` on it. It also lets a second update wait for a
reader of the first.

Fairness: weak fairness on each thread. The spin yields and re-reads
`use_count()`, and the number of reads is bounded, so the count stops
changing. `CHECK_DEADLOCK FALSE`: the workload is finite.

### AvlMap

`AvlMap.tla` models `avl_map<K, V>` of container/avl_map.h: an intrusive
AVL tree with a header node, in the style of libstdc++'s red-black tree.
The map is sequential, so each public call is one step.

State:

* `tree` is a record of four functions over node ids: `l`, `r`, `p`, `h`.
  They are the fields `left_`, `right_`, `parent_` and `height_` of
  `avl_tree_node_base`.
* A node is named by its key (keys are unique). The header is `H` and
  `nullptr` is `NIL`. The header's `p` is the root, its `l` the leftmost
  node and its `r` the rightmost, as in `avl_tree_header`.
* `count` is `node_count_`.
* A freed node's fields are reset to `NIL`; they are not state.

Operators, one per function of the code:

* `avl_rotate_left` and `avl_rotate_right` are one operator, `Rotate`, on
  values read before the writes, then `Replace` for the parent link.
  Only the left rotation sets heights, as in the code.
* `avl_tree_insert_and_rebalance` is `InsertLoop` with `InsertRotate`
  for the four `insert_state` cases.
* `avl_tree_rebalance_for_erase` is in two parts:
  * `EraseUnlink`: `RelinkSuccessor` for a node with two children, or
    `UnlinkNode` with the header's extremes.
  * `EraseLoop`, `EraseRotate` and `EraseClimb`: the `while
    (x_parent != &header)` loop, with the tie rule `is_left = !erase_left`.
* Also: `avl_tree_increment`/`avl_tree_decrement`, `lower_bound`,
  `upper_bound`, `find`, `equal_range`, and both `get_insert_*_pos`
  functions. The recursive walks among these are RECURSIVE operators.
* The operators are staged: a value used more than once is passed to the
  next operator as a parameter. The coverage TLC collects would otherwise
  expand each use separately.

Actions:

* `emplace(k)`: `avl_map::emplace` with key and value (and `operator[]`,
  which takes the same path): `lower_bound`, then `emplace_hint_unique`.
* `emplace_unique(k)`: the other arities.
* `erase(k)`: `equal_range`, then `clear()` for the whole tree, or
  `erase_aux(first++)` over the range.
* `clear`.
* `insert(hint, k)`: `reinsert_node_hint_unique` with any hint in the
  tree or `end()`. `node_type` is `std::map`'s node handle, so the
  handle comes from a `std::map`'s `extract()` and may hold any key. An
  empty handle returns `end()` and changes nothing.

`avl_map::extract` is not modelled because it does not compile when
called. Line 1039 returns `{link, allocator}` as `std::map`'s
`node_type`, whose constructor from a node is private and takes a
`std::map` node, not an AVL node. No test calls it.

`AbstractMap.tla` is what the map promises. It is a set of keys with
insert-if-absent, erase and clear. `AvlMap` maps onto it with
`keys <- InTree(tree)`. AbsSpec is that
specification, checked as a PROPERTY.

| Run | Config | Checks | Result |
|---|---|---|---|
| `avl_map` | `AvlMap.cfg` | TypeOK, AvlShape, IterationOrder, AbsSpec | pass, about 1K states |

* AvlShape is what `check()` asserts, over the whole tree: heights consistent
  and balanced. It adds that every child's `parent_` points back and that
  the nodes below the root are exactly the nodes in the map.
* IterationOrder says `++` from `begin()` visits the keys in ascending
  order, `size()` of them, and then reaches `end()`.

Bounds:

* Eight keys.
* The erase loop's tie case needs eight nodes: a sibling 3 tall whose
  children are both 2 tall, one of them with a single child. With six
  keys, the mutant that breaks the tie rule passes.
* Every insertion and erasure rotation case, erasure of a node with two
  children whose successor is deeper than its right child, and every hint
  position occur.

Fairness: none; all four properties are safety properties. Deadlock is
checked: `emplace` of an absent key, or `clear`, is always enabled.

Finding, not a run: **`--end()` is wrong** (lines 209-226).
`avl_tree_decrement` recognises the header by `x->parent_ == x`. But the
header's `parent_` is the root, so the test never holds:

* `--end()` takes the `left_ != nullptr` branch;
* it returns `maximum(leftmost)`, not the rightmost node;
* after `emplace(2)` and `emplace(1)`, `std::prev(end())` is 1;
* reverse iteration and `rbegin()` are therefore wrong for every tree but
  the smallest.

ReverseIteration is defined in `AvlMap.tla`. TLC violates it under
`AvlMap.cfg` in three states. The insertion paths never call decrement on
the header.

### Arena

`Arena.tla` models `alp_utils::Arena` (arena.h). The class says it must be
used in a single thread, so each public call is one step.

State: the fields `waste_`, `allocs_`, `alloc_ptr`, `alloc_aligned_ptr`,
`alloc_bytes_remaining` and `pool`, plus `alive` (cleared by `~Arena`).
Addresses are integers, and nullptr is 0. The k-th block that
`new char[]` returns starts at `k * Stride` plus an offset from
`NewOffsets`, so blocks never overlap. Two history variables record
every returned range (`handed`: address, length, which call, call
number) and the number of calls.

Each private helper (`allocate_ptr`, `allocate_fall_back`,
`allocate_align_fallback`, `allocate_new_block`) is an operator from a
record of the fields to the pair <<result, fields>>. `AllocateFrom` and
`AllocateAlignedFrom` are the bodies of the two public calls after
`Counted` updates `allocs_` and `waste_`. The actions `allocate(b)` and
`allocate_aligned(b)` install that pair (`Apply`). `Destroy` is `~Arena`,
and `Destroyed` is the stuttering end after it.

| Run | Config | Checks | Result |
|---|---|---|---|
| `arena` | `Arena.cfg` | TypeOK, GapMatchesRemaining, NoOverlap, AlignedWhenSizesAligned | pass, about 600K states in 7 s |

* GapMatchesRemaining is the assert at line 101, checked in every state.
* NoOverlap: no two returned ranges share a byte, and each lies in one
  pooled block.
* AlignedWhenSizesAligned: an `allocate_aligned` result is an
  align-multiple whenever every aligned request so far was a multiple of
  align. Odd sizes passed to `allocate` must not matter.

Bounds: a 64-bit build (`PtrSize` = 8, so align = 8). `new char[]`
returns 16-byte-aligned memory, so `NewOffsets` = {0}, and the padding
branch of `allocate_ptr` computes 0. The sizes are 3, 8, 1000 and 1500,
with at most six calls:
* four 1000s fill a block, so the fifth takes the small fallback;
* 1500 is above a quarter block and gets a block of its own;
* 3 misaligns the front end, and 1500 is not a multiple of 8.

Deadlock is checked. Allocation calls stop at the bound, but `Destroy` is
then enabled, and after it the object's life has ended.

Findings, not runs (a single call reaches each):
* **`allocate_aligned` can return misaligned memory** (lines 58 and
  118). The back end moves down by the raw byte count, so after
  `allocate_aligned(3)` that result and every later aligned one from the
  block are misaligned. `AlignedResults` states the unconditional
  promise, and TLC violates it under `Arena.cfg`.
* **`get_waste()` returns `allocs_`** (line 73), the same value as
  `get_used()`. `waste_` itself is never read. It is increased only for
  shared blocks and decreased by every request, so as a `uint64_t` it
  wraps below zero on the first large request. The model keeps it as an
  unbounded integer.

## 4. Not modelled (yet)

* Weak memory orderings: the model is sequentially consistent.
* Deleters that call `retire()` recursively (spec scenario 5).
* `reclaim_all_objects` in the reclaimer destructor.
* rcu_ez: a single relaxed atomic shared_ptr with no protocol.
* radix_tree: empty stubs.
* Tests and benchmarks.
* `hazard_ptr` move construction and move assignment.
* `seq_lock` of seq_lock.h (a plain value under a mutex and a sequence
  number). Under the interleaving semantics TLC checks, `load()`'s parity
  and equality test rejects every read that overlaps a `store()`. The two
  ways it can go wrong are out of reach:
  * `std::atomic_signal_fence` does not stop the hardware from moving the
    plain read of `value_` after the acquire load of `seq2`. Showing that
    needs a weak-memory model.
  * The 32-bit counter wraps back to `seq1` only after 2^31 stores during
    one read.
* In sequence_lock.h: `store(shared_ptr)` and `load()`.
* In double_buffer.h: the forwarding constructor, and a thread that calls
  `update()` while holding a `read()` result (it waits for itself).
* In avl_map.h: `extract` (it does not compile, see AvlMap), copy construction and copy assignment (`tree_copy`,
  `reuse_or_alloc_node`) and the move constructor (`move_data`). Also
  `reinsert_node_unique`/`reinsert_node_equal` and the `insert_equal`
  paths, which `avl_map` does not call, and the mapped values.
* In arena.h: `get_used`/`get_waste` only read, `deallocate` does
  nothing, and allocator_concepts.h holds compile-time concepts only.
* Bitmap and bloom filter stay unmodelled for lack of a run: the project
  keeps twelve runs, and each of the others answers a question about
  concurrency or a tree or heap invariant, so they outrank two bit arrays.
