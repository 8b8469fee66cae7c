----------------------------- MODULE HazptrSlots -----------------------------
(***************************************************************************)
(* The life of hazard-pointer slots (detail::holder) in hazard_ptr.h: the  *)
(* thread caches (reclaimer::local_holder), the global free list           *)
(* (reclaimer::free_list, a Treiber stack), the slot directory             *)
(* (holder_list) with its size counter and read_write_lock, compaction     *)
(* (delete_hazard_ptr), eviction, thread exit and the directory's          *)
(* destructor at process exit.                                             *)
(*                                                                         *)
(* Slots are addresses from the constant set Addr.  The m_next_ link is    *)
(* one word per address, shared by the thread-local forward_list and the   *)
(* global free list, exactly as in the code, so a pop that reads a stale  *)
(* head->m_next_ installs what that word holds at the time.  Publication   *)
(* of protected pointers is HazptrReclaim's business: here a slot's ptr    *)
(* word is INUSE or NOUSE.                                                  *)
(***************************************************************************)
EXTENDS Integers, Sequences, FiniteSets, Functions

CONSTANTS
  Threads,     \* threads using hazard pointers
  Addr,        \* the addresses new detail::holder() may return
  MaxHandles,  \* bound on live hazard_ptr handles per thread
  Arr,         \* the N of make_hazard_ptr<N>() and reserve_hazp(N)
  AddrReuse,   \* may new return the address of a deleted holder?
  Ops,         \* the calls the program makes, besides ~hazard_ptr and exit
  NULL

ASSUME /\ MaxHandles \in Nat \ {0}
       /\ Arr \in 1..MaxHandles
       /\ AddrReuse \in BOOLEAN
       /\ NULL \notin Addr
       /\ Ops \subseteq {"get", "getN", "reserve", "evict", "delete"}

INUSE == "INUSE"    \* detail::holder::INUSE
NOUSE == "NOUSE"    \* detail::holder::NOUSE
Slot == Addr \cup {NULL}

VARIABLES
  alive,     \* holders allocated and not yet deleted
  ever,      \* every address new has returned (allocator history)
  ptr,       \* holder::ptr, INUSE or NOUSE
  mnext,     \* holder::m_next_ (local and global free-list link)
  dir,       \* holder_list: the next_ chain from head_, as a sequence
  dsize,     \* holder_list::size_
  rw,        \* holder_list::rw_lock_ as [writer, readers]
  ghead,     \* reclaimer::free_list_.head_
  lhead,     \* local_holder::free_list.head_, per thread
  lsize,     \* local_holder::free_list.size_, per thread
  storage,   \* local_holder::holder_storage, per thread
  handles,   \* per thread, how many live hazard_ptr hold each slot/NULL
  pc, loc,   \* per-thread control point and locals
  td         \* the process-exit destructor ~holder_list: [pc, i]

vars == <<alive, ever, ptr, mnext, dir, dsize, rw, ghead, lhead, lsize,
          storage, handles, pc, loc, td>>

Idle == "idle"
NoLoc == [op |-> "none", exp |-> NULL, nxt |-> NULL, a |-> NULL, n |-> 0,
          cur |-> NULL, set |-> {}, snap |-> <<>>]

Move(t, l, r) ==
  /\ pc' = [pc EXCEPT ![t] = l]
  /\ loc' = [loc EXCEPT ![t] = IF l = Idle THEN NoLoc ELSE r]

\* The chain of m_next_ links from a head, stopping at NULL or a repeat.
RECURSIVE ChainFrom(_, _)
ChainFrom(a, seen) ==
  IF a = NULL \/ a \in seen THEN seen ELSE ChainFrom(mnext[a], seen \cup {a})
Chain(a) == ChainFrom(a, {})

\* The first k nodes forward_list::pop returns from head h, and the head
\* after them.
RECURSIVE Walk(_, _)
Walk(h, k) == IF k = 0 \/ h = NULL THEN <<>> ELSE <<h>> \o Walk(mnext[h], k - 1)
RECURSIVE Skip(_, _)
Skip(h, k) == IF k = 0 \/ h = NULL THEN h ELSE Skip(mnext[h], k - 1)

NumHandles(t) == SumFunction(handles[t])

(***************************************************************************)
(* forward_list::size_ is a uint32_t.  It is kept modulo SizeMod.  It      *)
(* drifts from the list's length in both directions: evict's clear()       *)
(* (line 133, called at 440) resets head_ but not size_, so get / destroy  *)
(* / evict cycles grow it, and pops of a corrupt list can take it below 0  *)
(* (just below 2^32 in the code, SizeMod - 1 here; both compare above N).  *)
(* A count grown to SizeMod wraps to 0 here where the code keeps counting  *)
(* and stops reserving; the model then reserves as the code does at that   *)
(* lower size, so it still takes only steps the code can take.             *)
(***************************************************************************)
SizeMod == 16

Init ==
  /\ alive = {} /\ ever = {}
  /\ ptr = [a \in Addr |-> INUSE]
  /\ mnext = [a \in Addr |-> NULL]
  /\ dir = <<>> /\ dsize = 0
  /\ rw = [writer |-> FALSE, readers |-> 0]
  /\ ghead = NULL
  /\ lhead = [t \in Threads |-> NULL]
  /\ lsize = [t \in Threads |-> 0]
  /\ storage = [t \in Threads |-> {}]
  /\ handles = [t \in Threads |-> [s \in Slot |-> 0]]
  /\ pc = [t \in Threads |-> Idle]
  /\ loc = [t \in Threads |-> NoLoc]
  /\ td = [pc |-> "run", i |-> 0]

\* forward_list::push on t's cache
LocalPush(t, a) ==
  /\ mnext' = [mnext EXCEPT ![a] = lhead[t]]
  /\ lhead' = [lhead EXCEPT ![t] = a]
  /\ lsize' = [lsize EXCEPT ![t] = (@ + 1) % SizeMod]

(***************************************************************************)
(* make_holder() has returned holder a to its caller: get_hazard_ptr()    *)
(* wraps it in a handle; reserve_hazp() pushes it onto the cache and       *)
(* loops.  Both record it in holder_storage.                              *)
(***************************************************************************)
Got(t, a) ==
  /\ storage' = [storage EXCEPT ![t] = @ \cup {a}]
  /\ IF loc[t].op = "get"
       THEN /\ handles' = [handles EXCEPT ![t][a] = @ + 1]
            /\ Move(t, Idle, NoLoc)
            /\ UNCHANGED <<mnext, lhead, lsize>>
       ELSE /\ LocalPush(t, a)
            /\ UNCHANGED handles
            /\ Move(t, IF loc[t].n > 1 THEN "mh_empty"
                       ELSE IF loc[t].op = "getN" THEN "pop_n" ELSE Idle,
                    [NoLoc EXCEPT !.op = loc[t].op, !.n = loc[t].n - 1])

(***************************************************************************)
(* make_holder(): free_list_.empty() and the pop's first load of head_,   *)
(* then free_list::pop (concurrent_forward_list::pop with barrier_next),   *)
(* else make_new_holder().                                                 *)
(***************************************************************************)
make_holder_load(t) ==
  /\ pc[t] = "mh_empty"
  /\ IF ghead = NULL
       THEN Move(t, "mnh_lock", loc[t])
       ELSE Move(t, "fl_next", [loc[t] EXCEPT !.exp = ghead])
  /\ UNCHANGED <<alive, ever, ptr, mnext, dir, dsize, rw, ghead, lhead,
                 lsize, storage, handles, td>>

\* Node *next = (expected_head->*next_fun)();
pop_read_next(t) ==
  /\ pc[t] = "fl_next"
  /\ Move(t, "fl_cas", [loc[t] EXCEPT !.nxt = mnext[loc[t].exp]])
  /\ UNCHANGED <<alive, ever, ptr, mnext, dir, dsize, rw, ghead, lhead,
                 lsize, storage, handles, td>>

\* head_.compare_exchange_weak(expected_head, next); on failure the loop
\* continues with the head it saw, or returns nullptr when it is null.
pop_cas(t) ==
  /\ pc[t] = "fl_cas"
  /\ IF ghead = loc[t].exp
       THEN /\ ghead' = loc[t].nxt
            /\ Got(t, loc[t].exp)
       ELSE /\ IF ghead = NULL
                 THEN Move(t, "mnh_lock", [loc[t] EXCEPT !.exp = NULL, !.nxt = NULL])
                 ELSE Move(t, "fl_next", [loc[t] EXCEPT !.exp = ghead, !.nxt = NULL])
            /\ UNCHANGED <<ghead, mnext, lhead, lsize, storage, handles>>
  /\ UNCHANGED <<alive, ever, ptr, dir, dsize, rw, td>>

(***************************************************************************)
(* make_new_holder(): new detail::holder(), then holder_list::push under   *)
(* the shared side of rw_lock_: size_ += 1, Treiber push onto head_.       *)
(***************************************************************************)
FreshAddr == IF AddrReuse THEN Addr \ alive ELSE Addr \ ever

\* Mutant: holder_list::push without lock_shared() but with unlock_shared().
make_new_holder_lock_nolock(t) ==
  /\ pc[t] = "mnh_lock"
  /\ \E a \in FreshAddr :
       /\ alive' = alive \cup {a}
       /\ ever' = ever \cup {a}
       /\ ptr' = [ptr EXCEPT ![a] = INUSE]
       /\ mnext' = [mnext EXCEPT ![a] = NULL]
       /\ Move(t, "mnh_push", [loc[t] EXCEPT !.a = a])
  /\ UNCHANGED <<rw, dir, dsize, ghead, lhead, lsize, storage, handles, td>>

make_new_holder_lock(t) ==
  /\ pc[t] = "mnh_lock"
  /\ ~rw.writer
  /\ \E a \in FreshAddr :
       /\ alive' = alive \cup {a}
       /\ ever' = ever \cup {a}
       /\ ptr' = [ptr EXCEPT ![a] = INUSE]
       /\ mnext' = [mnext EXCEPT ![a] = NULL]
       /\ Move(t, "mnh_push", [loc[t] EXCEPT !.a = a])
  /\ rw' = [rw EXCEPT !.readers = @ + 1]
  /\ UNCHANGED <<dir, dsize, ghead, lhead, lsize, storage, handles, td>>

make_new_holder_push(t) ==
  LET a == loc[t].a IN
  /\ pc[t] = "mnh_push"
  /\ dsize' = dsize + 1
  /\ dir' = <<a>> \o dir
  /\ rw' = [rw EXCEPT !.readers = @ - 1]
  /\ Got(t, a)
  /\ UNCHANGED <<alive, ever, ptr, ghead, td>>

(***************************************************************************)
(* The calls a thread makes.  get_hazard_ptr(): pop the cache, or take a   *)
(* holder from make_holder() when the cache is empty.                     *)
(***************************************************************************)
get_hazard_ptr(t) ==
  LET h == lhead[t] IN
  /\ pc[t] = Idle
  /\ "get" \in Ops
  /\ NumHandles(t) < MaxHandles
  /\ IF h = NULL
       THEN /\ Move(t, "mh_empty", [NoLoc EXCEPT !.op = "get"])
            /\ UNCHANGED <<mnext, lhead, lsize, handles>>
       ELSE /\ handles' = [handles EXCEPT ![t][h] = @ + 1]
            /\ lhead' = [lhead EXCEPT ![t] = mnext[h]]
            /\ lsize' = [lsize EXCEPT ![t] = (@ - 1) % SizeMod]
            /\ UNCHANGED <<pc, loc, mnext>>
  /\ UNCHANGED <<alive, ever, ptr, dir, dsize, rw, ghead, storage, td>>

\* get_hazard_ptrs<N>(): reserve_hazp(N) when free_list.size() < N, which
\* takes N - size() holders from make_holder() onto the cache; then N pops.
get_hazard_ptrs(t) ==
  /\ pc[t] = Idle
  /\ "getN" \in Ops
  /\ NumHandles(t) + Arr <= MaxHandles
  /\ IF lsize[t] < Arr
       THEN Move(t, "mh_empty", [NoLoc EXCEPT !.op = "getN", !.n = Arr - lsize[t]])
       ELSE Move(t, "pop_n", [NoLoc EXCEPT !.op = "getN"])
  /\ UNCHANGED <<alive, ever, ptr, mnext, dir, dsize, rw, ghead, lhead, lsize,
                 storage, handles, td>>

\* hazard_ptrs[i] = free_list.pop() for i < N: a pop of an empty list
\* yields a null handle and leaves size_ alone.
get_hazard_ptrs_pop(t) ==
  LET popped == Walk(lhead[t], Arr)
      m == Len(popped)
  IN
  /\ pc[t] = "pop_n"
  /\ handles' = [handles EXCEPT ![t] =
       [s \in Slot |-> @[s] + IF s = NULL THEN Arr - m
                              ELSE Cardinality({i \in 1..m : popped[i] = s})]]
  /\ lhead' = [lhead EXCEPT ![t] = Skip(lhead[t], Arr)]
  /\ lsize' = [lsize EXCEPT ![t] = (@ - m) % SizeMod]
  /\ Move(t, Idle, NoLoc)
  /\ UNCHANGED <<alive, ever, ptr, mnext, dir, dsize, rw, ghead, storage, td>>

\* reserve_hazp(N) on its own; it returns at once when size() >= N.
reserve_hazp(t) ==
  /\ pc[t] = Idle
  /\ "reserve" \in Ops
  /\ lsize[t] < Arr
  /\ Move(t, "mh_empty", [NoLoc EXCEPT !.op = "reserve", !.n = Arr - lsize[t]])
  /\ UNCHANGED <<alive, ever, ptr, mnext, dir, dsize, rw, ghead, lhead, lsize,
                 storage, handles, td>>

\* ~hazard_ptr(): nothing for a null handle; otherwise unmark() and
\* local_holder::reuse() pushes the holder onto the cache.
hazard_ptr_destroy(t) ==
  /\ pc[t] = Idle
  /\ \E s \in Slot :
       /\ handles[t][s] > 0
       /\ handles' = [handles EXCEPT ![t][s] = @ - 1]
       /\ IF s = NULL
            THEN UNCHANGED <<ptr, mnext, lhead, lsize>>
            ELSE /\ ptr' = [ptr EXCEPT ![s] = INUSE]
                 /\ LocalPush(t, s)
  /\ UNCHANGED <<alive, ever, dir, dsize, rw, ghead, storage, pc, loc, td>>

(***************************************************************************)
(* local_holder::evict_hazard_ptr(): walk the cache from head_; each       *)
(* holder is stored INUSE, erased from holder_storage and pushed onto the  *)
(* global free list (reclaimer::reuse); then free_list.clear(), which      *)
(* resets head_ but not size_.                                             *)
(***************************************************************************)
evict_hazard_ptr(t) ==
  /\ pc[t] = Idle
  /\ "evict" \in Ops
  /\ Move(t, "ev", [NoLoc EXCEPT !.op = "evict", !.cur = lhead[t]])
  /\ UNCHANGED <<alive, ever, ptr, mnext, dir, dsize, rw, ghead, lhead, lsize,
                 storage, handles, td>>

evict_step(t) ==
  LET c == loc[t].cur IN
  /\ pc[t] = "ev"
  /\ c # NULL
  /\ ptr' = [ptr EXCEPT ![c] = INUSE]
  /\ storage' = [storage EXCEPT ![t] = @ \ {c}]
  /\ mnext' = [mnext EXCEPT ![c] = ghead]
  /\ ghead' = c
  /\ Move(t, "ev", [loc[t] EXCEPT !.cur = mnext[c]])
  /\ UNCHANGED <<alive, ever, dir, dsize, rw, lhead, lsize, handles, td>>

\* Mutant: evict without the final free_list.clear().
evict_clear_noclear(t) ==
  /\ pc[t] = "ev"
  /\ loc[t].cur = NULL
  /\ Move(t, Idle, NoLoc)
  /\ UNCHANGED <<alive, ever, ptr, mnext, dir, dsize, rw, ghead, lhead, lsize,
                 storage, handles, td>>

evict_clear(t) ==
  /\ pc[t] = "ev"
  /\ loc[t].cur = NULL
  /\ lhead' = [lhead EXCEPT ![t] = NULL]
  /\ Move(t, Idle, NoLoc)
  /\ UNCHANGED <<alive, ever, ptr, mnext, dir, dsize, rw, ghead, lsize,
                 storage, handles, td>>

(***************************************************************************)
(* delete_hazard_ptr(): free_list_.pop_all() and the set of the popped     *)
(* chain; compact(): rw_lock_.lock(), rebuild the directory from head_     *)
(* without them, store head_ and size_, unlock; then delete them.          *)
(***************************************************************************)
\* Mutant: pop_all() loads head_ instead of exchanging it with null.
delete_hazard_ptr_load(t) ==
  /\ pc[t] = Idle
  /\ "delete" \in Ops
  /\ Move(t, "cp_lock", [NoLoc EXCEPT !.op = "delete", !.set = Chain(ghead)])
  /\ UNCHANGED <<alive, ever, ptr, mnext, dir, dsize, rw, ghead, lhead, lsize,
                 storage, handles, td>>

delete_hazard_ptr(t) ==
  /\ pc[t] = Idle
  /\ "delete" \in Ops
  /\ ghead' = NULL
  /\ Move(t, "cp_lock", [NoLoc EXCEPT !.op = "delete", !.set = Chain(ghead)])
  /\ UNCHANGED <<alive, ever, ptr, mnext, dir, dsize, rw, lhead, lsize,
                 storage, handles, td>>

\* Mutant: lock() waits for the writer bit only, like lock_shared().
compact_lock_writer_only(t) ==
  /\ pc[t] = "cp_lock"
  /\ ~rw.writer
  /\ rw' = [rw EXCEPT !.writer = TRUE]
  /\ Move(t, "cp_store", [loc[t] EXCEPT !.snap = dir])
  /\ UNCHANGED <<alive, ever, ptr, mnext, dir, dsize, ghead, lhead, lsize,
                 storage, handles, td>>

compact_lock(t) ==
  /\ pc[t] = "cp_lock"
  /\ ~rw.writer /\ rw.readers = 0
  /\ rw' = [rw EXCEPT !.writer = TRUE]
  /\ Move(t, "cp_store", [loc[t] EXCEPT !.snap = dir])
  /\ UNCHANGED <<alive, ever, ptr, mnext, dir, dsize, ghead, lhead, lsize,
                 storage, handles, td>>

compact_store(t) ==
  LET kept == SelectSeq(loc[t].snap, LAMBDA a : a \notin loc[t].set) IN
  /\ pc[t] = "cp_store"
  /\ dir' = kept
  /\ dsize' = Len(kept)
  /\ rw' = [writer |-> FALSE, readers |-> 0]
  /\ Move(t, "cp_delete", [loc[t] EXCEPT !.snap = <<>>])
  /\ UNCHANGED <<alive, ever, ptr, mnext, ghead, lhead, lsize, storage,
                 handles, td>>

compact_delete(t) ==
  /\ pc[t] = "cp_delete"
  /\ alive' = alive \ loc[t].set
  /\ Move(t, Idle, NoLoc)
  /\ UNCHANGED <<ever, ptr, mnext, dir, dsize, rw, ghead, lhead, lsize,
                 storage, handles, td>>

(***************************************************************************)
(* ~local_holder() at thread exit (the thread holds no handle by then):    *)
(* every holder in holder_storage is stored NOUSE, then free_list.clear()  *)
(* and holder_storage.clear(); the cache itself is destroyed.              *)
(***************************************************************************)
\* Mutant: ~local_holder() clears its lists without marking holders NOUSE.
local_holder_exit_nomark(t) ==
  /\ pc[t] = Idle
  /\ NumHandles(t) = 0
  /\ lhead' = [lhead EXCEPT ![t] = NULL]
  /\ lsize' = [lsize EXCEPT ![t] = 0]
  /\ storage' = [storage EXCEPT ![t] = {}]
  /\ Move(t, "exited", NoLoc)
  /\ UNCHANGED <<alive, ever, ptr, mnext, dir, dsize, rw, ghead, handles, td>>

local_holder_exit(t) ==
  /\ pc[t] = Idle
  /\ NumHandles(t) = 0
  /\ ptr' = [a \in Addr |-> IF a \in storage[t] THEN NOUSE ELSE ptr[a]]
  /\ lhead' = [lhead EXCEPT ![t] = NULL]
  /\ lsize' = [lsize EXCEPT ![t] = 0]
  /\ storage' = [storage EXCEPT ![t] = {}]
  /\ Move(t, "exited", NoLoc)
  /\ UNCHANGED <<alive, ever, mnext, dir, dsize, rw, ghead, handles, td>>

(***************************************************************************)
(* ~holder_list() at process exit, after every thread's cache: take       *)
(* head_->next_ (head_ must not be null), then for each later node spin    *)
(* until its ptr is NOUSE and delete it; finally delete the head.          *)
(***************************************************************************)
AllExited == \A t \in Threads : pc[t] = "exited"

holder_list_destroy ==
  /\ td.pc = "run" /\ AllExited
  /\ td' = IF dir = <<>> THEN [pc |-> "crash", i |-> 0]
                         ELSE [pc |-> "wait", i |-> 2]
  /\ UNCHANGED <<alive, ever, ptr, mnext, dir, dsize, rw, ghead, lhead, lsize,
                 storage, handles, pc, loc>>

holder_list_destroy_wait ==
  /\ td.pc = "wait"
  /\ td.i <= Len(dir)
  /\ ptr[dir[td.i]] = NOUSE
  /\ td' = [td EXCEPT !.i = @ + 1]
  /\ UNCHANGED <<alive, ever, ptr, mnext, dir, dsize, rw, ghead, lhead, lsize,
                 storage, handles, pc, loc>>

holder_list_destroy_done ==
  /\ td.pc = "wait"
  /\ td.i > Len(dir)
  /\ td' = [td EXCEPT !.pc = "done"]
  /\ UNCHANGED <<alive, ever, ptr, mnext, dir, dsize, rw, ghead, lhead, lsize,
                 storage, handles, pc, loc>>

Step(t) ==
  \/ make_holder_load(t) \/ pop_read_next(t) \/ pop_cas(t)
  \/ make_new_holder_lock(t) \/ make_new_holder_push(t)
  \/ get_hazard_ptrs_pop(t)
  \/ evict_step(t) \/ evict_clear(t)
  \/ compact_lock(t) \/ compact_store(t) \/ compact_delete(t)

Call(t) ==
  \/ get_hazard_ptr(t) \/ get_hazard_ptrs(t) \/ reserve_hazp(t)
  \/ hazard_ptr_destroy(t) \/ evict_hazard_ptr(t) \/ delete_hazard_ptr(t)
  \/ local_holder_exit(t)

Teardown ==
  holder_list_destroy \/ holder_list_destroy_wait \/ holder_list_destroy_done

Next == (\E t \in Threads : Step(t) \/ Call(t)) \/ Teardown

Spec == Init /\ [][Next]_vars

\* Threads run the calls they are in, and the process exits once every
\* thread has: the OS schedules runnable threads, and the spins re-read.
FairSpec == Spec /\ \A t \in Threads : WF_vars(Step(t)) /\ WF_vars(Teardown)

-----------------------------------------------------------------------------
(* Properties *)

\* The holders t's cache links: its free_list, or during evict the part
\* not yet handed to the global free list.
Local(t) == IF pc[t] = "ev" THEN Chain(loc[t].cur) ELSE Chain(lhead[t])

TypeOK ==
  /\ alive \subseteq ever /\ ever \subseteq Addr
  /\ ptr \in [Addr -> {INUSE, NOUSE}]
  /\ mnext \in [Addr -> Slot]
  /\ dir \in Seq(Addr) /\ dsize \in Nat
  /\ rw \in [writer : BOOLEAN, readers : Nat]
  /\ ghead \in Slot
  /\ lhead \in [Threads -> Slot] /\ lsize \in [Threads -> 0..(SizeMod - 1)]
  /\ storage \in [Threads -> SUBSET Addr]
  /\ handles \in [Threads -> [Slot -> 0..MaxHandles]]

\* holder_list::push() runs under the shared lock and compact() rebuilds
\* head_ under the exclusive one, so every live holder is on the
\* directory that load_hazptr_vals() scans, except while make_new_holder()
\* is pushing it and while compaction is deleting it.  A holder missing
\* from the directory protects nothing.
DirectoryComplete ==
  \A a \in alive :
    \/ a \in Range(dir)
    \/ \E t \in Threads : \/ pc[t] = "mnh_push" /\ loc[t].a = a
                          \/ pc[t] = "cp_delete" /\ a \in loc[t].set

\* A holder belongs to one owner at a time: one live hazard_ptr, one
\* thread's cache or the global free list.  Two handles on one holder
\* overwrite each other's protection.
Owners(a) ==
  SumFunction([t \in Threads |-> handles[t][a]])
  + Cardinality({t \in Threads : a \in Local(t)})
  + (IF a \in Chain(ghead) THEN 1 ELSE 0)

ExclusiveOwnership == \A a \in Addr : Owners(a) <= 1

\* No live handle, cache or free list refers to a deleted holder.
NoDeletedOwned == \A a \in Addr \ alive : Owners(a) = 0

\* free_list::pop never reads m_next_ of a holder compaction has deleted.
NoDeletedSlotRead ==
  \A t \in Threads : pc[t] = "fl_next" => loc[t].exp \in alive

\* make_hazard_ptr<N>() always returns N handles that own a holder.
NoNullHandle == \A t \in Threads : handles[t][NULL] = 0

\* Spec 4.5: a holder orphaned by thread exit (NOUSE) is on the global
\* free list, so that compaction can destroy it.
OrphansReclaimable ==
  \A a \in alive : ptr[a] = NOUSE => a \in Chain(ghead)

\* Once every thread has exited, ~holder_list() finishes: its wait for every
\* directory holder to become NOUSE ends.  The null head_ dereference on an
\* empty directory ("crash") ends it too and is not what this is about.
TeardownTerminates == AllExited ~> td.pc \in {"done", "crash"}

====
