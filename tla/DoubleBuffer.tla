---------------------------- MODULE DoubleBuffer ----------------------------
(***************************************************************************)
(* alp_utils::double_buffer<T> of concurrency/double_buffer.h: two buffers *)
(* buffers_[0..1] (atomic shared_ptrs, never replaced after construction), *)
(* the counter current_ whose parity names the front buffer, and mutex_    *)
(* serialising update().  update(fun) writes the back buffer once no reader *)
(* holds it (use_count() == 2: buffers_[i] and update's own copy), swaps,   *)
(* and writes the old front buffer the same way.  read() returns the front *)
(* buffer, re-reading current_ until it did not move across the load.       *)
(*                                                                         *)
(* held[t][b] counts the shared_ptr copies of buffer b thread t owns, so    *)
(* use_count(b) is 1 + the sum over threads.  busy[b] is TRUE while a fun   *)
(* is writing b.                                                           *)
(***************************************************************************)
EXTENDS Integers, FiniteSets, Functions

CONSTANTS
  Writers,     \* threads calling update(fun)
  Readers,     \* threads calling read() and then using the buffer
  MaxUpdates,  \* bound on update() calls, all writers together
  MaxReads     \* bound on read() calls, all readers together

ASSUME /\ Writers \cap Readers = {}
       /\ MaxUpdates \in Nat /\ MaxReads \in Nat

NoBuf == -1   \* an empty shared_ptr

VARIABLES
  current,   \* current_
  mutex,     \* the owner of mutex_, or NoBuf
  busy,      \* per buffer: a fun is writing it
  held,      \* per thread, per buffer: shared_ptr copies owned
  updates,   \* update() calls started
  reads,     \* read() calls started
  pc, loc

vars == <<current, mutex, busy, held, updates, reads, pc, loc>>

Threads == Writers \cup Readers
Buf == {0, 1}
Idle == "idle"
NoLoc == [cur |-> 0, buf |-> NoBuf, out |-> NoBuf, phase |-> 1]

Move(t, l, r) ==
  /\ pc' = [pc EXCEPT ![t] = l]
  /\ loc' = [loc EXCEPT ![t] = IF l = Idle THEN NoLoc ELSE r]

\* Thread t takes or drops one copy of buffer b (NoBuf: nothing).
Take(h, t, b) == IF b = NoBuf THEN h ELSE [h EXCEPT ![t][b] = @ + 1]
Drop(h, t, b) == IF b = NoBuf THEN h ELSE [h EXCEPT ![t][b] = @ - 1]

use_count(b) == 1 + SumFunction([t \in Threads |-> held[t][b]])

\* current() and next(): the front buffer and the back buffer.
Front == current % 2
next == 1 - Front

Init ==
  /\ current = 0
  /\ mutex = NoBuf
  /\ busy = [b \in Buf |-> FALSE]
  /\ held = [t \in Threads |-> [b \in Buf |-> 0]]
  /\ updates = 0
  /\ reads = 0
  /\ pc = [t \in Threads |-> Idle]
  /\ loc = [t \in Threads |-> NoLoc]

-----------------------------------------------------------------------------
(* update(fun)                                                             *)

\* std::unique_lock<std::mutex> lock(mutex_).
update_lock(w) ==
  /\ pc[w] = Idle
  /\ updates < MaxUpdates
  /\ mutex = NoBuf
  /\ mutex' = w
  /\ updates' = updates + 1
  /\ Move(w, "wfw_load", NoLoc)
  /\ UNCHANGED <<current, busy, held, reads>>

\* wait_for_write(): cur = next(); buffers = buffers_[cur].load().
wait_for_write_load(w) ==
  /\ pc[w] = "wfw_load"
  /\ held' = Take(held, w, next)
  /\ Move(w, "wfw_spin", [loc[w] EXCEPT !.buf = next])
  /\ UNCHANGED <<current, mutex, busy, updates, reads>>

\* Mutant: the assignment releases the buffer just loaded, not the old one.
wait_for_write_spin_drop_new(w) ==
  /\ pc[w] = "wfw_spin"
  /\ use_count(loc[w].buf) = 2
  /\ held' = Drop(held, w, loc[w].buf)
  /\ Move(w, "fun_begin", [loc[w] EXCEPT !.out = loc[w].buf, !.buf = NoBuf])
  /\ UNCHANGED <<current, mutex, busy, updates, reads>>

\* while (buffers.use_count() != 2) yield; then the result is assigned to
\* update's buffers, dropping the copy it held before.
wait_for_write_spin(w) ==
  /\ pc[w] = "wfw_spin"
  /\ use_count(loc[w].buf) = 2
  /\ held' = Drop(held, w, loc[w].out)
  /\ Move(w, "fun_begin", [loc[w] EXCEPT !.out = loc[w].buf, !.buf = NoBuf])
  /\ UNCHANGED <<current, mutex, busy, updates, reads>>

\* fun(buffers): writes the buffer; not atomic, so a start and an end.
fun_begin(w) ==
  /\ pc[w] = "fun_begin"
  /\ busy' = [busy EXCEPT ![loc[w].out] = TRUE]
  /\ Move(w, "fun_end", loc[w])
  /\ UNCHANGED <<current, mutex, held, updates, reads>>

fun_end(w) ==
  /\ pc[w] = "fun_end"
  /\ busy' = [busy EXCEPT ![loc[w].out] = FALSE]
  /\ Move(w, IF loc[w].phase = 1 THEN "swap" ELSE "update_return", loc[w])
  /\ UNCHANGED <<current, mutex, held, updates, reads>>

\* swap(): current_.fetch_add(1), then the second wait_for_write().
swap(w) ==
  /\ pc[w] = "swap"
  /\ current' = current + 1
  /\ Move(w, "wfw_load", [loc[w] EXCEPT !.phase = 2])
  /\ UNCHANGED <<mutex, busy, held, updates, reads>>

\* Mutant: update() leaks its copy of the buffer it wrote last.
update_return_leak(w) ==
  /\ pc[w] = "update_return"
  /\ mutex' = NoBuf
  /\ Move(w, Idle, loc[w])
  /\ UNCHANGED <<current, busy, held, updates, reads>>

\* End of update(): buffers goes out of scope, then the lock.
update_return(w) ==
  /\ pc[w] = "update_return"
  /\ held' = Drop(held, w, loc[w].out)
  /\ mutex' = NoBuf
  /\ Move(w, Idle, loc[w])
  /\ UNCHANGED <<current, busy, updates, reads>>

-----------------------------------------------------------------------------
(* read(), and the caller's use of the buffer it returns                   *)

\* cur = current_.load().
read_begin(r) ==
  /\ pc[r] = Idle
  /\ reads < MaxReads
  /\ reads' = reads + 1
  /\ Move(r, "r_load", [NoLoc EXCEPT !.cur = current])
  /\ UNCHANGED <<current, mutex, busy, held, updates>>

\* ptr = buffers_[cur & 1].load(): the assignment drops the ptr loaded by
\* the previous iteration.
read_load(r) ==
  /\ pc[r] = "r_load"
  /\ held' = Take(Drop(held, r, loc[r].out), r, loc[r].cur % 2)
  /\ Move(r, "r_check", [loc[r] EXCEPT !.out = loc[r].cur % 2])
  /\ UNCHANGED <<current, mutex, busy, updates, reads>>

\* Mutant: read() returns without comparing cur with current_ again.
read_check_nocompare(r) ==
  /\ pc[r] = "r_check"
  /\ Move(r, "use", loc[r])
  /\ UNCHANGED <<current, mutex, busy, held, updates, reads>>

\* while (cur != current_.load()): return ptr when the counter did not move.
read_check(r) ==
  /\ pc[r] = "r_check"
  /\ Move(r, IF loc[r].cur = current THEN "use" ELSE "r_reload", loc[r])
  /\ UNCHANGED <<current, mutex, busy, held, updates, reads>>

\* cur = current_.load() in the loop body.
read_reload(r) ==
  /\ pc[r] = "r_reload"
  /\ Move(r, "r_load", [loc[r] EXCEPT !.cur = current])
  /\ UNCHANGED <<current, mutex, busy, held, updates, reads>>

\* The caller reads the returned buffer, then drops its shared_ptr.
release(r) ==
  /\ pc[r] = "use"
  /\ held' = Drop(held, r, loc[r].out)
  /\ Move(r, Idle, loc[r])
  /\ UNCHANGED <<current, mutex, busy, updates, reads>>

WriterStep(w) ==
  \/ update_lock(w) \/ wait_for_write_load(w) \/ wait_for_write_spin(w)
  \/ fun_begin(w) \/ fun_end(w) \/ swap(w) \/ update_return(w)

ReaderStep(r) ==
  \/ read_begin(r) \/ read_load(r) \/ read_check(r) \/ read_reload(r)
  \/ release(r)

Next == (\E w \in Writers : WriterStep(w)) \/ (\E r \in Readers : ReaderStep(r))

Spec == Init /\ [][Next]_vars

\* Every thread's steps are weakly fair: a writer spinning in
\* wait_for_write yields but keeps re-checking use_count(), and a reader
\* drops the buffer it read.
FairSpec == Spec /\ \A t \in Threads : WF_vars(WriterStep(t) \/ ReaderStep(t))

-----------------------------------------------------------------------------
TypeOK ==
  /\ current \in Nat
  /\ mutex \in Writers \cup {NoBuf}
  /\ busy \in [Buf -> BOOLEAN]
  /\ held \in [Threads -> [Buf -> Nat]]
  /\ pc \in [Threads -> {Idle, "wfw_load", "wfw_spin", "fun_begin", "fun_end",
                         "swap", "update_return", "r_load", "r_check",
                         "r_reload", "use"}]

\* A buffer returned by read() is never written by update()'s fun while the
\* caller still holds it: wait_for_write's use_count() == 2 check excludes
\* readers that already hold it, and read()'s re-check of current_ excludes
\* readers that load it after that check, once swap() has moved current_.
NoReadDuringWrite ==
  \A r \in Readers : pc[r] = "use" => ~busy[loc[r].out]

\* Every update() returns, and releases mutex_, once the readers release
\* the buffers they read.
UpdateReturns == \A w \in Writers : pc[w] # Idle ~> pc[w] = Idle

=============================================================================
