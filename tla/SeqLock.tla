------------------------------- MODULE SeqLock -------------------------------
(***************************************************************************)
(* alp_utils::seq_lock<T> of concurrency/sequence_lock.h: a value cell      *)
(* value_ (an atomic shared_ptr), the counter seq_ and the spin lock lock_  *)
(* (details::atomic_lock), used as in its tests: a writer calls lock(),     *)
(* store(v) or update(fun), unlock(); a reader calls load_shared() or       *)
(* load_shared(retry) and then dereferences what it got.                   *)
(*                                                                         *)
(* A shared_ptr is the identity of the object it owns: objects are the     *)
(* indices of the sequence heap, allocated by make_shared and never reused *)
(* while a reader holds them.  atomic::wait(old) blocks only while the     *)
(* word still equals old and a blocked thread steps again only when a      *)
(* notify takes it out of the waiter set; notify_one picks any waiter.     *)
(***************************************************************************)
EXTENDS Integers, Sequences, FiniteSets

CONSTANTS
  Writers,      \* threads calling lock(); store/update; unlock()
  Readers,      \* threads calling load_shared and reading the result
  WriterOp,     \* per writer, what its critical sections do: "store", "update"
  ReaderOps,    \* "wait" (load_shared()) and/or "retry" (load_shared(n))
  Retry,        \* the n of load_shared(n)
  MaxWrites,    \* bound on critical sections, all writers together
  MaxReads      \* bound on load_shared calls, all readers together

ASSUME /\ Writers \cap Readers = {}
       /\ \A w \in Writers : WriterOp[w] \in {"store", "update"}
       /\ ReaderOps \subseteq {"wait", "retry"}
       /\ Retry \in Int
       /\ MaxWrites \in Nat /\ MaxReads \in Nat

LOCKED == 1     \* atomic_lock::LOCKED
UNLOCK == 0     \* atomic_lock::UNLOCK

VARIABLES
  lockw,      \* atomic_lock::lock_
  lwaiters,   \* threads blocked in lock_.wait
  seq,        \* seq_
  value,      \* value_: the object it owns
  heap,       \* objects: [val, busy]; busy while update's fun writes it
  vwaiters,   \* threads blocked in value_.wait
  writes,     \* critical sections started
  reads,      \* load_shared calls started
  committed,  \* history: objects value_ held when no writer was inside
  pc, loc

vars == <<lockw, lwaiters, seq, value, heap, vwaiters, writes, reads,
          committed, pc, loc>>

Threads == Writers \cup Readers
Idle == "idle"
NoLoc == [op |-> "none", lk |-> 0, s1 |-> 0, s2 |-> 0, d |-> 0, i |-> 0]

Move(t, l, r) ==
  /\ pc' = [pc EXCEPT ![t] = l]
  /\ loc' = [loc EXCEPT ![t] = IF l = Idle THEN NoLoc ELSE r]

Even(n) == n % 2 = 0

Init ==
  /\ lockw = UNLOCK
  /\ lwaiters = {}
  /\ seq = 0
  /\ value = 1
  /\ heap = <<[val |-> 0, busy |-> FALSE]>>
  /\ vwaiters = {}
  /\ writes = 0
  /\ reads = 0
  /\ committed = {1}
  /\ pc = [t \in Threads |-> Idle]
  /\ loc = [t \in Threads |-> NoLoc]

-----------------------------------------------------------------------------
(* Writer: lock() = atomic_lock::lock() then seq_.fetch_add(1).            *)

\* lock(): try_lock's CAS 0 -> LOCKED, else lock_impl().
lock_try(w) ==
  /\ pc[w] = Idle
  /\ writes < MaxWrites
  /\ writes' = writes + 1
  /\ IF lockw = UNLOCK
       THEN /\ lockw' = LOCKED
            /\ Move(w, "seq_inc", [NoLoc EXCEPT !.op = WriterOp[w]])
       ELSE /\ UNCHANGED lockw
            /\ Move(w, "impl_load", [NoLoc EXCEPT !.op = WriterOp[w]])
  /\ UNCHANGED <<lwaiters, seq, value, heap, vwaiters, reads, committed>>

\* lock_impl: lk = lock_.load(); locked -> wait(lk), else fetch_or.
lock_impl_load(w) ==
  /\ pc[w] = "impl_load"
  /\ Move(w, IF lockw = LOCKED THEN "impl_wait" ELSE "impl_fetch_or",
          [loc[w] EXCEPT !.lk = lockw])
  /\ UNCHANGED <<lockw, lwaiters, seq, value, heap, vwaiters, writes, reads,
                 committed>>

\* Mutant: waits on value_ instead of lock_.
lock_impl_wait_wrong_word(w) ==
  /\ pc[w] = "impl_wait"
  /\ w \notin vwaiters
  /\ IF lockw # loc[w].lk
       THEN /\ Move(w, "impl_load", loc[w])
            /\ UNCHANGED vwaiters
       ELSE /\ vwaiters' = vwaiters \cup {w}
            /\ UNCHANGED <<pc, loc>>
  /\ UNCHANGED <<lockw, seq, value, heap, lwaiters, writes, reads, committed>>

\* lock_.wait(lk): returns once lock_ # lk, else blocks until notified.
lock_impl_wait(w) ==
  /\ pc[w] = "impl_wait"
  /\ w \notin lwaiters
  /\ IF lockw # loc[w].lk
       THEN /\ Move(w, "impl_load", loc[w])
            /\ UNCHANGED lwaiters
       ELSE /\ lwaiters' = lwaiters \cup {w}
            /\ UNCHANGED <<pc, loc>>
  /\ UNCHANGED <<lockw, seq, value, heap, vwaiters, writes, reads, committed>>

\* Mutant: ignores what fetch_or returned.
lock_impl_fetch_or_ignore_old(w) ==
  /\ pc[w] = "impl_fetch_or"
  /\ lockw' = LOCKED
  /\ Move(w, "seq_inc", loc[w])
  /\ UNCHANGED <<lwaiters, seq, value, heap, vwaiters, writes, reads,
                 committed>>

\* fetch_or(LOCKED): the lock is ours only if it was not already locked.
lock_impl_fetch_or(w) ==
  /\ pc[w] = "impl_fetch_or"
  /\ lockw' = LOCKED
  /\ Move(w, IF lockw = LOCKED THEN "impl_load" ELSE "seq_inc", loc[w])
  /\ UNCHANGED <<lwaiters, seq, value, heap, vwaiters, writes, reads,
                 committed>>

\* seq_.fetch_add(1): odd while the writer is inside.
lock_seq_inc(w) ==
  /\ pc[w] = "seq_inc"
  /\ seq' = seq + 1
  /\ Move(w, IF loc[w].op = "store" THEN "store_assign" ELSE "update_begin",
          loc[w])
  /\ UNCHANGED <<lockw, lwaiters, value, heap, vwaiters, writes, reads,
                 committed>>

-----------------------------------------------------------------------------
(* Writer: the critical section.                                           *)

\* store(v): value_ = make_shared<T>(v); value_.notify_all().  The value
\* is the number of the write, so every write is told apart.  The notify is
\* part of the step: a reader that blocks between the two waits on a value
\* value_ no longer holds, so it does not block, and no behaviour is lost.
store_assign(w) ==
  /\ pc[w] = "store_assign"
  /\ heap' = Append(heap, [val |-> writes, busy |-> FALSE])
  /\ value' = Len(heap) + 1
  /\ vwaiters' = {}
  /\ Move(w, "unlock_copy", loc[w])
  /\ UNCHANGED <<lockw, lwaiters, seq, writes, reads, committed>>

\* update(fun): fun(*value_) writes the object value_ owns, in place; the
\* write is not atomic, so it has a start and an end.
update_begin(w) ==
  /\ pc[w] = "update_begin"
  /\ heap' = [heap EXCEPT ![value].busy = TRUE]
  /\ Move(w, "update_end", [loc[w] EXCEPT !.d = value])
  /\ UNCHANGED <<lockw, lwaiters, seq, value, vwaiters, writes, reads,
                 committed>>

update_end(w) ==
  /\ pc[w] = "update_end"
  /\ heap' = [heap EXCEPT ![loc[w].d] = [val |-> writes, busy |-> FALSE]]
  /\ Move(w, "unlock_copy", loc[w])
  /\ UNCHANGED <<lockw, lwaiters, seq, value, vwaiters, writes, reads,
                 committed>>

-----------------------------------------------------------------------------
(* Writer: unlock().                                                       *)

\* value_.store(make_shared<T>(*value_.load())): a fresh copy of the
\* current object.  Only the lock holder writes value_, so the load, the
\* copy and the store are one step.
unlock_copy(w) ==
  /\ pc[w] = "unlock_copy"
  /\ heap' = Append(heap, heap[value])
  /\ value' = Len(heap) + 1
  /\ Move(w, "unlock_seq", loc[w])
  /\ UNCHANGED <<lockw, lwaiters, seq, vwaiters, writes, reads, committed>>

\* seq_.fetch_add(1): even again; value_ is now the committed version.
unlock_seq(w) ==
  /\ pc[w] = "unlock_seq"
  /\ seq' = seq + 1
  /\ committed' = committed \cup {value}
  /\ Move(w, "unlock_store", loc[w])
  /\ UNCHANGED <<lockw, lwaiters, value, heap, vwaiters, writes, reads>>

\* Mutant: unlock() without lock_.notify_one().
unlock_notify_one_skip(w) ==
  /\ pc[w] = "unlock_notify_one"
  /\ Move(w, "unlock_notify_all", loc[w])
  /\ UNCHANGED <<lockw, lwaiters, seq, value, heap, vwaiters, writes, reads,
                 committed>>

\* lock_.unlock(): store UNLOCK, then notify_one.
unlock_store(w) ==
  /\ pc[w] = "unlock_store"
  /\ lockw' = UNLOCK
  /\ Move(w, "unlock_notify_one", loc[w])
  /\ UNCHANGED <<lwaiters, seq, value, heap, vwaiters, writes, reads,
                 committed>>

unlock_notify_one(w) ==
  /\ pc[w] = "unlock_notify_one"
  /\ IF lwaiters = {} THEN UNCHANGED lwaiters
                      ELSE \E x \in lwaiters : lwaiters' = lwaiters \ {x}
  /\ Move(w, "unlock_notify_all", loc[w])
  /\ UNCHANGED <<lockw, seq, value, heap, vwaiters, writes, reads, committed>>

\* value_.notify_all().
unlock_notify_all(w) ==
  /\ pc[w] = "unlock_notify_all"
  /\ vwaiters' = {}
  /\ Move(w, Idle, loc[w])
  /\ UNCHANGED <<lockw, lwaiters, seq, value, heap, writes, reads, committed>>

-----------------------------------------------------------------------------
(* Reader: load_shared() and load_shared(retry).                          *)

\* A call: load_shared() loops until it succeeds; load_shared(retry)
\* returns nullptr at once when retry <= 0.
load_shared(r) ==
  /\ pc[r] = Idle
  /\ reads < MaxReads
  /\ reads' = reads + 1
  /\ \E op \in ReaderOps :
       Move(r, IF op = "retry" /\ Retry <= 0 THEN Idle ELSE "r_seq1",
            [NoLoc EXCEPT !.op = op])
  /\ UNCHANGED <<lockw, lwaiters, seq, value, heap, vwaiters, writes,
                 committed>>

\* seq1 = seq_.load()
read_seq1(r) ==
  /\ pc[r] = "r_seq1"
  /\ Move(r, "r_data", [loc[r] EXCEPT !.s1 = seq])
  /\ UNCHANGED <<lockw, lwaiters, seq, value, heap, vwaiters, writes, reads,
                 committed>>

\* data = value_.load()
read_data(r) ==
  /\ pc[r] = "r_data"
  /\ Move(r, "r_seq2", [loc[r] EXCEPT !.d = value])
  /\ UNCHANGED <<lockw, lwaiters, seq, value, heap, vwaiters, writes, reads,
                 committed>>

\* Mutant: accepts equal sequence numbers without the parity test.
read_seq2_noparity(r) ==
  /\ pc[r] = "r_seq2"
  /\ LET ok == loc[r].s1 = seq
         l  == [loc[r] EXCEPT !.s2 = seq, !.i = @ + 1]
     IN  CASE ok                                 -> Move(r, "use", l)
           [] loc[r].op = "wait"                 -> Move(r, "r_wait", l)
           [] l.i < Retry                        -> Move(r, "r_seq1", l)
           [] OTHER                              -> Move(r, Idle, l)
  /\ UNCHANGED <<lockw, lwaiters, seq, value, heap, vwaiters, writes, reads,
                 committed>>

\* seq2 = seq_.load(), then the check: an even seq1 equal to seq2 returns
\* data.  Otherwise load_shared() waits on value_, and load_shared(retry)
\* tries again or gives up with nullptr after retry attempts.
read_seq2(r) ==
  /\ pc[r] = "r_seq2"
  /\ LET ok == Even(loc[r].s1) /\ loc[r].s1 = seq
         l  == [loc[r] EXCEPT !.s2 = seq, !.i = @ + 1]
     IN  CASE ok                                 -> Move(r, "use", l)
           [] loc[r].op = "wait"                 -> Move(r, "r_wait", l)
           [] l.i < Retry                        -> Move(r, "r_seq1", l)
           [] OTHER                              -> Move(r, Idle, l)
  /\ UNCHANGED <<lockw, lwaiters, seq, value, heap, vwaiters, writes, reads,
                 committed>>

\* value_.wait(data): returns once value_ no longer owns data, else blocks
\* until a notify_all.
read_wait(r) ==
  /\ pc[r] = "r_wait"
  /\ r \notin vwaiters
  /\ IF value # loc[r].d
       THEN /\ Move(r, "r_seq1", loc[r])
            /\ UNCHANGED vwaiters
       ELSE /\ vwaiters' = vwaiters \cup {r}
            /\ UNCHANGED <<pc, loc>>
  /\ UNCHANGED <<lockw, lwaiters, seq, value, heap, writes, reads, committed>>

\* The caller dereferences the shared_ptr it got.
read_use(r) ==
  /\ pc[r] = "use"
  /\ Move(r, Idle, loc[r])
  /\ UNCHANGED <<lockw, lwaiters, seq, value, heap, vwaiters, writes, reads,
                 committed>>

-----------------------------------------------------------------------------
WriterStep(w) ==
  \/ lock_impl_load(w) \/ lock_impl_wait(w) \/ lock_impl_fetch_or(w)
  \/ lock_seq_inc(w) \/ store_assign(w)
  \/ update_begin(w) \/ update_end(w) \/ unlock_copy(w) \/ unlock_seq(w)
  \/ unlock_store(w) \/ unlock_notify_one(w) \/ unlock_notify_all(w)

ReaderStep(r) ==
  \/ read_seq1(r) \/ read_data(r) \/ read_seq2(r) \/ read_wait(r)
  \/ read_use(r)

Next ==
  \/ \E w \in Writers : lock_try(w) \/ WriterStep(w)
  \/ \E r \in Readers : load_shared(r) \/ ReaderStep(r)

Spec == Init /\ [][Next]_vars

\* A thread inside a call is scheduled: the OS runs runnable threads.  A
\* thread in a waiter set has no enabled step, so fairness does not wake it.
FairSpec == Spec /\ \A w \in Writers : WF_vars(WriterStep(w))
                 /\ \A r \in Readers : WF_vars(ReaderStep(r))

-----------------------------------------------------------------------------
TypeOK ==
  /\ lockw \in {UNLOCK, LOCKED}
  /\ lwaiters \subseteq Writers /\ vwaiters \subseteq Readers
  /\ seq \in Nat /\ value \in 1..Len(heap)
  /\ \A i \in 1..Len(heap) : heap[i] \in [val : 0..MaxWrites, busy : BOOLEAN]
  /\ committed \subseteq 1..Len(heap)

InCritical(w) == pc[w] \in {"seq_inc", "store_assign",
                            "update_begin", "update_end", "unlock_copy",
                            "unlock_seq", "unlock_store"}

\* lock_ (try_lock, lock_impl's fetch_or, unlock) admits one writer at a
\* time between lock() and unlock().
MutualExclusion ==
  \A w1, w2 \in Writers : InCritical(w1) /\ InCritical(w2) => w1 = w2

\* A load_shared that succeeds returns a version some unlock() committed,
\* never the object a writer's critical section is still building.
ReadCommitted == \A r \in Readers : pc[r] = "use" => loc[r].d \in committed

\* Spec 4.9: a reader never observes a half-written value: the object it
\* got is not being written while it dereferences it.
NoTornRead == \A r \in Readers : pc[r] = "use" => ~heap[loc[r].d].busy

\* A writer that calls lock() gets through unlock(): notify_one after
\* every unlock leaves no waiter behind on a free lock.
WriterProgress == \A w \in Writers : pc[w] # Idle ~> pc[w] = Idle

\* Every load_shared call returns.
ReaderReturns == \A r \in Readers : pc[r] # Idle ~> pc[r] = Idle

=============================================================================
