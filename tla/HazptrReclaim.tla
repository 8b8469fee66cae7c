--------------------------- MODULE HazptrReclaim ---------------------------
(***************************************************************************)
(* The protection / reclamation protocol of hazp::reclaimer and            *)
(* hazp::hazard_ptr (src/include/cpp_utils/concurrency/hazard_ptr.h).      *)
(*                                                                         *)
(* Every thread owns one hazard slot.  A thread may                        *)
(*   - protect the object held by a shared std::atomic<T*> (src) with the  *)
(*     protect() retry loop, and reset() its slot;                         *)
(*   - unlink the object from src (replacing it by a fresh one) and        *)
(*     retire() it: push onto a shard, add_count(1), then                  *)
(*     check_threshold_and_reclaim();                                      *)
(*   - call reclaim().                                                     *)
(* Every load, store, exchange and CAS on a shared word is its own step,   *)
(* under sequential consistency: the seq_cst fences of protect(),          *)
(* push_list() and do_reclamation() are what make the code behave so for   *)
(* the interleavings the properties are about.  The slot directory is the  *)
(* fixed set of the threads' slots (slot allocation is HazptrSlots).       *)
(***************************************************************************)
EXTENDS Integers, FiniteSets, Functions

CONSTANTS
  Threads,     \* thread ids, each owning one hazard_ptr
  Readers,     \* the threads that call protect()
  Obj,         \* addresses of the objects published through src
  InitObj,     \* the object src holds initially
  NumShards,   \* kNumShards
  Threshold,   \* kReclaimThreshold
  SyncPeriod,  \* kSyncTimePeriod, in clock ticks
  MaxTime,     \* bound on the steady_clock reading
  MaxReclaims, \* bound on the number of reclaim() calls
  NULL         \* nullptr; also holder::INUSE, which is 0

ASSUME Readers \subseteq Threads /\ InitObj \in Obj /\ NumShards \in Nat \ {0} /\ Threshold \in Nat \ {0}

INUSE == NULL
Shards == 0..(NumShards - 1)

VARIABLES
  src,        \* the std::atomic<T*> readers protect and writers replace
  slot,       \* slot[t]: holder::ptr of t's hazard slot
  guard,      \* guard[t]: the pointer protect() returned to t, or NULL
  shards,     \* retired_list_: shards[s] is the set of records on shard s
  count,      \* count_
  due_time,   \* due_time_
  clock,      \* steady_clock::now()
  bulk,       \* num_bulk_reclaims_
  pc,         \* pc[t]: where thread t is
  loc,        \* loc[t]: t's local variables
  used,       \* objects that have been published through src
  retired,    \* objects pushed onto a shard by retire()
  freed,      \* objects whose deleter has run
  exposed,    \* history: retired objects some slot held while retired
  start_unfreed, \* history: retired \ freed when t called reclaim()
  reclaims    \* number of reclaim() calls made

vars == <<src, slot, guard, shards, count, due_time, clock, bulk, pc, loc,
          used, retired, freed, exposed, start_unfreed, reclaims>>

Idle == "idle"
NoLoc == [obj |-> NULL, rc |-> 0, k |-> 0, drained |-> {}, hz |-> {},
          todo |-> {}, done |-> TRUE, matched |-> {}, now |-> 0, seen |-> 0,
          caller |-> "none"]

Init ==
  /\ src = InitObj
  /\ slot = [t \in Threads |-> INUSE]
  /\ guard = [t \in Threads |-> NULL]
  /\ shards = [s \in Shards |-> {}]
  /\ count = 0
  /\ due_time = 0
  /\ clock = 0
  /\ bulk = 0
  /\ pc = [t \in Threads |-> Idle]
  /\ loc = [t \in Threads |-> NoLoc]
  /\ used = {InitObj}
  /\ retired = {}
  /\ freed = {}
  /\ exposed = {}
  /\ start_unfreed = [t \in Threads |-> {}]
  /\ reclaims = 0

\* Thread t goes to l with locals r; a call that returns drops its locals.
Move(t, l, r) ==
  /\ pc' = [pc EXCEPT ![t] = l]
  /\ loc' = [loc EXCEPT ![t] = IF l = Idle THEN NoLoc ELSE r]

(***************************************************************************)
(* hazard_ptr::protect: try_protect() loads src, stores it into the slot; *)
(* after the fence src is loaded again and the loop repeats on a change.  *)
(***************************************************************************)
try_protect_load(t) ==
  /\ t \in Readers
  /\ pc[t] \in {Idle, "p_load"}
  /\ guard' = [guard EXCEPT ![t] = NULL]
  /\ Move(t, "p_store", [loc[t] EXCEPT !.obj = src])
  /\ UNCHANGED <<src, slot, shards, count, due_time, clock, bulk, used,
                 retired, freed, exposed, start_unfreed, reclaims>>

try_protect_store(t) ==
  LET p == loc[t].obj IN
  /\ pc[t] = "p_store"
  /\ slot' = [slot EXCEPT ![t] = p]
  /\ exposed' = IF p \in retired THEN exposed \cup {p} ELSE exposed
  /\ Move(t, "p_check", loc[t])
  /\ UNCHANGED <<src, guard, shards, count, due_time, clock, bulk, used,
                 retired, freed, start_unfreed, reclaims>>

\* Mutant: protect() without the reload after the fence (try_protect only).
protect_validate_noreload(t) ==
  /\ pc[t] = "p_check"
  /\ guard' = [guard EXCEPT ![t] = loc[t].obj]
  /\ Move(t, Idle, loc[t])
  /\ UNCHANGED <<src, slot, shards, count, due_time, clock, bulk, used,
                 retired, freed, exposed, start_unfreed, reclaims>>

protect_validate(t) ==
  /\ pc[t] = "p_check"
  /\ IF src = loc[t].obj
       THEN /\ guard' = [guard EXCEPT ![t] = loc[t].obj]
            /\ Move(t, Idle, loc[t])
       ELSE /\ Move(t, "p_load", loc[t])
            /\ UNCHANGED guard
  /\ UNCHANGED <<src, slot, shards, count, due_time, clock, bulk, used,
                 retired, freed, exposed, start_unfreed, reclaims>>

\* hazard_ptr::reset / unmark
reset(t) ==
  /\ pc[t] = Idle
  /\ slot' = [slot EXCEPT ![t] = INUSE]
  /\ guard' = [guard EXCEPT ![t] = NULL]
  /\ UNCHANGED <<src, shards, count, due_time, clock, bulk, pc, loc, used,
                 retired, freed, exposed, start_unfreed, reclaims>>

(***************************************************************************)
(* The writer unlinks the object src holds by storing a fresh one, then   *)
(* calls retire() on it.  retire -> push_list: the record goes onto the   *)
(* shard its (arbitrary) address hashes to, then add_count(1), then       *)
(* check_threshold_and_reclaim().                                         *)
(***************************************************************************)
retire(t) ==
  /\ pc[t] = Idle
  /\ \E o \in Obj \ used :
       /\ src' = o
       /\ used' = used \cup {o}
  /\ Move(t, "r_push", [NoLoc EXCEPT !.obj = src, !.caller = "retire"])
  /\ UNCHANGED <<slot, guard, shards, count, due_time, clock, bulk, retired,
                 freed, exposed, start_unfreed, reclaims>>

push_list(t) ==
  LET p == loc[t].obj IN
  /\ pc[t] = "r_push"
  /\ \E s \in Shards : shards' = [shards EXCEPT ![s] = @ \cup {p}]
  /\ retired' = retired \cup {p}
  /\ exposed' = IF \E u \in Threads : slot[u] = p THEN exposed \cup {p}
                                                  ELSE exposed
  /\ Move(t, "r_count", [loc[t] EXCEPT !.obj = NULL])
  /\ UNCHANGED <<src, slot, guard, count, due_time, clock, bulk, used,
                 freed, start_unfreed, reclaims>>

add_count(t) ==
  /\ pc[t] = "r_count"
  /\ count' = count + 1
  /\ Move(t, "ct_count", loc[t])
  /\ UNCHANGED <<src, slot, guard, shards, due_time, clock, bulk, used,
                 retired, freed, exposed, start_unfreed, reclaims>>

(***************************************************************************)
(* check_threshold_and_reclaim: check_count_threshold() takes count_ when *)
(* it has reached the threshold; otherwise check_due_time() lets the one  *)
(* thread whose strong CAS moves due_time_ forward take count_ by         *)
(* exchange, putting a negative value back.                               *)
(***************************************************************************)
UnchangedShared == UNCHANGED <<src, slot, guard, shards, clock, used, retired,
                              freed, exposed, start_unfreed, reclaims>>

check_count_threshold(t) ==
  /\ pc[t] = "ct_count"
  /\ IF count >= Threshold
       THEN /\ count' = 0
            /\ Move(t, "dr_inc", [loc[t] EXCEPT !.rc = count])
       ELSE /\ Move(t, "ct_due", loc[t])
            /\ UNCHANGED count
  /\ UnchangedShared /\ UNCHANGED <<due_time, bulk>>

check_due_time_load(t) ==
  /\ pc[t] = "ct_due"
  /\ Move(t, IF clock < due_time THEN Idle ELSE "ct_cas",
          [loc[t] EXCEPT !.now = clock, !.seen = due_time])
  /\ UnchangedShared /\ UNCHANGED <<count, due_time, bulk>>

check_due_time_cas(t) ==
  /\ pc[t] = "ct_cas"
  /\ IF due_time = loc[t].seen
       THEN /\ due_time' = loc[t].now + SyncPeriod
            /\ Move(t, "ct_xchg", [loc[t] EXCEPT !.now = 0, !.seen = 0])
       ELSE /\ Move(t, Idle, loc[t])
            /\ UNCHANGED due_time
  /\ UnchangedShared /\ UNCHANGED <<count, bulk>>

check_due_time_exchange(t) ==
  /\ pc[t] = "ct_xchg"
  /\ count' = 0
  /\ Move(t, CASE count < 0 -> "ct_addback"
               [] count = 0 -> Idle
               [] OTHER     -> "dr_inc",
          [loc[t] EXCEPT !.rc = count])
  /\ UnchangedShared /\ UNCHANGED <<due_time, bulk>>

\* Mutant: the negative count taken by the exchange is dropped instead of
\* being added back.
check_due_time_addback_drop(t) ==
  /\ pc[t] = "ct_addback"
  /\ Move(t, Idle, loc[t])
  /\ UnchangedShared /\ UNCHANGED <<count, due_time, bulk>>

check_due_time_addback(t) ==
  /\ pc[t] = "ct_addback"
  /\ count' = count + loc[t].rc
  /\ Move(t, Idle, loc[t])
  /\ UnchangedShared /\ UNCHANGED <<due_time, bulk>>

\* Mutant: reclaim() starts do_reclamation without inc_num_bulk_reclaims().
reclaim_noinc(t) ==
  /\ pc[t] = Idle
  /\ reclaims < MaxReclaims
  /\ reclaims' = reclaims + 1
  /\ start_unfreed' = [start_unfreed EXCEPT ![t] = retired \ freed]
  /\ Move(t, "dr_extract", [NoLoc EXCEPT !.caller = "reclaim"])
  /\ UNCHANGED <<src, slot, guard, shards, count, due_time, clock, bulk, used,
                 retired, freed, exposed>>

\* reclaim(): inc_num_bulk_reclaims(); do_reclamation(0);
\* wait_for_zero_bulk_reclaims()
reclaim(t) ==
  /\ pc[t] = Idle
  /\ reclaims < MaxReclaims
  /\ reclaims' = reclaims + 1
  /\ start_unfreed' = [start_unfreed EXCEPT ![t] = retired \ freed]
  /\ Move(t, "dr_inc", [NoLoc EXCEPT !.caller = "reclaim"])
  /\ UNCHANGED <<src, slot, guard, shards, count, due_time, clock, bulk, used,
                 retired, freed, exposed>>

(***************************************************************************)
(* do_reclamation(rcount): each iteration exchanges every shard's head    *)
(* with null, and when that drained anything: fence, snapshot the slots,  *)
(* free the records no slot protects, push the others back onto shard 0.  *)
(* Then add rcount back to count_, retake count_ if it is over the        *)
(* threshold, and stop once nothing was taken and `done` holds.           *)
(***************************************************************************)
UnchangedCounters == UNCHANGED <<count, due_time, clock, bulk>>

inc_num_bulk_reclaims(t) ==
  /\ pc[t] = "dr_inc"
  /\ bulk' = bulk + 1
  /\ Move(t, "dr_extract", loc[t])
  /\ UnchangedShared /\ UNCHANGED <<count, due_time>>

\* Mutant: the shard head is loaded instead of exchanged with null.
extract_retired_objects_load(t) ==
  LET k == loc[t].k
      drained == loc[t].drained \cup shards[k]
      last == k = NumShards - 1
  IN
  /\ pc[t] = "dr_extract"
  /\ Move(t, CASE ~last        -> "dr_extract"
               [] drained # {} -> "dr_scan"
               [] OTHER        -> "dr_add",
          [loc[t] EXCEPT !.k = IF last THEN 0 ELSE k + 1, !.drained = drained,
                         !.todo = IF last /\ drained # {} THEN Threads ELSE {}])
  /\ UNCHANGED <<src, slot, guard, shards, clock, used, retired, freed,
                 exposed, start_unfreed, reclaims>>
  /\ UNCHANGED <<count, due_time, bulk>>

extract_retired_objects(t) ==
  LET k == loc[t].k
      drained == loc[t].drained \cup shards[k]
      last == k = NumShards - 1
  IN
  /\ pc[t] = "dr_extract"
  /\ shards' = [shards EXCEPT ![k] = {}]
  /\ Move(t, CASE ~last        -> "dr_extract"
               [] drained # {} -> "dr_scan"
               [] OTHER        -> "dr_add",
          [loc[t] EXCEPT !.k = IF last THEN 0 ELSE k + 1, !.drained = drained,
                         !.todo = IF last /\ drained # {} THEN Threads ELSE {}])
  /\ UNCHANGED <<src, slot, guard, clock, used, retired, freed, exposed,
                 start_unfreed, reclaims>>
  /\ UNCHANGED <<count, due_time, bulk>>

\* load_hazptr_vals: one acquire load per slot of the directory
load_hazptr_vals(t) ==
  /\ pc[t] = "dr_scan"
  /\ \/ \E u \in loc[t].todo :
          Move(t, "dr_scan",
               [loc[t] EXCEPT !.todo = @ \ {u},
                              !.hz = IF slot[u] # INUSE THEN @ \cup {slot[u]}
                                                        ELSE @])
     \/ /\ loc[t].todo = {}
        /\ Move(t, "dr_match", loc[t])
  /\ UnchangedShared /\ UnchangedCounters

\* match_reclaim: list_match_condition + reclaim_obj on the nomatch list;
\* done is cleared when some shard is non-empty
\* Mutant: the number of freed records is not subtracted from rcount.
match_reclaim_nosub(t) ==
  LET nomatch == loc[t].drained \ loc[t].hz IN
  /\ pc[t] = "dr_match"
  /\ freed' = freed \cup nomatch
  /\ Move(t, "dr_pushback",
          [loc[t] EXCEPT !.matched = loc[t].drained \cap loc[t].hz,
                         !.done = \A s \in Shards : shards[s] = {},
                         !.drained = {}, !.hz = {}])
  /\ UNCHANGED <<src, slot, guard, shards, clock, used, retired, exposed,
                 start_unfreed, reclaims>>
  /\ UnchangedCounters

match_reclaim(t) ==
  LET nomatch == loc[t].drained \ loc[t].hz IN
  /\ pc[t] = "dr_match"
  /\ freed' = freed \cup nomatch
  /\ Move(t, "dr_pushback",
          [loc[t] EXCEPT !.rc = @ - Cardinality(nomatch),
                         !.matched = loc[t].drained \cap loc[t].hz,
                         !.done = \A s \in Shards : shards[s] = {},
                         !.drained = {}, !.hz = {}])
  /\ UNCHANGED <<src, slot, guard, shards, clock, used, retired, exposed,
                 start_unfreed, reclaims>>
  /\ UnchangedCounters

\* retired_list_[0].push_list(remain_list)
match_reclaim_push(t) ==
  /\ pc[t] = "dr_pushback"
  /\ shards' = [shards EXCEPT ![0] = @ \cup loc[t].matched]
  /\ Move(t, "dr_add", [loc[t] EXCEPT !.matched = {}])
  /\ UNCHANGED <<src, slot, guard, clock, used, retired, freed, exposed,
                 start_unfreed, reclaims>>
  /\ UnchangedCounters

do_reclamation_add(t) ==
  /\ pc[t] = "dr_add"
  /\ count' = count + loc[t].rc
  /\ Move(t, "dr_check", [loc[t] EXCEPT !.rc = 0])
  /\ UnchangedShared /\ UNCHANGED <<due_time, bulk>>

\* rcount = check_count_threshold(); if (rcount == 0 && done) break;
\* Mutant: `done` declared outside the loop, never reset to true.
do_reclamation_check_stale_done(t) ==
  /\ pc[t] = "dr_check"
  /\ IF count >= Threshold
       THEN /\ count' = 0
            /\ Move(t, "dr_extract", [loc[t] EXCEPT !.rc = count])
       ELSE /\ Move(t, IF loc[t].done THEN "dr_dec" ELSE "dr_extract", loc[t])
            /\ UNCHANGED count
  /\ UnchangedShared /\ UNCHANGED <<due_time, bulk>>

do_reclamation_check(t) ==
  /\ pc[t] = "dr_check"
  /\ IF count >= Threshold
       THEN /\ count' = 0
            /\ Move(t, "dr_extract", [loc[t] EXCEPT !.rc = count, !.done = TRUE])
       ELSE /\ Move(t, IF loc[t].done THEN "dr_dec" ELSE "dr_extract",
                    [loc[t] EXCEPT !.done = TRUE])
            /\ UNCHANGED count
  /\ UnchangedShared /\ UNCHANGED <<due_time, bulk>>

dec_num_bulk_reclaims(t) ==
  /\ pc[t] = "dr_dec"
  /\ bulk' = bulk - 1
  /\ Move(t, IF loc[t].caller = "reclaim" THEN "rc_wait" ELSE Idle, loc[t])
  /\ UnchangedShared /\ UNCHANGED <<count, due_time>>

\* Mutant: reclaim() returns without waiting for other passes.
wait_for_zero_bulk_reclaims_skip(t) ==
  /\ pc[t] = "rc_wait"
  /\ Move(t, Idle, loc[t])
  /\ UnchangedShared /\ UnchangedCounters

wait_for_zero_bulk_reclaims(t) ==
  /\ pc[t] = "rc_wait"
  /\ bulk = 0
  /\ Move(t, Idle, loc[t])
  /\ UnchangedShared /\ UnchangedCounters

\* steady_clock advances
Tick ==
  /\ clock < MaxTime
  /\ clock' = clock + 1
  /\ UNCHANGED <<src, slot, guard, shards, count, due_time, bulk, pc, loc,
                 used, retired, freed, exposed, start_unfreed, reclaims>>

(***************************************************************************)
(* Steps a thread takes inside a call, and the calls it may start.         *)
(***************************************************************************)
Step(t) ==
  \/ try_protect_load(t) /\ pc[t] = "p_load"
  \/ try_protect_store(t) \/ protect_validate(t)
  \/ push_list(t) \/ add_count(t)
  \/ check_count_threshold(t) \/ check_due_time_load(t)
  \/ check_due_time_cas(t) \/ check_due_time_exchange(t)
  \/ check_due_time_addback(t)
  \/ inc_num_bulk_reclaims(t) \/ extract_retired_objects(t)
  \/ load_hazptr_vals(t) \/ match_reclaim(t) \/ match_reclaim_push(t)
  \/ do_reclamation_add(t) \/ do_reclamation_check(t)
  \/ dec_num_bulk_reclaims(t) \/ wait_for_zero_bulk_reclaims(t)

Call(t) ==
  \/ try_protect_load(t) /\ pc[t] = Idle
  \/ reset(t) \/ retire(t) \/ reclaim(t)

Next ==
  \/ \E t \in Threads : Step(t) \/ Call(t)
  \/ Tick

\* A thread inside a call keeps running (the OS scheduler is fair to runnable
\* threads; every wait in these calls is a spin with yield).
SchedFairness == \A t \in Threads : WF_vars(Step(t))

\* In addition, a reader does not keep a pointer protected forever.
ReaderFairness == \A t \in Threads : WF_vars(reset(t))

Spec == Init /\ [][Next]_vars
SchedSpec == Spec /\ SchedFairness
FairSpec == Spec /\ SchedFairness /\ ReaderFairness

(***************************************************************************)
(* Properties                                                              *)
(***************************************************************************)
Loc == [obj : Obj \cup {NULL}, rc : Int, k : 0..NumShards,
        drained : SUBSET Obj, hz : SUBSET Obj, todo : SUBSET Threads,
        done : BOOLEAN, matched : SUBSET Obj, now : 0..MaxTime,
        seen : Nat, caller : {"none", "retire", "reclaim"}]

TypeOK ==
  /\ reclaims \in 0..MaxReclaims
  /\ src \in Obj
  /\ slot \in [Threads -> Obj \cup {INUSE}]
  /\ guard \in [Threads -> Obj \cup {NULL}]
  /\ shards \in [Shards -> SUBSET Obj]
  /\ count \in Int /\ due_time \in Nat /\ clock \in 0..MaxTime
  /\ bulk \in Nat
  /\ loc \in [Threads -> Loc]
  /\ used \in SUBSET Obj /\ retired \in SUBSET used /\ freed \in SUBSET Obj
  /\ exposed \in SUBSET Obj /\ start_unfreed \in [Threads -> SUBSET Obj]

\* A pointer protect() returned, still held in the slot, is never freed:
\* the reader may dereference it until reset().
NoUseAfterFree ==
  \A t \in Threads : guard[t] # NULL => guard[t] \notin freed

\* Every retired record that is not freed is in exactly one place: on one
\* shard, or in the drained or matched list of one do_reclamation pass; a
\* freed record is in none, and only retired records are freed.  This is
\* what the exchange in pop_all, the splice onto shard 0 and the
\* concurrent pushes of retire() must preserve; a record in two places is
\* later freed twice, a record in none is leaked.
RetiredAccounted ==
  LET OnShard(o) == {s \in Shards : o \in shards[s]}
      InPass(o) ==
        {t \in Threads :
           \/ pc[t] \in {"dr_extract", "dr_scan", "dr_match"}
                /\ o \in loc[t].drained
           \/ pc[t] = "dr_pushback" /\ o \in loc[t].matched}
  IN /\ freed \subseteq retired
     /\ \A o \in retired :
          Cardinality(OnShard(o)) + Cardinality(InPass(o))
            = IF o \in freed THEN 0 ELSE 1

\* count_ plus the rcount every thread has taken from it, plus the retire()
\* calls that have pushed but not yet called add_count(1), is the number of
\* retired records not yet freed.  The threshold and due-time triggers
\* read count_; if the exchange / add-back / subtract steps of
\* check_due_time and do_reclamation lose or double an update, count_
\* drifts and reclamation fires too often or never.
CountConsistent ==
  count + SumFunction([t \in Threads |-> loc[t].rc])
        + Cardinality({t \in Threads : pc[t] = "r_count"})
    = Cardinality(retired \ freed)

\* When reclaim() returns, every record that was retired and not freed when
\* it was called, and that no slot has held since its retirement, has been
\* freed -- also when another thread's pass had drained it: that is what
\* wait_for_zero_bulk_reclaims() is for.
ReclaimIsBarrier ==
  [][\A t \in Threads :
       (pc[t] = "rc_wait" /\ pc'[t] = Idle)
         => start_unfreed[t] \ exposed \subseteq freed]_vars

\* Every call (protect, retire, reclaim) returns.
CallsReturn == \A t \in Threads : pc[t] # Idle ~> pc[t] = Idle

====
