--------------------------- MODULE SlurmctldLocks ---------------------------
(***************************************************************************)
(* The reader/writer locks of slurmctld (src/slurmctld/locks.c).           *)
(*                                                                         *)
(* One counter triple (read, write, write_wait) per data type, all of them *)
(* protected by locks_mutex; every thread that cannot have its lock sleeps *)
(* on the single condition variable locks_cond and every unlock wakes all  *)
(* sleepers.  A body of _wr_rdlock, _wr_wrlock, _wr_rdunlock, _wr_wrunlock *)
(* between mutex_lock and cond_wait/mutex_unlock is one step.              *)
(*                                                                         *)
(* write_cnt_lock, the fourth counter of a data type, is written by the    *)
(* lock routines and only ever printed; it is left out.                    *)
(***************************************************************************)
EXTENDS Integers, FiniteSets

CONSTANTS Threads,    \* threads of slurmctld
          Requests    \* the lock_levels the code passes to lock_slurmctld

(* lock_datatype_t: CONFIG_LOCK, JOB_LOCK, NODE_LOCK, PART_LOCK, FED_LOCK *)
LockType == 0..4

NO_LOCK    == "NO_LOCK"
READ_LOCK  == "READ_LOCK"
WRITE_LOCK == "WRITE_LOCK"
Levels     == {NO_LOCK, READ_LOCK, WRITE_LOCK}

ASSUME LocksAssumption ==
  /\ IsFiniteSet(Threads)
  /\ Requests \subseteq [LockType -> Levels]

VARIABLES
  read_lock,        \* read_lock[d], write_lock[d], write_wait_lock[d]:
  write_lock,       \*   the counters of slurmctld_locks.entity
  write_wait_lock,
  phase,            \* where the thread is: outside, in lock_slurmctld, in unlock_slurmctld
  lock_levels,      \* the argument of the thread's current call
  held,             \* data types the thread has locked so far
  announced,        \* in _wr_wrlock, past the increment of write_wait_lock
  asleep            \* threads blocked in slurm_cond_wait(&locks_cond)

vars == <<read_lock, write_lock, write_wait_lock, phase, lock_levels, held,
          announced, asleep>>
counters == <<read_lock, write_lock, write_wait_lock>>

Phases == {"out", "locking", "unlocking"}

(* The xassert()s of the unlock routines (locks.c:212 and :242): no counter *)
(* goes below 0; and write_lock never counts more than one writer.          *)
TypeOK ==
  /\ read_lock \in [LockType -> Nat]
  /\ write_lock \in [LockType -> {0, 1}]
  /\ write_wait_lock \in [LockType -> Nat]
  /\ phase \in [Threads -> Phases]
  /\ lock_levels \in [Threads -> [LockType -> Levels]]
  /\ held \in [Threads -> SUBSET LockType]
  /\ announced \in [Threads -> BOOLEAN]
  /\ asleep \subseteq Threads

-----------------------------------------------------------------------------
(* The "well defined order" of lock_slurmctld: ascending data types, and   *)
(* descending ones in unlock_slurmctld.                                    *)

Needed(t) == {d \in LockType : lock_levels[t][d] # NO_LOCK}
Missing(t) == Needed(t) \ held[t]

NextLockUnordered(t, d) == d \in Missing(t)
NextLock(t, d) == d \in Missing(t) /\ \A e \in Missing(t) : d <= e

NextUnlock(t, d) == d \in held[t] /\ \A e \in held[t] : e <= d

Holds(t, d, level) == d \in held[t] /\ lock_levels[t][d] = level

(* The tests of _wr_rdlock and _wr_wrlock. *)
CanReadIgnoringWaiters(d) == write_lock[d] = 0
CanRead(d) == write_lock[d] = 0 /\ write_wait_lock[d] = 0
CanWriteIgnoringReaders(d) == write_lock[d] = 0
CanWrite(d) == read_lock[d] = 0 /\ write_lock[d] = 0
-----------------------------------------------------------------------------
Init ==
  /\ read_lock = [d \in LockType |-> 0]
  /\ write_lock = [d \in LockType |-> 0]
  /\ write_wait_lock = [d \in LockType |-> 0]
  /\ phase = [t \in Threads |-> "out"]
  /\ lock_levels = [t \in Threads |-> [d \in LockType |-> NO_LOCK]]
  /\ held = [t \in Threads |-> {}]
  /\ announced = [t \in Threads |-> FALSE]
  /\ asleep = {}

(* lock_slurmctld(levels): the call; the locks are taken by the steps below. *)
lock_slurmctld(t, levels) ==
  /\ phase[t] = "out"
  /\ phase' = [phase EXCEPT ![t] = "locking"]
  /\ lock_levels' = [lock_levels EXCEPT ![t] = levels]
  /\ UNCHANGED <<counters, held, announced, asleep>>

wr_rdlock(t, d) ==
  /\ phase[t] = "locking" /\ t \notin asleep
  /\ NextLock(t, d) /\ lock_levels[t][d] = READ_LOCK
  /\ \/ /\ CanRead(d)
        /\ read_lock' = [read_lock EXCEPT ![d] = @ + 1]
        /\ held' = [held EXCEPT ![t] = @ \cup {d}]
        /\ UNCHANGED asleep
     \/ /\ ~CanRead(d)
        /\ asleep' = asleep \cup {t}
        /\ UNCHANGED <<read_lock, held>>
  /\ UNCHANGED <<write_lock, write_wait_lock, phase, lock_levels, announced>>

(* _wr_wrlock raises write_wait_lock once, before its first test, and       *)
(* lowers it in the step that takes the lock.                              *)
wr_wrlock(t, d) ==
  /\ phase[t] = "locking" /\ t \notin asleep
  /\ NextLock(t, d) /\ lock_levels[t][d] = WRITE_LOCK
  /\ \/ /\ CanWrite(d)
        /\ write_lock' = [write_lock EXCEPT ![d] = @ + 1]
        /\ write_wait_lock' = [write_wait_lock EXCEPT
                                 ![d] = IF announced[t] THEN @ - 1 ELSE @]
        /\ announced' = [announced EXCEPT ![t] = FALSE]
        /\ held' = [held EXCEPT ![t] = @ \cup {d}]
        /\ UNCHANGED asleep
     \/ /\ ~CanWrite(d)
        /\ write_wait_lock' = [write_wait_lock EXCEPT
                                 ![d] = IF announced[t] THEN @ ELSE @ + 1]
        /\ announced' = [announced EXCEPT ![t] = TRUE]
        /\ asleep' = asleep \cup {t}
        /\ UNCHANGED <<write_lock, held>>
  /\ UNCHANGED <<read_lock, phase, lock_levels>>

(* lock_slurmctld has returned when nothing is missing; the caller works    *)
(* and then calls unlock_slurmctld with the same levels.                   *)
unlock_slurmctld(t) ==
  /\ phase[t] = "locking" /\ Missing(t) = {}
  /\ phase' = [phase EXCEPT ![t] = "unlocking"]
  /\ UNCHANGED <<counters, lock_levels, held, announced, asleep>>

(* slurm_cond_broadcast(&locks_cond) *)
Broadcast == asleep' = {}

wr_rdunlock(t, d) ==
  /\ phase[t] = "unlocking"
  /\ NextUnlock(t, d) /\ lock_levels[t][d] = READ_LOCK
  /\ read_lock' = [read_lock EXCEPT ![d] = @ - 1]
  /\ held' = [held EXCEPT ![t] = @ \ {d}]
  /\ Broadcast
  /\ UNCHANGED <<write_lock, write_wait_lock, phase, lock_levels, announced>>

wr_wrunlockSilent(t, d) ==
  /\ phase[t] = "unlocking"
  /\ NextUnlock(t, d) /\ lock_levels[t][d] = WRITE_LOCK
  /\ write_lock' = [write_lock EXCEPT ![d] = @ - 1]
  /\ held' = [held EXCEPT ![t] = @ \ {d}]
  /\ UNCHANGED <<read_lock, write_wait_lock, phase, lock_levels, announced, asleep>>

wr_wrunlock(t, d) ==
  /\ phase[t] = "unlocking"
  /\ NextUnlock(t, d) /\ lock_levels[t][d] = WRITE_LOCK
  /\ write_lock' = [write_lock EXCEPT ![d] = @ - 1]
  /\ held' = [held EXCEPT ![t] = @ \ {d}]
  /\ Broadcast
  /\ UNCHANGED <<read_lock, write_wait_lock, phase, lock_levels, announced>>

unlockReturn(t) ==
  /\ phase[t] = "unlocking" /\ held[t] = {}
  /\ phase' = [phase EXCEPT ![t] = "out"]
  /\ UNCHANGED <<counters, lock_levels, held, announced, asleep>>

Call(t) == \E levels \in Requests : lock_slurmctld(t, levels)

Work(t) ==
  \/ \E d \in LockType : wr_rdlock(t, d) \/ wr_wrlock(t, d)
  \/ unlock_slurmctld(t)
  \/ \E d \in LockType : wr_rdunlock(t, d) \/ wr_wrunlock(t, d)
  \/ unlockReturn(t)

Next == \E t \in Threads : Call(t) \/ Work(t)

(* A thread may stay outside for ever; one that called lock_slurmctld keeps *)
(* running: the kernel schedules it, and callers always reach their unlock. *)
Fairness == \A t \in Threads : WF_vars(Work(t))

Spec == Init /\ [][Next]_vars
FairSpec == Spec /\ Fairness
-----------------------------------------------------------------------------
Readers(d) == {t \in Threads : Holds(t, d, READ_LOCK)}
Writers(d) == {t \in Threads : Holds(t, d, WRITE_LOCK)}
WaitingWriters(d) == {t \in Threads : announced[t] /\ NextLock(t, d)}

(* The counters tell the truth: they are exactly the numbers of threads     *)
(* that have a data type read-locked, write-locked, or are inside           *)
(* _wr_wrlock waiting for it.  A writer forgotten in write_wait_lock would  *)
(* shut readers out for ever.                                               *)
CountersExact ==
  \A d \in LockType :
    /\ read_lock[d] = Cardinality(Readers(d))
    /\ write_lock[d] = Cardinality(Writers(d))
    /\ write_wait_lock[d] = Cardinality(WaitingWriters(d))

(* What a write lock is for: while a thread has a data type write-locked    *)
(* (locks.c:215 _wr_wrlock) no other thread has it locked in any way.       *)
MutualExclusion ==
  \A s, t \in Threads, d \in LockType :
    s # t /\ Holds(t, d, WRITE_LOCK) => d \notin held[s]

(* No wake-up is lost: a thread sleeping on locks_cond (locks.c:199 and      *)
(* :229) really cannot have the lock it wants, so the broadcasts of the     *)
(* unlock routines are enough and no thread sleeps on a free lock.          *)
NoLostWakeup ==
  \A t \in asleep, d \in LockType :
    NextLock(t, d) => IF lock_levels[t][d] = READ_LOCK THEN ~CanRead(d)
                                                       ELSE ~CanWrite(d)

(* locks.h:81 "lock_slurmctld() and unlock_slurmctld() to get the ordering  *)
(* so as to prevent deadlock": whenever some thread is inside the lock      *)
(* routines or holds locks, one such thread is awake.                       *)
NoDeadlock ==
  (\E t \in Threads : phase[t] # "out") =>
    \E t \in Threads : phase[t] # "out" /\ t \notin asleep

(* locks.h:64 "Writers will have priority in locking the resource over      *)
(* readers": no thread obtains a read lock on a data type for which a       *)
(* writer has already been put to sleep.                                    *)
WriterNotOvertaken ==
  [][\A s, t \in Threads, d \in LockType :
       /\ Holds(s, d, READ_LOCK)' /\ d \notin held[s]
       => ~(t \in asleep /\ NextLock(t, d) /\ lock_levels[t][d] = WRITE_LOCK)]_vars

(* locks.h:66 "the writer will be blocked until all of the previous readers *)
(* have unlocked the resource": if those who have a data type locked always *)
(* let go of it, then whenever a writer waits for it a writer gets it,      *)
(* however many readers keep coming.  The condition is needed: a thread may *)
(* starve on a later data type, as the note of _wr_rdlock admits for        *)
(* readers, and until it is served it keeps the earlier ones locked.        *)
WriterServed ==
  \A d \in LockType :
    (\A t \in Threads : d \in held[t] ~> d \notin held[t])
      => ((\E t \in asleep : NextLock(t, d) /\ lock_levels[t][d] = WRITE_LOCK)
            ~> write_lock[d] > 0)
-----------------------------------------------------------------------------
(* The inductive invariant of the proofs: what a thread's position says     *)
(* about its locks, and the properties above.                               *)
Position(t) ==
  /\ held[t] \subseteq Needed(t)
  /\ phase[t] = "out" => held[t] = {}
  /\ phase[t] = "locking" => \A d \in held[t], e \in Missing(t) : d < e
  /\ announced[t] => /\ phase[t] = "locking"
                     /\ \E d \in LockType : NextLock(t, d) /\ lock_levels[t][d] = WRITE_LOCK
  /\ t \in asleep => /\ phase[t] = "locking"
                      /\ \E d \in LockType :
                           /\ NextLock(t, d)
                           /\ lock_levels[t][d] = WRITE_LOCK => announced[t]

Positions == \A t \in Threads : Position(t)

LocksInv == TypeOK /\ Positions /\ CountersExact /\ MutualExclusion /\ NoLostWakeup
=============================================================================
