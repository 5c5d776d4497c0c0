------------------------ MODULE SlurmctldLocksProofs ------------------------
(***************************************************************************)
(* Proofs about the reader/writer locks of slurmctld, for every finite set *)
(* of threads and every set of lock_levels they ask for.                   *)
(***************************************************************************)
EXTENDS SlurmctldLocks, FiniteSetTheorems, TLAPS

\* The prover of a leaf that names none.
USE Zenon

(* The sets that the counters count are finite, so that their cardinality   *)
(* is a natural number, and 0 only for the empty set.                       *)
LEMMA CountedSets ==
  ASSUME NEW S, S \subseteq Threads
  PROVE  /\ IsFiniteSet(S)
         /\ Cardinality(S) \in Nat
         /\ Cardinality(S) = 0 <=> S = {}
BY LocksAssumption, FS_Subset, FS_EmptySet, FS_CardinalityType

(* A thread has at most one next data type to lock: the order of            *)
(* lock_slurmctld is total.                                                 *)
LEMMA NextLockUnique ==
  ASSUME NEW t, NEW d \in LockType, NEW e \in LockType,
         NextLock(t, d), NextLock(t, e)
  PROVE  d = e
BY SMT DEF NextLock, LockType, Missing, Needed

LEMMA InitHolds == Init => LocksInv
<1> SUFFICES ASSUME Init PROVE LocksInv
  OBVIOUS
<1>1. TypeOK
  BY DEF Init, TypeOK, Phases, Levels
<1>2. Positions
  BY DEF Init, Positions, Position, Needed, Missing
<1>3. \A d \in LockType : Readers(d) = {} /\ Writers(d) = {} /\ WaitingWriters(d) = {}
  BY DEF Init, Readers, Writers, WaitingWriters, Holds
<1>4. CountersExact
  BY <1>3, FS_EmptySet DEF Init, CountersExact
<1>5. MutualExclusion /\ NoLostWakeup
  BY DEF Init, MutualExclusion, NoLostWakeup, Holds
<1> QED BY <1>1, <1>2, <1>4, <1>5 DEF LocksInv

(* A counter at 0 means that no thread is in the counted set. *)
LEMMA CounterZero ==
  ASSUME TypeOK, CountersExact, NEW d \in LockType
  PROVE  /\ read_lock[d] = 0 => \A t \in Threads : ~Holds(t, d, READ_LOCK)
         /\ write_lock[d] = 0 => \A t \in Threads : ~Holds(t, d, WRITE_LOCK)
         /\ write_wait_lock[d] = 0 => \A t \in Threads : ~(announced[t] /\ NextLock(t, d))
         /\ read_lock[d] \in Nat /\ write_lock[d] \in Nat /\ write_wait_lock[d] \in Nat
<1>1. /\ Readers(d) \subseteq Threads
      /\ Writers(d) \subseteq Threads
      /\ WaitingWriters(d) \subseteq Threads
  BY DEF Readers, Writers, WaitingWriters
<1>2. /\ Cardinality(Readers(d)) \in Nat /\ (Cardinality(Readers(d)) = 0 <=> Readers(d) = {})
      /\ Cardinality(Writers(d)) \in Nat /\ (Cardinality(Writers(d)) = 0 <=> Writers(d) = {})
      /\ Cardinality(WaitingWriters(d)) \in Nat
      /\ Cardinality(WaitingWriters(d)) = 0 <=> WaitingWriters(d) = {}
  BY <1>1, CountedSets
<1> QED BY <1>2 DEF CountersExact, Readers, Writers, WaitingWriters

(* What a thread holds and wants next depends on its own entries only. *)
LEMMA SameEntries ==
  ASSUME NEW s, held'[s] = held[s], lock_levels'[s] = lock_levels[s]
  PROVE  /\ Needed(s)' = Needed(s)
         /\ Missing(s)' = Missing(s)
         /\ \A d \in LockType : /\ NextLock(s, d)' <=> NextLock(s, d)
                                /\ Holds(s, d, READ_LOCK)' <=> Holds(s, d, READ_LOCK)
                                /\ Holds(s, d, WRITE_LOCK)' <=> Holds(s, d, WRITE_LOCK)
<1>1. Needed(s)' = Needed(s)
  BY DEF Needed
<1>2. Missing(s)' = Missing(s)
  BY <1>1 DEF Missing
<1> QED BY <1>1, <1>2 DEF NextLock, Holds

(* A step that leaves a thread's entries alone, and puts it to sleep only   *)
(* if it slept already, preserves what its position says.                   *)
LEMMA SamePosition ==
  ASSUME NEW s, Position(s),
         held'[s] = held[s], lock_levels'[s] = lock_levels[s],
         phase'[s] = phase[s], announced'[s] = announced[s],
         s \in asleep' => s \in asleep
  PROVE  Position(s)'
BY SameEntries DEF Position

LEMMA CallStep ==
  ASSUME LocksInv, NEW t \in Threads, NEW levels \in Requests, lock_slurmctld(t, levels)
  PROVE  LocksInv'
<1> USE DEF LocksInv
<1>1. TypeOK'
  BY LocksAssumption DEF TypeOK, lock_slurmctld, counters, Phases
<1>2. held[t] = {} /\ held' = held /\ ~announced[t] /\ t \notin asleep
  BY DEF Positions, Position, lock_slurmctld
<1>3. \A s \in Threads \ {t} : /\ held'[s] = held[s] /\ lock_levels'[s] = lock_levels[s]
                               /\ phase'[s] = phase[s] /\ announced'[s] = announced[s]
                               /\ s \in asleep' => s \in asleep
  BY DEF lock_slurmctld, TypeOK
<1>4. Positions'
  <2>1. Position(t)'
    BY <1>2 DEF Position, lock_slurmctld, TypeOK, Missing
  <2>2. \A s \in Threads \ {t} : Position(s)'
    BY <1>3, SamePosition DEF Positions
  <2> QED BY <2>1, <2>2 DEF Positions
<1>5. \A d \in LockType : /\ Readers(d)' = Readers(d) /\ Writers(d)' = Writers(d)
                          /\ WaitingWriters(d)' = WaitingWriters(d)
  <2>1. \A d \in LockType : ~Holds(t, d, READ_LOCK) /\ ~Holds(t, d, WRITE_LOCK)
                            /\ ~Holds(t, d, READ_LOCK)' /\ ~Holds(t, d, WRITE_LOCK)'
    BY <1>2 DEF Holds
  <2>2. announced' = announced
    BY DEF lock_slurmctld
  <2> QED BY <1>2, <1>3, <2>1, <2>2, SameEntries DEF Readers, Writers, WaitingWriters
<1>6. CountersExact'
  BY <1>5 DEF CountersExact, lock_slurmctld, counters
<1>7. MutualExclusion'
  BY <1>2, <1>3 DEF MutualExclusion, Holds
<1>8. NoLostWakeup'
  <2>1. \A s \in asleep' : s \in asleep /\ s \in Threads \ {t}
    BY <1>2 DEF lock_slurmctld, TypeOK
  <2>2. \A d \in LockType : (CanRead(d)' <=> CanRead(d)) /\ (CanWrite(d)' <=> CanWrite(d))
    BY DEF CanRead, CanWrite, lock_slurmctld, counters
  <2> QED BY <1>3, <2>1, <2>2, SameEntries, SMT DEF NoLostWakeup
<1> QED BY <1>1, <1>4, <1>6, <1>7, <1>8

(* _wr_rdlock finds the data type free of writers and takes it. *)
LEMMA RdlockTaken ==
  ASSUME LocksInv, NEW t \in Threads, NEW d \in LockType, wr_rdlock(t, d), CanRead(d)
  PROVE  LocksInv'
<1> USE DEF LocksInv
<1>0. /\ phase[t] = "locking" /\ t \notin asleep /\ NextLock(t, d)
      /\ lock_levels[t][d] = READ_LOCK
      /\ read_lock' = [read_lock EXCEPT ![d] = @ + 1]
      /\ held' = [held EXCEPT ![t] = @ \cup {d}]
      /\ UNCHANGED <<asleep, write_lock, write_wait_lock, phase, lock_levels, announced>>
  BY DEF wr_rdlock
<1>1. TypeOK'
  BY <1>0, SMT DEF TypeOK
<1>2. d \notin held[t] /\ held'[t] = held[t] \cup {d} /\ Missing(t)' = Missing(t) \ {d}
  BY <1>0 DEF NextLock, Missing, Needed, TypeOK
<1>3. \A s \in Threads \ {t} : /\ held'[s] = held[s] /\ lock_levels'[s] = lock_levels[s]
                               /\ phase'[s] = phase[s] /\ announced'[s] = announced[s]
                               /\ s \in asleep' => s \in asleep
  BY <1>0 DEF TypeOK
<1>4. ~announced[t]
  <2>1. \A e \in LockType : NextLock(t, e) => lock_levels[t][e] # WRITE_LOCK
    BY <1>0, NextLockUnique DEF READ_LOCK, WRITE_LOCK
  <2> QED BY <2>1 DEF Positions, Position
<1>5. Positions'
  <2>1. Position(t)'
    <3>1. held'[t] \subseteq Needed(t)' /\ Needed(t)' = Needed(t)
      BY <1>0, <1>2 DEF Positions, Position, NextLock, Missing, Needed
    <3>2. \A a \in held'[t], e \in Missing(t)' : a < e
      BY <1>0, <1>2, SMT DEF Positions, Position, NextLock, Missing, Needed, LockType
    <3> QED BY <1>0, <1>4, <3>1, <3>2 DEF Position
  <2>2. \A s \in Threads \ {t} : Position(s)'
    BY <1>3, SamePosition DEF Positions
  <2> QED BY <2>1, <2>2 DEF Positions
<1>6. CountersExact'
  <2>1. Readers(d)' = Readers(d) \cup {t} /\ t \notin Readers(d)
    BY <1>0, <1>2, <1>3, SameEntries, SMT DEF Readers, Holds
  <2>2. \A e \in LockType \ {d} : Readers(e)' = Readers(e)
    BY <1>0, <1>2, <1>3 DEF Readers, Holds
  <2>3. \A e \in LockType : Writers(e)' = Writers(e)
    BY <1>0, <1>2, <1>3 DEF Writers, Holds, READ_LOCK, WRITE_LOCK
  <2>4. \A e \in LockType : WaitingWriters(e)' = WaitingWriters(e)
    BY <1>0, <1>3, <1>4, SameEntries DEF WaitingWriters
  <2>5. Cardinality(Readers(d)') = Cardinality(Readers(d)) + 1
    BY <2>1, CountedSets, FS_AddElement DEF Readers
  <2> QED BY <1>0, <2>2, <2>3, <2>4, <2>5 DEF CountersExact, TypeOK
<1>7. MutualExclusion'
  BY <1>0, <1>2, <1>3, CounterZero, SMT DEF MutualExclusion, Holds, CanRead, READ_LOCK, WRITE_LOCK
<1>8. NoLostWakeup'
  <2>1. \A s \in asleep' : s \in asleep /\ s \in Threads \ {t}
    BY <1>0 DEF TypeOK
  <2>2. \A e \in LockType : (CanRead(e)' <=> CanRead(e)) /\ (CanWrite(e)' => CanWrite(e))
    <3>1. read_lock[d] \in Nat
      BY CounterZero
    <3> QED BY <1>0, <3>1, SMT DEF CanRead, CanWrite, TypeOK
  <2> QED BY <1>3, <2>1, <2>2, SameEntries, SMT DEF NoLostWakeup
<1> QED BY <1>1, <1>5, <1>6, <1>7, <1>8

(* _wr_rdlock finds a writer, at work or waiting, and sleeps. *)
LEMMA RdlockSleeps ==
  ASSUME LocksInv, NEW t \in Threads, NEW d \in LockType, wr_rdlock(t, d), ~CanRead(d)
  PROVE  LocksInv'
<1> USE DEF LocksInv
<1>0. /\ phase[t] = "locking" /\ NextLock(t, d) /\ lock_levels[t][d] = READ_LOCK
      /\ asleep' = asleep \cup {t}
      /\ UNCHANGED <<read_lock, held, write_lock, write_wait_lock, phase, lock_levels, announced>>
  BY DEF wr_rdlock
<1>1. TypeOK'
  BY <1>0 DEF TypeOK
<1>2. \A s \in Threads : /\ held'[s] = held[s] /\ lock_levels'[s] = lock_levels[s]
                         /\ phase'[s] = phase[s] /\ announced'[s] = announced[s]
  BY <1>0
<1>3. \A e \in LockType : NextLock(t, e) => e = d
  BY <1>0, NextLockUnique
<1>4. Positions'
  <2>1. Position(t)'
    BY <1>0, <1>2, SameEntries, SMT DEF Positions, Position, READ_LOCK, WRITE_LOCK
  <2>2. \A s \in Threads \ {t} : Position(s)'
    BY <1>0, <1>2, SamePosition DEF Positions
  <2> QED BY <2>1, <2>2 DEF Positions
<1>5. CountersExact'
  <2>1. \A e \in LockType : /\ Readers(e)' = Readers(e) /\ Writers(e)' = Writers(e)
                            /\ WaitingWriters(e)' = WaitingWriters(e)
    BY <1>2, SameEntries DEF Readers, Writers, WaitingWriters
  <2> QED BY <1>0, <2>1 DEF CountersExact
<1>6. MutualExclusion'
  BY <1>2 DEF MutualExclusion, Holds
<1>7. NoLostWakeup'
  <2>1. \A e \in LockType : (CanRead(e)' <=> CanRead(e)) /\ (CanWrite(e)' <=> CanWrite(e))
    BY <1>0 DEF CanRead, CanWrite
  <2>2. \A s \in asleep', e \in LockType : s \in Threads /\ (NextLock(s, e)' <=> NextLock(s, e))
    BY <1>1, <1>2, SameEntries DEF TypeOK
  <2> QED BY <1>0, <1>2, <1>3, <2>1, <2>2 DEF NoLostWakeup
<1> QED BY <1>1, <1>4, <1>5, <1>6, <1>7

(* _wr_wrlock finds the data type free and takes it, withdrawing its        *)
(* announcement if it had to wait.                                          *)
LEMMA WrlockTaken ==
  ASSUME LocksInv, NEW t \in Threads, NEW d \in LockType, wr_wrlock(t, d), CanWrite(d)
  PROVE  LocksInv'
<1> USE DEF LocksInv
<1>0. /\ phase[t] = "locking" /\ t \notin asleep /\ NextLock(t, d)
      /\ lock_levels[t][d] = WRITE_LOCK
      /\ write_lock' = [write_lock EXCEPT ![d] = @ + 1]
      /\ write_wait_lock' = [write_wait_lock EXCEPT ![d] = IF announced[t] THEN @ - 1 ELSE @]
      /\ announced' = [announced EXCEPT ![t] = FALSE]
      /\ held' = [held EXCEPT ![t] = @ \cup {d}]
      /\ UNCHANGED <<asleep, read_lock, phase, lock_levels>>
  BY DEF wr_wrlock
<1>1. TypeOK'
  <2>1. write_lock[d] = 0 /\ (announced[t] => write_wait_lock[d] - 1 \in Nat)
    BY <1>0, CounterZero, SMT DEF CanWrite
  <2> QED BY <1>0, <2>1, SMT DEF TypeOK
<1>2. /\ d \notin held[t] /\ held'[t] = held[t] \cup {d} /\ Missing(t)' = Missing(t) \ {d}
      /\ ~announced'[t]
  BY <1>0 DEF NextLock, Missing, Needed, TypeOK
<1>3. \A s \in Threads \ {t} : /\ held'[s] = held[s] /\ lock_levels'[s] = lock_levels[s]
                               /\ phase'[s] = phase[s] /\ announced'[s] = announced[s]
                               /\ s \in asleep' => s \in asleep
  BY <1>0 DEF TypeOK
<1>4. \A e \in LockType : NextLock(t, e) <=> e = d
  BY <1>0, NextLockUnique
<1>5. Positions'
  <2>1. Position(t)'
    <3>1. held'[t] \subseteq Needed(t)' /\ Needed(t)' = Needed(t)
      BY <1>0, <1>2 DEF Positions, Position, NextLock, Missing, Needed
    <3>2. \A a \in held'[t], e \in Missing(t)' : a < e
      BY <1>0, <1>2, SMT DEF Positions, Position, NextLock, Missing, Needed, LockType
    <3> QED BY <1>0, <1>2, <3>1, <3>2 DEF Position
  <2>2. \A s \in Threads \ {t} : Position(s)'
    BY <1>3, SamePosition DEF Positions
  <2> QED BY <2>1, <2>2 DEF Positions
<1>6. CountersExact'
  <2>1. Writers(d)' = Writers(d) \cup {t} /\ t \notin Writers(d)
    BY <1>0, <1>2, <1>3, SameEntries, SMT DEF Writers, Holds
  <2>2. \A e \in LockType \ {d} : Writers(e)' = Writers(e)
    BY <1>0, <1>2, <1>3 DEF Writers, Holds
  <2>3. \A e \in LockType : Readers(e)' = Readers(e)
    BY <1>0, <1>2, <1>3 DEF Readers, Holds, READ_LOCK, WRITE_LOCK
  <2>4. \A e \in LockType \ {d} : WaitingWriters(e)' = WaitingWriters(e)
    BY <1>2, <1>3, <1>4, SameEntries DEF WaitingWriters
  <2>5. WaitingWriters(d)' = WaitingWriters(d) \ {t} /\ (t \in WaitingWriters(d) <=> announced[t])
    BY <1>2, <1>3, <1>4, SameEntries DEF WaitingWriters
  <2>6. Cardinality(Writers(d)') = Cardinality(Writers(d)) + 1
    BY <2>1, CountedSets, FS_AddElement DEF Writers
  <2>7. Cardinality(WaitingWriters(d)') =
          IF announced[t] THEN Cardinality(WaitingWriters(d)) - 1
                          ELSE Cardinality(WaitingWriters(d))
    BY <2>5, CountedSets, FS_RemoveElement, SMT DEF WaitingWriters
  <2> QED BY <1>0, <2>2, <2>3, <2>4, <2>6, <2>7 DEF CountersExact, TypeOK
<1>7. MutualExclusion'
  <2>1. \A s \in Threads : d \notin held[s]
    <3>1. \A s \in Threads : ~Holds(s, d, READ_LOCK) /\ ~Holds(s, d, WRITE_LOCK)
      BY CounterZero DEF CanWrite
    <3> QED BY <3>1, SMT DEF Positions, Position, Needed, Holds, TypeOK, Levels
  <2> QED BY <1>0, <1>2, <1>3, <2>1, SMT DEF MutualExclusion, Holds
<1>8. NoLostWakeup'
  <2>1. \A s \in asleep' : s \in asleep /\ s \in Threads \ {t}
    BY <1>0 DEF TypeOK
  <2>2. ~CanRead(d)' /\ ~CanWrite(d)'
    BY <1>0, SMT DEF CanRead, CanWrite, TypeOK
  <2>3. \A e \in LockType \ {d} : (CanRead(e)' <=> CanRead(e)) /\ (CanWrite(e)' <=> CanWrite(e))
    BY <1>0 DEF CanRead, CanWrite, TypeOK
  <2> QED BY <1>3, <2>1, <2>2, <2>3, SameEntries, SMT DEF NoLostWakeup
<1> QED BY <1>1, <1>5, <1>6, <1>7, <1>8

(* _wr_wrlock finds the data type in use, announces itself and sleeps. *)
LEMMA WrlockSleeps ==
  ASSUME LocksInv, NEW t \in Threads, NEW d \in LockType, wr_wrlock(t, d), ~CanWrite(d)
  PROVE  LocksInv'
<1> USE DEF LocksInv
<1>0. /\ phase[t] = "locking" /\ NextLock(t, d) /\ lock_levels[t][d] = WRITE_LOCK
      /\ write_wait_lock' = [write_wait_lock EXCEPT ![d] = IF announced[t] THEN @ ELSE @ + 1]
      /\ announced' = [announced EXCEPT ![t] = TRUE]
      /\ asleep' = asleep \cup {t}
      /\ UNCHANGED <<read_lock, held, write_lock, phase, lock_levels>>
  BY DEF wr_wrlock
<1>1. TypeOK'
  BY <1>0, SMT DEF TypeOK
<1>2. \A s \in Threads : held'[s] = held[s] /\ lock_levels'[s] = lock_levels[s]
                        /\ phase'[s] = phase[s]
  BY <1>0
<1>3. announced'[t] /\ \A s \in Threads \ {t} : announced'[s] = announced[s]
  BY <1>0 DEF TypeOK
<1>4. \A e \in LockType : NextLock(t, e) <=> e = d
  BY <1>0, NextLockUnique
<1>5. Positions'
  <2>1. Position(t)'
    BY <1>0, <1>2, <1>3, SameEntries, SMT DEF Positions, Position
  <2>2. \A s \in Threads \ {t} : Position(s)'
    BY <1>0, <1>2, <1>3, SamePosition DEF Positions
  <2> QED BY <2>1, <2>2 DEF Positions
<1>6. CountersExact'
  <2>1. \A e \in LockType : Readers(e)' = Readers(e) /\ Writers(e)' = Writers(e)
    BY <1>2, SameEntries DEF Readers, Writers
  <2>2. \A e \in LockType \ {d} : WaitingWriters(e)' = WaitingWriters(e)
    BY <1>2, <1>3, <1>4, SameEntries DEF WaitingWriters
  <2>3. WaitingWriters(d)' = WaitingWriters(d) \cup {t} /\ (t \in WaitingWriters(d) <=> announced[t])
    BY <1>2, <1>3, <1>4, SameEntries DEF WaitingWriters
  <2>4. Cardinality(WaitingWriters(d)') =
          IF announced[t] THEN Cardinality(WaitingWriters(d))
                          ELSE Cardinality(WaitingWriters(d)) + 1
    BY <2>3, CountedSets, FS_AddElement, SMT DEF WaitingWriters
  <2> QED BY <1>0, <2>1, <2>2, <2>4 DEF CountersExact, TypeOK
<1>7. MutualExclusion'
  BY <1>2 DEF MutualExclusion, Holds
<1>8. NoLostWakeup'
  <2>1. \A e \in LockType : (CanRead(e)' => CanRead(e)) /\ (CanWrite(e)' <=> CanWrite(e))
    <3>1. write_wait_lock[d] \in Nat
      BY CounterZero
    <3> QED BY <1>0, <3>1, SMT DEF CanRead, CanWrite, TypeOK
  <2>2. \A s \in asleep', e \in LockType : s \in Threads /\ (NextLock(s, e)' <=> NextLock(s, e))
    BY <1>1, <1>2, SameEntries DEF TypeOK
  <2> QED BY <1>0, <1>2, <1>4, <2>1, <2>2 DEF NoLostWakeup, READ_LOCK, WRITE_LOCK
<1> QED BY <1>1, <1>5, <1>6, <1>7, <1>8

(* _wr_rdunlock gives a read lock back and wakes every sleeper. *)
LEMMA RdunlockStep ==
  ASSUME LocksInv, NEW t \in Threads, NEW d \in LockType, wr_rdunlock(t, d)
  PROVE  LocksInv'
<1> USE DEF LocksInv
<1>0. /\ phase[t] = "unlocking" /\ d \in held[t] /\ lock_levels[t][d] = READ_LOCK
      /\ read_lock' = [read_lock EXCEPT ![d] = @ - 1]
      /\ held' = [held EXCEPT ![t] = @ \ {d}]
      /\ asleep' = {}
      /\ UNCHANGED <<write_lock, write_wait_lock, phase, lock_levels, announced>>
  BY DEF wr_rdunlock, NextUnlock, Broadcast
<1>1. TypeOK'
  <2>1. read_lock[d] - 1 \in Nat
    <3>1. Holds(t, d, READ_LOCK)
      BY <1>0 DEF Holds
    <3> QED BY <3>1, CounterZero, SMT
  <2> QED BY <1>0, <2>1 DEF TypeOK
<1>2. held'[t] = held[t] \ {d} /\ ~announced[t]
  BY <1>0 DEF TypeOK, Positions, Position
<1>3. \A s \in Threads \ {t} : /\ held'[s] = held[s] /\ lock_levels'[s] = lock_levels[s]
                               /\ phase'[s] = phase[s] /\ announced'[s] = announced[s]
                               /\ s \in asleep' => s \in asleep
  BY <1>0 DEF TypeOK
<1>4. Positions'
  <2>1. Position(t)'
    BY <1>0, <1>2 DEF Positions, Position, Needed
  <2>2. \A s \in Threads \ {t} : Position(s)'
    BY <1>3, SamePosition DEF Positions
  <2> QED BY <2>1, <2>2 DEF Positions
<1>5. CountersExact'
  <2>1. Readers(d)' = Readers(d) \ {t} /\ t \in Readers(d)
    BY <1>0, <1>2, <1>3, SameEntries DEF Readers, Holds
  <2>2. \A e \in LockType \ {d} : Readers(e)' = Readers(e)
    BY <1>0, <1>2, <1>3 DEF Readers, Holds
  <2>3. \A e \in LockType : Writers(e)' = Writers(e)
    BY <1>0, <1>2, <1>3 DEF Writers, Holds, READ_LOCK, WRITE_LOCK
  <2>4. \A e \in LockType : WaitingWriters(e)' = WaitingWriters(e)
    BY <1>0, <1>2, <1>3, SameEntries DEF WaitingWriters
  <2>5. Cardinality(Readers(d)') = Cardinality(Readers(d)) - 1
    BY <2>1, CountedSets, FS_RemoveElement, SMT DEF Readers
  <2> QED BY <1>0, <2>2, <2>3, <2>4, <2>5 DEF CountersExact, TypeOK
<1>6. MutualExclusion'
  BY <1>0, <1>2, <1>3 DEF MutualExclusion, Holds
<1>7. NoLostWakeup'
  BY <1>0 DEF NoLostWakeup
<1> QED BY <1>1, <1>4, <1>5, <1>6, <1>7

(* _wr_wrunlock gives the write lock back and wakes every sleeper. *)
LEMMA WrunlockStep ==
  ASSUME LocksInv, NEW t \in Threads, NEW d \in LockType, wr_wrunlock(t, d)
  PROVE  LocksInv'
<1> USE DEF LocksInv
<1>0. /\ phase[t] = "unlocking" /\ d \in held[t] /\ lock_levels[t][d] = WRITE_LOCK
      /\ write_lock' = [write_lock EXCEPT ![d] = @ - 1]
      /\ held' = [held EXCEPT ![t] = @ \ {d}]
      /\ asleep' = {}
      /\ UNCHANGED <<read_lock, write_wait_lock, phase, lock_levels, announced>>
  BY DEF wr_wrunlock, NextUnlock, Broadcast
<1>1. TypeOK'
  <2>1. write_lock[d] = 1
    <3>1. Holds(t, d, WRITE_LOCK)
      BY <1>0 DEF Holds
    <3> QED BY <3>1, CounterZero DEF TypeOK
  <2> QED BY <1>0, <2>1, SMT DEF TypeOK
<1>2. held'[t] = held[t] \ {d} /\ ~announced[t]
  BY <1>0 DEF TypeOK, Positions, Position
<1>3. \A s \in Threads \ {t} : /\ held'[s] = held[s] /\ lock_levels'[s] = lock_levels[s]
                               /\ phase'[s] = phase[s] /\ announced'[s] = announced[s]
                               /\ s \in asleep' => s \in asleep
  BY <1>0 DEF TypeOK
<1>4. Positions'
  <2>1. Position(t)'
    BY <1>0, <1>2 DEF Positions, Position, Needed
  <2>2. \A s \in Threads \ {t} : Position(s)'
    BY <1>3, SamePosition DEF Positions
  <2> QED BY <2>1, <2>2 DEF Positions
<1>5. CountersExact'
  <2>1. Writers(d)' = Writers(d) \ {t} /\ t \in Writers(d)
    BY <1>0, <1>2, <1>3, SameEntries DEF Writers, Holds
  <2>2. \A e \in LockType \ {d} : Writers(e)' = Writers(e)
    BY <1>0, <1>2, <1>3 DEF Writers, Holds
  <2>3. \A e \in LockType : Readers(e)' = Readers(e)
    BY <1>0, <1>2, <1>3 DEF Readers, Holds, READ_LOCK, WRITE_LOCK
  <2>4. \A e \in LockType : WaitingWriters(e)' = WaitingWriters(e)
    BY <1>0, <1>2, <1>3, SameEntries DEF WaitingWriters
  <2>5. Cardinality(Writers(d)') = Cardinality(Writers(d)) - 1
    BY <2>1, CountedSets, FS_RemoveElement, SMT DEF Writers
  <2> QED BY <1>0, <2>2, <2>3, <2>4, <2>5 DEF CountersExact, TypeOK
<1>6. MutualExclusion'
  BY <1>0, <1>2, <1>3 DEF MutualExclusion, Holds
<1>7. NoLostWakeup'
  BY <1>0 DEF NoLostWakeup
<1> QED BY <1>1, <1>4, <1>5, <1>6, <1>7

(* Entering unlock_slurmctld and returning from it move the thread only. *)
LEMMA TurnStep ==
  ASSUME LocksInv, NEW t \in Threads, unlock_slurmctld(t) \/ unlockReturn(t)
  PROVE  LocksInv'
<1> USE DEF LocksInv
<1>0. UNCHANGED <<read_lock, write_lock, write_wait_lock, lock_levels, held, announced, asleep>>
  BY DEF unlock_slurmctld, unlockReturn, counters
<1>1. TypeOK'
  BY DEF TypeOK, unlock_slurmctld, unlockReturn, counters, Phases
<1>2. \A s \in Threads : held'[s] = held[s] /\ lock_levels'[s] = lock_levels[s]
  BY <1>0
<1>3. ~announced[t] /\ t \notin asleep
  <2>1. phase[t] = "locking" => Missing(t) = {}
    BY DEF unlock_slurmctld, unlockReturn
  <2> QED BY <2>1 DEF Positions, Position, NextLock
<1>4. Positions'
  <2>1. Position(t)'
    <3>1. phase'[t] \in {"unlocking", "out"} /\ (phase'[t] = "out" => held[t] = {})
      BY DEF unlock_slurmctld, unlockReturn, TypeOK
    <3> QED BY <1>0, <1>2, <1>3, <3>1, SameEntries DEF Positions, Position
  <2>2. \A s \in Threads \ {t} : phase'[s] = phase[s]
    BY DEF unlock_slurmctld, unlockReturn, TypeOK
  <2>3. \A s \in Threads \ {t} : Position(s)'
    BY <1>0, <1>2, <2>2, SamePosition DEF Positions
  <2> QED BY <2>1, <2>3 DEF Positions
<1>5. CountersExact'
  <2>1. \A e \in LockType : /\ Readers(e)' = Readers(e) /\ Writers(e)' = Writers(e)
                            /\ WaitingWriters(e)' = WaitingWriters(e)
    BY <1>0, <1>2, SameEntries DEF Readers, Writers, WaitingWriters
  <2> QED BY <1>0, <2>1 DEF CountersExact
<1>6. MutualExclusion'
  BY <1>2 DEF MutualExclusion, Holds
<1>7. NoLostWakeup'
  <2>1. \A e \in LockType : (CanRead(e)' <=> CanRead(e)) /\ (CanWrite(e)' <=> CanWrite(e))
    BY <1>0 DEF CanRead, CanWrite
  <2> QED BY <1>0, <1>2, <2>1, SameEntries DEF NoLostWakeup, TypeOK
<1> QED BY <1>1, <1>4, <1>5, <1>6, <1>7

LEMMA StutterStep ==
  ASSUME LocksInv, UNCHANGED vars
  PROVE  LocksInv'
<1>1. TypeOK'
  BY DEF LocksInv, vars, TypeOK
<1>2. Positions' /\ MutualExclusion'
  BY SMT DEF LocksInv, vars, Positions, Position, MutualExclusion, Holds, NextLock, Missing, Needed
<1>3. CountersExact'
  BY DEF LocksInv, vars, CountersExact, Readers, Writers, WaitingWriters, Holds, NextLock,
         Missing, Needed
<1>4. NoLostWakeup'
  BY DEF LocksInv, vars, NoLostWakeup, CanRead, CanWrite, NextLock, Missing, Needed
<1> QED BY <1>1, <1>2, <1>3, <1>4 DEF LocksInv

(* The invariant of the locks holds in every reachable state, for any       *)
(* number of threads and any lock_levels they pass to lock_slurmctld.       *)
THEOREM LocksInvariant == Spec => []LocksInv
<1>1. LocksInv /\ [Next]_vars => LocksInv'
  <2> SUFFICES ASSUME LocksInv, [Next]_vars PROVE LocksInv'
    OBVIOUS
  <2>1. CASE UNCHANGED vars
    BY <2>1, StutterStep
  <2>2. ASSUME NEW t \in Threads, Call(t) PROVE LocksInv'
    BY <2>2, CallStep DEF Call
  <2>3. ASSUME NEW t \in Threads, NEW d \in LockType, wr_rdlock(t, d) PROVE LocksInv'
    BY <2>3, RdlockTaken, RdlockSleeps
  <2>4. ASSUME NEW t \in Threads, NEW d \in LockType, wr_wrlock(t, d) PROVE LocksInv'
    BY <2>4, WrlockTaken, WrlockSleeps
  <2>5. ASSUME NEW t \in Threads, NEW d \in LockType, wr_rdunlock(t, d) PROVE LocksInv'
    BY <2>5, RdunlockStep
  <2>6. ASSUME NEW t \in Threads, NEW d \in LockType, wr_wrunlock(t, d) PROVE LocksInv'
    BY <2>6, WrunlockStep
  <2>7. ASSUME NEW t \in Threads, unlock_slurmctld(t) \/ unlockReturn(t) PROVE LocksInv'
    BY <2>7, TurnStep
  <2> QED BY <2>1, <2>2, <2>3, <2>4, <2>5, <2>6, <2>7 DEF Next, Work
<1> QED BY <1>1, InitHolds, PTL DEF Spec

(* The lock counters never go below 0 and write_lock never above 1. *)
THEOREM TypeCorrect == Spec => []TypeOK
<1>1. LocksInv => TypeOK
  BY DEF LocksInv
<1> QED BY <1>1, LocksInvariant, PTL

(* The counters of slurmctld_locks always equal the numbers of holders and *)
(* of writers that have announced themselves: none is leaked. *)
THEOREM CountersCorrect == Spec => []CountersExact
<1>1. LocksInv => CountersExact
  BY DEF LocksInv
<1> QED BY <1>1, LocksInvariant, PTL

(* A write lock excludes every other lock on the same data type. *)
THEOREM Exclusion == Spec => []MutualExclusion
<1>1. LocksInv => MutualExclusion
  BY DEF LocksInv
<1> QED BY <1>1, LocksInvariant, PTL

(* No thread sleeps on locks_cond while its lock is free. *)
THEOREM Wakeups == Spec => []NoLostWakeup
<1>1. LocksInv => NoLostWakeup
  BY DEF LocksInv
<1> QED BY <1>1, LocksInvariant, PTL

(* Among a non-empty set of lock data types there is a last one. *)
LEMMA LastType ==
  ASSUME NEW S, S \subseteq LockType, S # {}
  PROVE  \E d \in S : \A e \in S : e <= d
<1>1. \A d \in S : d \in {0, 1, 2, 3, 4}
  BY SMT DEF LockType
<1>2. CASE 4 \in S
  BY <1>1, <1>2, SMT
<1>3. CASE 4 \notin S /\ 3 \in S
  BY <1>1, <1>3, SMT
<1>4. CASE 4 \notin S /\ 3 \notin S /\ 2 \in S
  BY <1>1, <1>4, SMT
<1>5. CASE 4 \notin S /\ 3 \notin S /\ 2 \notin S
  BY <1>1, <1>5, SMT
<1> QED BY <1>2, <1>3, <1>4, <1>5

(* Taking the locks in ascending order prevents deadlock.  If every thread  *)
(* inside the lock routines slept, look at the last data type d some        *)
(* sleeper wants: it is in use (no wake-up is lost), and its holder, asleep *)
(* too, wants a later one.                                                  *)
THEOREM DeadlockFreedom == Spec => []NoDeadlock
<1>1. LocksInv => NoDeadlock
  <2> SUFFICES ASSUME LocksInv,
                      NEW u \in Threads, phase[u] # "out",
                      \A t \in Threads : phase[t] # "out" => t \in asleep
               PROVE  FALSE
    BY DEF NoDeadlock
  <2> USE DEF LocksInv
  <2> DEFINE Wanted == {d \in LockType : \E t \in Threads : t \in asleep /\ NextLock(t, d)}
  <2>1. Wanted # {}
    BY DEF Positions, Position
  <2>2. PICK d \in Wanted : \A e \in Wanted : e <= d
    BY <2>1, LastType
  <2>3. \A t \in Threads : d \notin held[t]
    <3> SUFFICES ASSUME NEW t \in Threads, d \in held[t] PROVE FALSE
      OBVIOUS
    <3>1. t \in asleep /\ phase[t] = "locking"
      BY DEF Positions, Position
    <3>2. PICK e \in LockType : NextLock(t, e)
      BY <3>1 DEF Positions, Position
    <3>3. d < e
      BY <3>1, <3>2 DEF Positions, Position, NextLock
    <3>4. e <= d
      BY <2>2, <3>1, <3>2
    <3> QED BY <3>3, <3>4, SMT DEF LockType
  <2>4. read_lock[d] = 0 /\ write_lock[d] = 0
    <3>1. Readers(d) = {} /\ Writers(d) = {}
      BY <2>3 DEF Readers, Writers, Holds
    <3> QED BY <3>1, FS_EmptySet DEF CountersExact
  <2>5. PICK t \in Threads : t \in asleep /\ NextLock(t, d)
    OBVIOUS
  <2>6. ~CanRead(d) /\ lock_levels[t][d] = READ_LOCK
    BY <2>4, <2>5 DEF NoLostWakeup, CanWrite
  <2>7. write_wait_lock[d] # 0
    BY <2>4, <2>6 DEF CanRead
  <2>8. PICK w \in Threads : announced[w] /\ NextLock(w, d)
    <3>1. WaitingWriters(d) # {}
      BY <2>7, FS_EmptySet DEF CountersExact
    <3> QED BY <3>1 DEF WaitingWriters
  <2>9. w \in asleep /\ lock_levels[w][d] = WRITE_LOCK
    BY <2>8, NextLockUnique DEF Positions, Position
  <2> QED BY <2>4, <2>8, <2>9 DEF NoLostWakeup, CanWrite, READ_LOCK, WRITE_LOCK
<1> QED BY <1>1, LocksInvariant, PTL

(* No reader overtakes a sleeping writer: such a writer is counted in       *)
(* write_wait_lock, which _wr_rdlock requires to be 0.                      *)
THEOREM WriterPriority == Spec => WriterNotOvertaken
<1> DEFINE Fair == \A s, t \in Threads, d \in LockType :
       /\ Holds(s, d, READ_LOCK)' /\ d \notin held[s]
       => ~(t \in asleep /\ NextLock(t, d) /\ lock_levels[t][d] = WRITE_LOCK)
<1>1. LocksInv /\ [Next]_vars => [Fair]_vars
  <2> SUFFICES ASSUME LocksInv, Next,
                      NEW s \in Threads, NEW t \in Threads, NEW d \in LockType,
                      Holds(s, d, READ_LOCK)', d \notin held[s],
                      t \in asleep, NextLock(t, d), lock_levels[t][d] = WRITE_LOCK
               PROVE  FALSE
    OBVIOUS
  <2> USE DEF LocksInv
  <2>1. \E u \in Threads, e \in LockType : wr_rdlock(u, e) \/ wr_wrlock(u, e)
    <3>1. PICK u \in Threads : Call(u) \/ Work(u)
      BY DEF Next
    <3>2. \A e \in LockType : ~wr_rdunlock(u, e) /\ ~wr_wrunlock(u, e)
      BY SMT DEF Holds, wr_rdunlock, wr_wrunlock, TypeOK
    <3>3. ~Call(u) /\ ~unlock_slurmctld(u) /\ ~unlockReturn(u)
      BY DEF Holds, Call, lock_slurmctld, unlock_slurmctld, unlockReturn
    <3> QED BY <3>1, <3>2, <3>3 DEF Work
  <2>2. PICK u \in Threads, e \in LockType : wr_rdlock(u, e) \/ wr_wrlock(u, e)
    BY <2>1
  <2>3. s = u /\ e = d
    BY <2>2, SMT DEF Holds, wr_rdlock, wr_wrlock, TypeOK
  <2>4. wr_rdlock(u, d) /\ CanRead(d)
    BY <2>2, <2>3 DEF Holds, wr_rdlock, wr_wrlock, TypeOK, READ_LOCK, WRITE_LOCK
  <2>5. announced[t]
    BY NextLockUnique DEF Positions, Position, TypeOK
  <2> QED BY <2>4, <2>5, CounterZero DEF CanRead
<1> QED BY <1>1, LocksInvariant, PTL DEF Spec, WriterNotOvertaken
=============================================================================
