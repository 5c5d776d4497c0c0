---------------------------- MODULE SimMgrProofs ----------------------------
(***************************************************************************)
(* sim_mgr for every trace: the lookup of real job ids is exact when ids   *)
(* grow, the simulation begins only with a registered slurmd, and with     *)
(* forked daemons it ends, before its end point, only after every job.     *)
(***************************************************************************)
EXTENDS SimMgr, FiniteSetTheorems, WellFoundedInduction, TLAPS

\* The prover of a leaf that names none.
USE Zenon

\* A non-empty set of natural numbers has a least element; Min returns it.
LEMMA MinOfNaturals ==
  ASSUME NEW S, S \subseteq Nat, S # {}
  PROVE  Min(S) \in S /\ \A i \in S : Min(S) =< i
  <1>1. PICK x \in S : \A y \in S : ~ (<<y, x>> \in OpToRel(<, Nat))
      BY NatLessThanWellFounded, WFMin
  <1>2. \A y \in S : <<y, x>> \in Nat \X Nat  OBVIOUS
  <1>3. \A y \in S : ~ (y < x)
      BY <1>1, <1>2 DEF OpToRel
  <1>4. \A y \in S : x =< y
      BY <1>3, SMT
  <1> QED  BY <1>4 DEF Min

\* The list holds the submitted jobs, newest and largest first.
ListInv ==
  /\ TypeOK
  /\ \A i, k \in 1..Len(job_id_list) :
        i < k => job_id_list[i].trace_job_id > job_id_list[k].trace_job_id
  /\ \A i \in 1..Len(job_id_list) :
        real[job_id_list[i].trace_job_id] = job_id_list[i].real_job_id
  /\ \A t \in TraceIds : real[t] # NoVal =>
        \E i \in 1..Len(job_id_list) : job_id_list[i].trace_job_id = t

\* Putting an element in front moves the others up by one.
LEMMA Prepended ==
  ASSUME NEW S, NEW s \in Seq(S), NEW e \in S
  PROVE  /\ <<e>> \o s \in Seq(S)
         /\ Len(<<e>> \o s) = Len(s) + 1
         /\ (<<e>> \o s)[1] = e
         /\ \A i \in 1..Len(s) : (<<e>> \o s)[i + 1] = s[i]
         /\ \A i \in 2..Len(s) + 1 : (<<e>> \o s)[i] = s[i - 1] /\ i - 1 \in 1..Len(s)
  BY SMT

\* In a list that ListInv describes the walk of _get_real_job_id cannot stop
\* at a smaller id before it reaches the one that is asked for.
LEMMA LookupFromOrder == PairsAssumption /\ ListInv => LookupExact
  <1> SUFFICES ASSUME PairsAssumption, ListInv, NEW t \in TraceIds
               PROVE  _get_real_job_id(job_id_list, t) = real[t]
      BY DEF LookupExact
  <1> DEFINE S == StopsAt(job_id_list, t)
  <1>len. Len(job_id_list) \in Nat
      BY SMT DEF ListInv, TypeOK
  <1>typ. \A i \in 1..Len(job_id_list) : /\ job_id_list[i].trace_job_id \in Nat
                                         /\ job_id_list[i].trace_job_id \in TraceIds
                                         /\ job_id_list[i].real_job_id # NoVal
    <2>1. \A i \in 1..Len(job_id_list) : job_id_list[i] \in Pairs
        BY SMT DEF ListInv, TypeOK
    <2> QED  BY <2>1 DEF Pairs, PairsAssumption
  <1>min. S # {} => Min(S) \in S /\ \A i \in S : Min(S) =< i
    <2>1. S \subseteq Nat  BY <1>len, SMT DEF StopsAt
    <2> QED  BY <2>1, MinOfNaturals
  <1>1. CASE real[t] # NoVal
    <2>1. PICK i \in 1..Len(job_id_list) : job_id_list[i].trace_job_id = t
        BY <1>1 DEF ListInv
    <2>2. i \in S
        BY <2>1, <1>typ, SMT DEF StopsAt
    <2>3. \A k \in S : i =< k
        BY <2>1, <1>typ, <1>len, SMT DEF StopsAt, ListInv
    <2>4. Min(S) = i
      <3>1. Min(S) \in S /\ Min(S) =< i  BY <2>2, <1>min
      <3>2. Min(S) \in Nat  BY <3>1, <1>len, SMT DEF StopsAt
      <3> QED  BY <3>1, <3>2, <2>3, SMT
    <2>5. job_id_list[i].real_job_id = real[t]
        BY <2>1 DEF ListInv
    <2> QED  BY <2>1, <2>2, <2>4, <2>5 DEF _get_real_job_id
  <1>2. CASE real[t] = NoVal
    <2>1. \A i \in 1..Len(job_id_list) : job_id_list[i].trace_job_id # t
        BY <1>2, <1>typ DEF ListInv
    <2>2. S # {} => Min(S) \in 1..Len(job_id_list)
        BY <1>min DEF StopsAt
    <2> QED  BY <2>1, <2>2, <1>2 DEF _get_real_job_id
  <1> QED  BY <1>1, <1>2

\* With ids that grow along the trace every submission keeps ListInv.
LEMMA SubmissionKeepsOrder ==
  ASSUME PairsAssumption, Ordered, ListInv, NEW t \in TraceIds, NEW r \in RealIds,
         generateJob(t, r)
  PROVE  ListInv'
  <1> DEFINE e == [trace_job_id |-> t, real_job_id |-> r]
  <1>1. job_id_list \in Seq(Pairs) /\ e \in Pairs /\ job_id_list' = <<e>> \o job_id_list
      BY DEF ListInv, TypeOK, Pairs, generateJob, _add_job_pair
  <1>2. /\ job_id_list' \in Seq(Pairs) /\ Len(job_id_list') = Len(job_id_list) + 1
        /\ job_id_list'[1] = e
        /\ \A i \in 1..Len(job_id_list) : job_id_list'[i + 1] = job_id_list[i]
        /\ \A i \in 2..Len(job_id_list) + 1 :
              job_id_list'[i] = job_id_list[i - 1] /\ i - 1 \in 1..Len(job_id_list)
      BY <1>1, Prepended, SMT
  <1>3. /\ Len(job_id_list) \in Nat
        /\ \A i \in 1..Len(job_id_list) : /\ job_id_list[i].trace_job_id \in TraceIds
                                          /\ job_id_list[i].trace_job_id < t
    <2>1. \A i \in 1..Len(job_id_list) : job_id_list[i] \in Pairs  BY <1>1, SMT
    <2> QED  BY <1>1, <2>1, SMT DEF generateJob, Pairs
  <1>4. t \in Nat /\ TraceIds \subseteq Nat  BY DEF PairsAssumption
  <1>5. real' = [real EXCEPT ![t] = r] /\ real \in [TraceIds -> RealIds \cup {NoVal}]
      BY DEF generateJob, ListInv, TypeOK
  <1>6. TypeOK'
      BY <1>2, <1>5 DEF TypeOK
  <1>7. \A i, k \in 1..Len(job_id_list') :
           i < k => job_id_list'[i].trace_job_id > job_id_list'[k].trace_job_id
    <2> SUFFICES ASSUME NEW i \in 1..Len(job_id_list'), NEW k \in 1..Len(job_id_list'), i < k
                 PROVE  job_id_list'[i].trace_job_id > job_id_list'[k].trace_job_id
        OBVIOUS
    <2>1. k \in 2..Len(job_id_list) + 1  BY <1>2, <1>3, SMT
    <2>2. CASE i = 1
        BY <2>1, <2>2, <1>2, <1>3, <1>4, SMT
    <2>3. CASE i # 1
      <3>1. i \in 2..Len(job_id_list) + 1  BY <2>3, <1>2, <1>3, SMT
      <3>2. i - 1 < k - 1  BY <3>1, <2>1, <1>3, SMT
      <3>3. job_id_list[i - 1].trace_job_id > job_id_list[k - 1].trace_job_id
          BY <3>1, <3>2, <2>1, <1>2 DEF ListInv
      <3> QED  BY <3>1, <3>3, <2>1, <1>2
    <2> QED  BY <2>2, <2>3
  <1>8. \A i \in 1..Len(job_id_list') :
           real'[job_id_list'[i].trace_job_id] = job_id_list'[i].real_job_id
    <2> SUFFICES ASSUME NEW i \in 1..Len(job_id_list')
                 PROVE  real'[job_id_list'[i].trace_job_id] = job_id_list'[i].real_job_id
        OBVIOUS
    <2>1. CASE i = 1  BY <2>1, <1>2, <1>5, SMT
    <2>2. CASE i # 1
      <3>1. i \in 2..Len(job_id_list) + 1  BY <2>2, <1>2, <1>3, SMT
      <3>2. job_id_list[i - 1].trace_job_id # t  BY <3>1, <1>2, <1>3, <1>4, SMT
      <3>3. real[job_id_list[i - 1].trace_job_id] = job_id_list[i - 1].real_job_id
          BY <3>1, <1>2 DEF ListInv
      <3> QED  BY <3>1, <3>2, <3>3, <1>2, <1>3, <1>5
    <2> QED  BY <2>1, <2>2
  <1>9. \A u \in TraceIds : real'[u] # NoVal =>
           \E i \in 1..Len(job_id_list') : job_id_list'[i].trace_job_id = u
    <2> SUFFICES ASSUME NEW u \in TraceIds, real'[u] # NoVal
                 PROVE  \E i \in 1..Len(job_id_list') : job_id_list'[i].trace_job_id = u
        OBVIOUS
    <2>1. CASE u = t
      <3>1. 1 \in 1..Len(job_id_list') /\ job_id_list'[1].trace_job_id = u
          BY <2>1, <1>2, <1>3, SMT
      <3> QED  BY <3>1
    <2>2. CASE u # t
      <3>1. PICK i \in 1..Len(job_id_list) : job_id_list[i].trace_job_id = u
          BY <2>2, <1>5 DEF ListInv
      <3>2. i + 1 \in 1..Len(job_id_list') /\ job_id_list'[i + 1].trace_job_id = u
          BY <3>1, <1>2, <1>3, SMT
      <3> QED  BY <3>2
    <2> QED  BY <2>1, <2>2
  <1> QED  BY <1>6, <1>7, <1>8, <1>9 DEF ListInv

\* For every trace in which job ids grow, _get_real_job_id finds the real id
\* of each job submitted so far and NO_VAL for every other job.
THEOREM LookupCorrect == Ordered /\ SimSpec => []LookupExact
  <1> SUFFICES ASSUME Ordered PROVE SimSpec => []LookupExact
      OBVIOUS
  <1>1. SimInit => ListInv
      BY PairsAssumption, SMT DEF SimInit, Init, ListInv, TypeOK
  <1>2. ListInv /\ [SimNext]_sim_vars => ListInv'
    <2> SUFFICES ASSUME ListInv, [SimNext]_sim_vars PROVE ListInv'
        OBVIOUS
    <2>1. CASE time_mgr
        BY <2>1, SubmissionKeepsOrder, PairsAssumption DEF time_mgr
    <2>2. CASE UNCHANGED vars
        BY <2>2 DEF ListInv, TypeOK, vars
    <2> QED  BY <2>1, <2>2 DEF SimNext, start_and_end, epilog_complete, sim_vars
  <1>3. ListInv => LookupExact
      BY LookupFromOrder, PairsAssumption
  <1> QED  BY <1>1, <1>2, <1>3, PTL DEF SimSpec

-----------------------------------------------------------------------------
NJobs == Cardinality(TraceIds)

\* What the processes know of each other while they start.
StartInv ==
  /\ Startup!TypeOK
  /\ mgr \in {"fork", "waitpid"} => launch_daemons
  /\ launch_daemons /\ mgr \in {"semaphores", "trace", "fork"} => slurmd = "off"
  /\ slurmd # "up" => slurmd_registered =< 1
  /\ mgr \in {"register", "loop", "last", "ended"} /\ slurmd_registered >= 1 => slurmd = "up"
  /\ mgr \in {"loop", "last", "ended"} => slurmd = "up"

\* If sim_mgr forks the daemons, slurmctld has its copy of the total before
\* the memory is cleared, and -1 in it means that all jobs have finished.
ForkInv ==
  launch_daemons =>
    /\ mgr \in {"semaphores", "trace", "fork"} => slurmctld = "off"
    /\ slurmctld # "up" => mgr \in {"semaphores", "trace", "fork", "waitpid"}
    /\ mgr = "fork" => trace_recs_end_sim = NJobs
    /\ mgr = "waitpid" => slurmctld # "off"
    /\ slurmctld = "starting" => trace_recs_end_sim = NJobs
    /\ slurmctld = "up" => total_log_jobs = NJobs
    /\ mgr \in {"register", "loop", "last", "ended"} /\ trace_recs_end_sim = -1
         => finished = TraceIds
    /\ mgr \in {"last", "ended"} /\ end_point # "reached" => finished = TraceIds

\* The counter is not above the number of jobs that have finished: an
\* increment adds one to a value the counter had when fewer had finished.
CountInv ==
  /\ finished \subseteq TraceIds
  /\ total_epilog_complete_jobs =< Cardinality(finished)

\* The trace has a natural number of jobs.
LEMMA NJobsNat == NJobs \in Nat
  BY PairsAssumption, FS_CardinalityType DEF PairsAssumption, NJobs

\* StartInv holds when sim_mgr is started, whatever an earlier run has left.
LEMMA StartInvInit == SimInit => StartInv /\ ForkInv
  BY NJobsNat, SMT DEF SimInit, Startup!Init, StartInv, ForkInv, Startup!TypeOK, NJobs

\* Every step of sim_mgr and of the daemons keeps StartInv.
LEMMA StartInvNext == StartInv /\ Startup!Next => StartInv'
  <1> SUFFICES ASSUME StartInv, Startup!Next PROVE StartInv'
      OBVIOUS
  <1> USE NJobsNat DEF StartInv, Startup!TypeOK, NJobs
  <1>1. CASE Startup!sim_mgr
    <2>0. CASE Startup!open_semaphores
        BY <2>0 DEF Startup!open_semaphores
    <2>1. CASE Startup!init_job_trace
        BY <2>1 DEF Startup!init_job_trace
    <2>2. CASE Startup!fork_daemons \/ Startup!waitpid
        BY <2>2 DEF Startup!fork_daemons, Startup!waitpid
    <2>3. CASE Startup!ClearSharedMemory
        BY <2>3, SMT DEF Startup!ClearSharedMemory
    <2>4. CASE Startup!RegistrationSeen \/ Startup!EndNoticed
        BY <2>4 DEF Startup!RegistrationSeen, Startup!EndNoticed
    <2>5. CASE Startup!terminate_simulation \/ Startup!EndPointReached
        BY <2>5 DEF Startup!terminate_simulation, Startup!EndPointReached
    <2> QED  BY <1>1, <2>0, <2>1, <2>2, <2>3, <2>4, <2>5 DEF Startup!sim_mgr
  <1>2. CASE Startup!slurmd_main
      BY <1>2, SMT DEF Startup!slurmd_main, Startup!SlurmdDaemonizes, Startup!registration_engine,
                  Startup!notify_sim_mgr, Startup!sim_perform_slurmd_register
  <1>3. CASE Startup!StartSlurmctld \/ Startup!StartSlurmd \/ Startup!ReadTotal
      BY <1>3, SMT DEF Startup!StartSlurmctld, Startup!StartSlurmd, Startup!ReadTotal
  <1>4. CASE Startup!CheckAllFinished \/ Startup!Stopped
      BY <1>4, SMT DEF Startup!CheckAllFinished, Startup!Stopped, Startup!vars
  <1>5. CASE Startup!JobFinishes
      BY <1>5, SMT DEF Startup!JobFinishes
  <1> QED  BY <1>1, <1>2, <1>3, <1>4, <1>5 DEF Startup!Next, Startup!StartOrEnd

\* Every step keeps CountInv: only the epilog of a job raises the counter,
\* and it puts one more job among the finished ones.
LEMMA CountInvNext == StartInv /\ CountInv /\ SimNext => CountInv'
  <1> SUFFICES ASSUME StartInv, CountInv, SimNext PROVE CountInv'
      OBVIOUS
  <1>1. ASSUME NEW t \in TraceIds, epilog_complete(t)
        PROVE  CountInv'
    <2>1. IsFiniteSet(finished)
        BY PairsAssumption, FS_Subset DEF PairsAssumption, CountInv
    <2>2. t \notin finished /\ finished' = finished \cup {t}
        BY <1>1 DEF epilog_complete
    <2>3. Cardinality(finished') = Cardinality(finished) + 1 /\ Cardinality(finished) \in Nat
        BY <2>1, <2>2, FS_AddElement, FS_CardinalityType
    <2>4. total_epilog_complete_jobs' \in 1..total_epilog_complete_jobs + 1
        BY <1>1 DEF epilog_complete, Startup!JobFinishes
    <2>5. total_epilog_complete_jobs \in Nat
        BY DEF StartInv, Startup!TypeOK
    <2>6. total_epilog_complete_jobs =< Cardinality(finished)
        BY DEF CountInv
    <2>7. total_epilog_complete_jobs' =< Cardinality(finished')
        BY <2>3, <2>4, <2>5, <2>6, SMT
    <2> QED  BY <2>2, <2>7 DEF CountInv
  <1>2. UNCHANGED <<finished, total_epilog_complete_jobs>> => CountInv'
      BY DEF CountInv
  <1>3. time_mgr => UNCHANGED <<finished, total_epilog_complete_jobs>>
      BY DEF time_mgr, startup_vars
  <1>4. start_and_end => UNCHANGED <<finished, total_epilog_complete_jobs>>
      BY DEF start_and_end, Startup!StartOrEnd, Startup!sim_mgr, Startup!open_semaphores,
             Startup!init_job_trace, Startup!fork_daemons, Startup!waitpid,
             Startup!ClearSharedMemory, Startup!RegistrationSeen, Startup!EndNoticed,
             Startup!terminate_simulation, Startup!EndPointReached, Startup!slurmd_main,
             Startup!SlurmdDaemonizes, Startup!registration_engine, Startup!notify_sim_mgr,
             Startup!sim_perform_slurmd_register, Startup!StartSlurmctld, Startup!StartSlurmd,
             Startup!ReadTotal, Startup!CheckAllFinished, Startup!Stopped, Startup!vars
  <1> QED  BY <1>1, <1>2, <1>3, <1>4 DEF SimNext

\* The counter is at the number of jobs only when all of them have finished.
LEMMA CountedAll ==
  ASSUME StartInv, CountInv, total_epilog_complete_jobs = NJobs
  PROVE  finished = TraceIds
  <1>1. finished \subseteq TraceIds /\ IsFiniteSet(TraceIds)
      BY PairsAssumption DEF CountInv, PairsAssumption
  <1>2. /\ IsFiniteSet(finished) /\ Cardinality(finished) =< Cardinality(TraceIds)
        /\ Cardinality(finished) = Cardinality(TraceIds) => finished = TraceIds
      BY <1>1, FS_Subset
  <1>3. Cardinality(TraceIds) =< Cardinality(finished)
      BY DEF CountInv, NJobs
  <1>4. Cardinality(finished) \in Nat /\ Cardinality(TraceIds) \in Nat
      BY <1>1, <1>2, FS_CardinalityType
  <1> QED  BY <1>2, <1>3, <1>4, SMT

\* Every step of sim_mgr and of the daemons keeps ForkInv.
LEMMA ForkInvNext == StartInv /\ ForkInv /\ CountInv /\ SimNext => ForkInv'
  <1> SUFFICES ASSUME StartInv, ForkInv, CountInv, SimNext PROVE ForkInv'
      OBVIOUS
  <1> USE NJobsNat DEF StartInv, ForkInv, Startup!TypeOK, NJobs
  <1>1. CASE UNCHANGED finished /\ Startup!sim_mgr
    <2>0. CASE Startup!open_semaphores
        BY <1>1, <2>0 DEF Startup!open_semaphores
    <2>1. CASE Startup!init_job_trace
        BY <1>1, <2>1 DEF Startup!init_job_trace
    <2>2. CASE Startup!fork_daemons \/ Startup!waitpid
        BY <1>1, <2>2 DEF Startup!fork_daemons, Startup!waitpid
    <2>3. CASE Startup!ClearSharedMemory
        BY <1>1, <2>3, SMT DEF Startup!ClearSharedMemory
    <2>4. CASE Startup!RegistrationSeen \/ Startup!EndNoticed
        BY <1>1, <2>4 DEF Startup!RegistrationSeen, Startup!EndNoticed
    <2>5. CASE Startup!terminate_simulation \/ Startup!EndPointReached
        BY <1>1, <2>5 DEF Startup!terminate_simulation, Startup!EndPointReached
    <2> QED  BY <1>1, <2>0, <2>1, <2>2, <2>3, <2>4, <2>5 DEF Startup!sim_mgr
  <1>2. CASE UNCHANGED finished /\ Startup!slurmd_main
      BY <1>2 DEF Startup!slurmd_main, Startup!SlurmdDaemonizes, Startup!registration_engine,
                  Startup!notify_sim_mgr, Startup!sim_perform_slurmd_register
  <1>3. CASE UNCHANGED finished /\ (Startup!StartSlurmctld \/ Startup!StartSlurmd
                                    \/ Startup!ReadTotal)
      BY <1>3 DEF Startup!StartSlurmctld, Startup!StartSlurmd, Startup!ReadTotal
  <1>4. CASE UNCHANGED finished /\ Startup!CheckAllFinished
    <2>1. launch_daemons => total_log_jobs = NJobs
        BY <1>4 DEF Startup!CheckAllFinished
    <2>2. launch_daemons => finished = TraceIds
        BY <1>4, <2>1, CountedAll DEF Startup!CheckAllFinished
    <2> QED  BY <1>4, <2>2 DEF Startup!CheckAllFinished
  <1>5. ASSUME NEW t \in TraceIds, epilog_complete(t)
        PROVE  ForkInv'
    <2>1. finished = TraceIds => finished' = TraceIds
        BY <1>5 DEF epilog_complete
    <2> QED  BY <1>5, <2>1 DEF epilog_complete, Startup!JobFinishes
  <1>6. CASE UNCHANGED <<startup_vars, finished>>
      BY <1>6 DEF startup_vars
  <1>7. Startup!Stopped => UNCHANGED startup_vars
      BY DEF Startup!Stopped, Startup!vars, startup_vars
  <1> QED  BY <1>1, <1>2, <1>3, <1>4, <1>5, <1>6, <1>7
           DEF SimNext, time_mgr, start_and_end, Startup!StartOrEnd

\* What is known of the start, of forked daemons and of the counter.
SimInv == TypeOK /\ StartInv /\ ForkInv /\ CountInv

\* A submission keeps the type of the table.
LEMMA TypeOKNext == TypeOK /\ [SimNext]_sim_vars => TypeOK'
  <1> SUFFICES ASSUME TypeOK, [SimNext]_sim_vars PROVE TypeOK'
      OBVIOUS
  <1>1. ASSUME NEW t \in TraceIds, NEW r \in RealIds, generateJob(t, r)
        PROVE  TypeOK'
    <2> DEFINE e == [trace_job_id |-> t, real_job_id |-> r]
    <2>1. job_id_list \in Seq(Pairs) /\ e \in Pairs /\ job_id_list' = <<e>> \o job_id_list
        BY <1>1 DEF TypeOK, Pairs, generateJob, _add_job_pair
    <2>2. job_id_list' \in Seq(Pairs)
        BY <2>1, Prepended
    <2>3. real' \in [TraceIds -> RealIds \cup {NoVal}]
        BY <1>1 DEF TypeOK, generateJob
    <2> QED  BY <2>2, <2>3 DEF TypeOK
  <1>2. CASE UNCHANGED vars
      BY <1>2 DEF TypeOK, vars
  <1> QED  BY <1>1, <1>2 DEF SimNext, time_mgr, start_and_end, epilog_complete, sim_vars

\* SimInv is an invariant of sim_mgr with slurmctld and slurmd.
LEMMA SimInvariant == SimSpec => []SimInv
  <1>1. SimInit => SimInv
    <2> SUFFICES ASSUME SimInit PROVE SimInv
        OBVIOUS
    <2>1. TypeOK
        BY SMT DEF SimInit, Init, TypeOK
    <2>2. CountInv
        BY FS_EmptySet, SMT DEF SimInit, Startup!Init, CountInv
    <2> QED  BY <2>1, <2>2, StartInvInit DEF SimInv
  <1>2. SimInv /\ [SimNext]_sim_vars => SimInv'
    <2> SUFFICES ASSUME SimInv, [SimNext]_sim_vars PROVE SimInv'
        OBVIOUS
    <2>1. TypeOK'
        BY TypeOKNext DEF SimInv
    <2>2. UNCHANGED startup_vars => StartInv'
        BY SMT DEF SimInv, StartInv, Startup!TypeOK, startup_vars, NJobs
    <2>3. SimNext => StartInv'
        BY <2>2, StartInvNext
        DEF SimInv, SimNext, time_mgr, start_and_end, epilog_complete, Startup!Next
    <2>4. UNCHANGED <<startup_vars, finished>> => (ForkInv /\ CountInv)'
      <3> SUFFICES ASSUME UNCHANGED <<startup_vars, finished>> PROVE (ForkInv /\ CountInv)'
          OBVIOUS
      <3>1. ForkInv'  BY DEF SimInv, ForkInv, startup_vars, NJobs
      <3>2. CountInv'  BY DEF SimInv, CountInv, startup_vars
      <3> QED  BY <3>1, <3>2
    <2>5. SimNext => (ForkInv /\ CountInv)'
        BY ForkInvNext, CountInvNext DEF SimInv
    <2> QED  BY <2>1, <2>2, <2>3, <2>4, <2>5 DEF SimInv, sim_vars
  <1> QED  BY <1>1, <1>2, PTL DEF SimSpec

\* Types of sim_mgr's table and of what the processes share, for any trace.
THEOREM SimTypeCorrect == SimSpec => []SimTypeOK
  <1>1. SimInv => SimTypeOK
      BY DEF SimInv, StartInv, CountInv, SimTypeOK
  <1> QED  BY <1>1, SimInvariant, PTL

\* time_mgr enters its loop only when slurmd has registered in this run,
\* whatever an earlier run has left in the shared memory.
THEOREM SlurmdRegistered == SimSpec => []SlurmdPresent
  <1>1. SimInv => SlurmdPresent
      BY DEF SimInv, StartInv, SlurmdPresent, Startup!SlurmdPresent
  <1> QED  BY <1>1, SimInvariant, PTL

\* When sim_mgr forks the daemons the simulation ends before its end point
\* only after every job of the trace was submitted and has finished, for
\* every trace and however the increments of the counter interleave.
THEOREM EndAfterAllJobs == SimSpec => []EndComplete
  <1>1. SimInv => EndComplete
      BY DEF SimInv, ForkInv, EndComplete, EndNotPremature
  <1> QED  BY <1>1, SimInvariant, PTL
=============================================================================
