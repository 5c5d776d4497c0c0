-------------------------- MODULE SimLockstepProofs --------------------------
(***************************************************************************)
(* SimLockstep for every trace, cluster size, number of timeouts and order *)
(* of steps: the list of completions stays ordered, the types hold, the    *)
(* hand-over between sim_mgr, slurmd and slurmctld is safe, no work is     *)
(* forgotten and the simulation is not ended too early.  A step is         *)
(* analysed once per group of variables: a step ...Writers says which      *)
(* actions write the group, a lemma ...Step goes through those.            *)
(***************************************************************************)
EXTENDS SimLockstep, WellFoundedInduction, FiniteSetTheorems, TLAPS

\* The prover of a leaf that names none.
USE Zenon

-----------------------------------------------------------------------------
(* The list of completions                                                 *)

\* A non-empty set of natural numbers has a least element; Min returns it.
LEMMA MinOfNaturals ==
  ASSUME NEW S, S \subseteq Nat, S # {}
  PROVE  Min(S) \in S /\ \A i \in S : Min(S) =< i
  <1>1. PICK x \in S : \A y \in S : ~ (<<y, x>> \in OpToRel(<, Nat))
      BY NatLessThanWellFounded, WFMin
  <1>2. \A y \in S : <<y, x>> \in Nat \X Nat  OBVIOUS
  <1>3. \A y \in S : ~ (y < x)
      BY <1>1, <1>2 DEF OpToRel
  <1>4. \A y \in S : x =< y
      BY <1>3, SMT
  <1> QED  BY <1>4 DEF Min

\* The entries of a list of completions.
LEMMA EventsOf ==
  ASSUME NEW J, NEW list \in Seq(Event(J))
  PROVE  /\ Len(list) \in Nat
         /\ \A i \in 1..Len(list) : list[i] \in Event(J) /\ list[i].when \in Nat
  <1>1. Len(list) \in Nat /\ \A i \in 1..Len(list) : list[i] \in Event(J)  BY SMT
  <1> QED  BY <1>1 DEF Event

\* What LinkAt does to each position of a list.
LEMMA Inserted ==
  ASSUME NEW S, NEW s \in Seq(S), NEW e \in S, NEW p \in 1..Len(s) + 1
  PROVE  /\ LinkAt(s, p, e) \in Seq(S)
         /\ Len(LinkAt(s, p, e)) = Len(s) + 1
         /\ LinkAt(s, p, e)[p] = e
         /\ \A i \in 1..p - 1 : LinkAt(s, p, e)[i] = s[i]
         /\ \A i \in p + 1..Len(s) + 1 : LinkAt(s, p, e)[i] = s[i - 1]
  <1> DEFINE left == SubSeq(s, 1, p - 1)
             right == SubSeq(s, p, Len(s))
  <1>1. Len(s) \in Nat /\ p \in Nat  BY SMT
  <1>2. /\ left \in Seq(S) /\ Len(left) = p - 1
        /\ \A i \in 1..p - 1 : left[i] = s[i]
      BY <1>1, SMT
  <1>3. /\ right \in Seq(S) /\ Len(right) = Len(s) - p + 1
        /\ \A i \in 1..Len(s) - p + 1 : right[i] = s[p + i - 1]
      BY <1>1, SMT
  <1> HIDE DEF left, right
  <1>4. <<e>> \in Seq(S) /\ Len(<<e>>) = 1 /\ <<e>>[1] = e  BY SMT
  <1> DEFINE front == left \o <<e>>
  <1>5. /\ front \in Seq(S) /\ Len(front) = p
        /\ front[p] = e
        /\ \A i \in 1..p - 1 : front[i] = s[i]
      BY <1>1, <1>2, <1>4, SMT
  <1> HIDE DEF front
  <1>6. LinkAt(s, p, e) = front \o right
      BY DEF LinkAt, front, left, right
  <1>7. /\ front \o right \in Seq(S) /\ Len(front \o right) = Len(s) + 1
        /\ \A i \in 1..p : (front \o right)[i] = front[i]
        /\ \A i \in p + 1..Len(s) + 1 : (front \o right)[i] = right[i - p]
      BY <1>1, <1>3, <1>5, SMT
  <1>8. \A i \in p + 1..Len(s) + 1 : right[i - p] = s[i - 1]
      BY <1>1, <1>3, SMT
  <1> QED  BY <1>1, <1>5, <1>6, <1>7, <1>8, SMT

\* The walk stops within the list or right behind it, everything in front of
\* the place is not later and what follows directly is not earlier.
LEMMA PositionFound ==
  ASSUME NEW J, NEW list \in Seq(Event(J)), NEW when \in Nat
  PROVE  /\ InsertPosition(list, when) \in 1..Len(list) + 1
         /\ \A i \in 1..InsertPosition(list, when) - 1 : list[i].when =< when
         /\ InsertPosition(list, when) =< Len(list) =>
              list[InsertPosition(list, when)].when >= when
  <1> DEFINE T == {i \in 2..Len(list) : list[i].when >= when} \cup {Len(list) + 1}
             p == InsertPosition(list, when)
  <1>1. /\ Len(list) \in Nat /\ T \subseteq 1..Len(list) + 1 /\ T # {}
        /\ \A i \in 1..Len(list) : list[i].when \in Nat
    <2>1. Len(list) \in Nat /\ \A i \in 1..Len(list) : list[i].when \in Nat
        BY EventsOf
    <2>2. T \subseteq 1..Len(list) + 1 /\ Len(list) + 1 \in T  BY <2>1, SMT
    <2> QED  BY <2>1, <2>2
  <1>2. Min(T) \in T /\ \A i \in T : Min(T) =< i
    <2>1. T \subseteq Nat  BY <1>1, SMT
    <2> HIDE DEF T
    <2> QED  BY <2>1, <1>1, MinOfNaturals
  <1>3. CASE list # <<>> /\ Head(list).when > when
    <2>1. p = 1  BY <1>3 DEF InsertPosition
    <2>2. Head(list) = list[1] /\ Len(list) >= 1  BY <1>3, SMT
    <2>3. list[1].when >= when  BY <1>3, <2>2, <1>1, SMT
    <2> QED  BY <2>1, <2>3, <1>1, SMT
  <1>4. CASE list # <<>> /\ ~ (Head(list).when > when)
    <2>1. p = Min(T)  BY <1>4 DEF InsertPosition
    <2>2. Head(list) = list[1] /\ Len(list) >= 1  BY <1>4, SMT
    <2>3. list[1].when =< when  BY <1>4, <2>2, <1>1, SMT
    <2> HIDE DEF p
    <2>4. p \in 1..Len(list) + 1  BY <2>1, <1>1, <1>2
    <2>5. \A i \in 2..p - 1 : i \notin T
      <3> HIDE DEF T
      <3>1. \A i \in T : p =< i  BY <2>1, <1>2
      <3> QED  BY <3>1, <2>4, <1>1, SMT
    <2>6. \A i \in 2..p - 1 : list[i].when =< when
      <3> SUFFICES ASSUME NEW i \in 2..p - 1 PROVE list[i].when =< when
          OBVIOUS
      <3>1. i \in 2..Len(list) /\ i \notin T  BY <2>4, <2>5, <1>1, SMT
      <3>2. ~ (list[i].when >= when)  BY <3>1
      <3> QED  BY <3>1, <3>2, <1>1, SMT
    <2>7. \A i \in 1..p - 1 : list[i].when =< when  BY <2>3, <2>4, <2>6, <1>1, SMT
    <2>8. p =< Len(list) => list[p].when >= when  BY <2>1, <2>4, <1>1, <1>2, SMT
    <2> QED  BY <2>4, <2>7, <2>8 DEF p
  <1>5. CASE list = <<>>
    <2>1. Len(list) = 0  BY <1>5
    <2>2. p = Min(T)  BY <1>5 DEF InsertPosition
    <2>3. Min(T) = 1  BY <2>1, <1>1, <1>2, SMT
    <2> QED  BY <2>1, <2>2, <2>3, SMT
  <1> QED  BY <1>3, <1>4, <1>5

\* simulator_add_future_event keeps the list of completions ordered.
THEOREM AddKeepsOrder ==
  ASSUME NEW J, NEW list \in Seq(Event(J)), NEW event \in Event(J)
  PROVE  /\ simulator_add_future_event(list, event) \in Seq(Event(J))
         /\ IsOrdered(list) => IsOrdered(simulator_add_future_event(list, event))
  <1> DEFINE p == InsertPosition(list, event.when)
             new == simulator_add_future_event(list, event)
  <1>1. /\ p \in 1..Len(list) + 1
        /\ \A i \in 1..p - 1 : list[i].when =< event.when
        /\ p =< Len(list) => list[p].when >= event.when
    <2>1. event.when \in Nat  BY DEF Event
    <2> QED  BY <2>1, PositionFound
  <1> HIDE DEF p
  <1>2. new = LinkAt(list, p, event)  BY DEF simulator_add_future_event, p
  <1> HIDE DEF new
  <1>3. /\ new \in Seq(Event(J))
        /\ Len(new) = Len(list) + 1
        /\ new[p] = event
        /\ \A i \in 1..p - 1 : new[i] = list[i]
        /\ \A i \in p + 1..Len(list) + 1 : new[i] = list[i - 1]
      BY <1>1, <1>2, Inserted, SMT
  <1>4. /\ Len(list) \in Nat /\ p \in Nat /\ event.when \in Nat
        /\ \A i \in 1..Len(list) : list[i].when \in Nat
    <2>1. event.when \in Nat  BY DEF Event
    <2> QED  BY <2>1, <1>1, EventsOf, SMT
  <1>5. ASSUME IsOrdered(list) PROVE IsOrdered(new)
    <2>1. \A i, k \in 1..Len(list) : i < k => list[i].when =< list[k].when
        BY <1>5 DEF IsOrdered
    <2>2. \A k \in p..Len(list) : event.when =< list[k].when
        BY <2>1, <1>1, <1>4, SMT
    <2> SUFFICES ASSUME NEW i \in 1..Len(list) + 1, NEW k \in 1..Len(list) + 1, i < k
                 PROVE  new[i].when =< new[k].when
        BY <1>3 DEF IsOrdered
    <2>3. CASE k < p
      <3>1. i \in 1..p - 1 /\ k \in 1..p - 1 /\ i \in 1..Len(list) /\ k \in 1..Len(list)
          BY <2>3, <1>1, <1>4, SMT
      <3>2. new[i] = list[i] /\ new[k] = list[k]  BY <3>1, <1>3
      <3> QED  BY <3>1, <3>2, <2>1
    <2>4. CASE k = p
      <3>1. i \in 1..p - 1  BY <2>4, <1>4, SMT
      <3> QED  BY <3>1, <2>4, <1>1, <1>3
    <2>5. CASE k > p
      <3>1. k \in p + 1..Len(list) + 1 /\ new[k] = list[k - 1] /\ k - 1 \in p..Len(list)
          BY <2>5, <1>3, <1>4, SMT
      <3>2. CASE i < p
        <4>1. new[i] = list[i] /\ i \in 1..Len(list) /\ k - 1 \in 1..Len(list) /\ i < k - 1
            BY <3>1, <3>2, <1>1, <1>3, <1>4, SMT
        <4> QED  BY <4>1, <3>1, <2>1
      <3>3. CASE i = p
          BY <3>1, <3>3, <2>2, <1>3
      <3>4. CASE i > p
        <4>1. /\ i \in p + 1..Len(list) + 1 /\ i - 1 \in 1..Len(list)
              /\ k - 1 \in 1..Len(list) /\ i - 1 < k - 1
            BY <3>1, <3>4, <1>1, <1>4, SMT
        <4>2. new[i] = list[i - 1]  BY <4>1, <1>3
        <4> QED  BY <4>1, <4>2, <3>1, <2>1
      <3> QED  BY <3>2, <3>3, <3>4, <1>4, SMT
    <2> QED  BY <2>3, <2>4, <2>5, <1>4, SMT
  <1> QED  BY <1>3, <1>5 DEF new

\* Taking the first completion off the list keeps it ordered.
LEMMA TailKeepsOrder ==
  ASSUME NEW J, NEW list \in Seq(Event(J)), list # <<>>
  PROVE  /\ Tail(list) \in Seq(Event(J))
         /\ IsOrdered(list) => IsOrdered(Tail(list))
         /\ Head(list).job \in J
  <1>1. /\ Tail(list) \in Seq(Event(J)) /\ Len(Tail(list)) = Len(list) - 1
        /\ Len(list) \in Nat /\ Head(list) \in Event(J)
        /\ \A i \in 1..Len(list) - 1 : Tail(list)[i] = list[i + 1]
      BY SMT
  <1>2. Head(list).job \in J  BY <1>1 DEF Event
  <1>3. ASSUME IsOrdered(list), NEW i \in 1..Len(list) - 1, NEW k \in 1..Len(list) - 1, i < k
        PROVE  Tail(list)[i].when =< Tail(list)[k].when
    <2>1. i + 1 \in 1..Len(list) /\ k + 1 \in 1..Len(list) /\ i + 1 < k + 1  BY <1>1, <1>3, SMT
    <2>2. list[i + 1].when =< list[k + 1].when  BY <2>1, <1>3 DEF IsOrdered
    <2> QED  BY <2>2, <1>1
  <1>4. IsOrdered(list) => IsOrdered(Tail(list))  BY <1>1, <1>3 DEF IsOrdered
  <1> QED  BY <1>1, <1>2, <1>4

-----------------------------------------------------------------------------
(* The inductive invariant                                                 *)

\* One message of the helper is outstanding, in the slot of this attempt;
\* the slots of later attempts are empty.
SlotsOK ==
  /\ \A k \in Slots : k > timeouts => complete[k] = "none" /\ cycle[k] = "none"
  /\ cycle[timeouts] # "none" <=> helper = "cycle"
  /\ complete[timeouts] # "none" <=> helper = "complete"
  /\ \A k \in Slots : complete[k] # "none" => complete_job[k] \in Jobs

\* Only the job that time_mgr is submitting can be new to slurmctld.
SubmissionOK ==
  /\ mgr \in {"submitting", "sim_job", "bad_sim_job"} => trace_head =< NJobs
  /\ \A j \in Jobs : submit[j] = "arrived" => mgr = "submitting" /\ j = trace_head
  /\ \A j \in Jobs : job_state[j] # "none" \/ submit[j] = "queue" =>
        j < trace_head \/ (j = trace_head /\ mgr = "sim_job")

\* A job is completing when the agent is about to tell slurmd so and until
\* its epilog is processed, which makes it done for good.
EpilogsOK ==
  \A j \in Jobs :
    /\ epilog[j] = "arrived" => job_state[j] = "COMPLETING"
    /\ epilog[j] \notin {"none", "arrived"} => job_state[j] = "DONE"
    /\ terminate[j] \in {"queued", "killed"} => job_state[j] = "COMPLETING" /\ epilog[j] = "none"

\* The part of the invariant that the types depend on.
Base == TypeOK /\ SlotsOK /\ SubmissionOK /\ EpilogsOK

-----------------------------------------------------------------------------
(* Types                                                                   *)

MgrType ==
  /\ mgr \in {"loop", "trace", "submitting", "sim_job", "bad_sim_job", "wait", "exited"}
  /\ trace_head \in 1..NJobs + 1
  /\ time_end \in BOOLEAN
  /\ current_sim \in Nat
  /\ trace_recs_end_sim \in {NJobs, -1}

HelperType ==
  /\ slurm_sem \in Nat /\ sim_sem \in Nat
  /\ helper \in {"sleep", "scan", "complete", "epilogs", "cycle", "dead"}
  /\ now \in Nat /\ jobs_ended \in Nat /\ tries \in Nat
  /\ waiting_epilog_msgs \in Int

CounterType ==
  /\ mutex_bf \in Nat /\ mutex_bf_done \in Nat
  /\ backfill \in {"sleep", "lock", "run"}
  /\ total_finished_jobs \in Nat /\ arrived_jobs_epilogs \in Nat
  /\ total_epilog_complete_jobs \in Nat /\ total_read \in [Jobs -> Nat]
  /\ job_sched_cnt \in Nat /\ last_helper_backfill_time \in Nat

JobType ==
  /\ completed \subseteq Jobs
  /\ info \in [Jobs -> Nat \cup {-1}]
  /\ job_state \in [Jobs -> {"none", "PENDING", "RUNNING", "COMPLETING", "DONE"}]
  /\ start_time \in [Jobs -> Nat]
  /\ submit \in [Jobs -> {"none", "arrived", "queue"}]
  /\ terminate \in [Jobs -> {"none", "queued", "killed", "epilog", "replied"}]
  /\ epilog \in [Jobs -> {"none", "arrived", "queue", "reply", "count", "read", "write"}]
  /\ launch \in [Jobs -> {"none", "arrived", "add"}]

EventType == events \in Seq(Event(Jobs))

SlotType ==
  /\ complete \in [Slots -> {"none", "arrived", "lock", "reply"}]
  /\ complete_job \in [Slots -> Jobs \cup {0}]
  /\ cycle \in [Callers -> {"none", "finished", "epilogs", "sched", "reset", "wait", "call", "go",
                            "defer", "lock", "schedule", "fini", "clear", "bf", "bf_wait", "reply"}]
  /\ sched_running \in BOOLEAN /\ sched_job_limit \in Int /\ job_depth \in Int
  /\ total_jobs_ended \in [Slots -> Nat] /\ current_time \in [Slots -> Nat]
  /\ timeouts \in Slots

\* The agent is no RPC thread.
LEMMA CallerFacts ==
  /\ Slots \subseteq Callers /\ Agent \in Callers /\ Agent \notin Slots
  /\ 0 \in Slots /\ Slots \subseteq Nat
  /\ \A t \in Callers : t \in Slots \/ t = Agent
  BY LockstepAssumption, SMT DEF Slots, Callers, Agent

\* A job is started by the scheduler, which counts, or by the backfill agent.
Starts(j) == StartJob(j) /\ job_depth' \in {job_depth, job_depth - 1}

\* The type invariant, split by the threads that write the variables.
LEMMA TypeParts ==
  TypeOK <=> MgrType /\ HelperType /\ CounterType /\ JobType /\ EventType /\ SlotType
  BY DEF TypeOK, MgrType, HelperType, CounterType, JobType, EventType, SlotType

\* The steps of the threads, one by one.
LEMMA StepCases ==
  ASSUME Next
  PROVE  \/ LoopTop \/ generateJob \/ rpc_sim_job \/ rpc_sim_job_uninitialised \/
            PostSlurmSem \/ WaitSimSem \/ terminate_simulation \/ WaitSlurmSem \/
            EndJob \/ NoJobEnded \/ AllJobsEnded \/ EpilogsFinished \/ RetryComplete
            \/ GiveUpComplete \/ RetryCycle \/ GiveUpCycle \/ AgentWakes \/ AgentExits
            \/ BackfillWakes \/ BackfillLocks \/ BackfillReturns \/ job_time_limit \/
            CheckAllFinished \/ Stopped
         \/ \E j \in Jobs : submit_batch_job(j) \/ SubmitQueuesScheduler(j) \/
              epilog_complete(j) \/ EpilogQueuesScheduler(j) \/ EpilogReplies(j) \/
              EpilogCounts(j) \/ EpilogReadsTotal(j) \/ EpilogWritesTotal(j) \/
              simulator_rpc_terminate_job(j) \/ TerminateFinishes(j) \/
              rpc_timelimit(j) \/ simulator_rpc_batch_job(j) \/ AddEvent(j) \/
              Starts(j)
         \/ \E k \in Slots : complete_batch_script(k) \/ job_complete(k) \/
              CompleteReplies(k) \/ CompletedJobsArrived(k) \/ EpilogsArrived(k) \/
              get_scheduler_cnt(k) \/ reset_scheduler_cnt(k) \/ do_backfill(k) \/
              BackfillWaited(k) \/ CycleReplies(k)
         \/ \E t \in Callers : ScheduleChecks(t) \/ ScheduleBegins(t) \/
              ScheduleDefers(t) \/ schedule(t) \/ ScheduleReturns(t) \/
              ScheduleEnds(t)
  BY CallerFacts DEF Next, time_mgr, simulator_helper, Timeout, JobThreads, CompleteThread,
         sim_helper_cycle, sched_agent, Scheduler, backfill_agent,
         ScheduleStarts, BackfillStarts, Starts

\* time_mgr keeps its types.
LEMMA MgrStep ==
  ASSUME MgrType, SubmissionOK, Next
  PROVE  MgrType'
  \* Who writes the clock, the position in the trace and the end signal.
  <1>MgrWriters. \/ UNCHANGED <<mgr, trace_head, time_end, current_sim, trace_recs_end_sim>>
                 \/ LoopTop \/ generateJob \/ rpc_sim_job \/ rpc_sim_job_uninitialised \/
                    PostSlurmSem \/ WaitSimSem \/ terminate_simulation \/ CheckAllFinished
                 \/ \E j \in Jobs : submit_batch_job(j)
    <2> USE DEF mgr_vars, sem_vars, helper_vars, slurmd_vars, job_vars, count_vars,
             sched_vars, bf_vars, rpc_vars, slot_vars, complete_vars, cycle_vars,
             run_vars
    <2>1. ASSUME WaitSlurmSem \/ EndJob \/ NoJobEnded \/ AllJobsEnded \/ EpilogsFinished
                 \/ RetryComplete \/ GiveUpComplete \/ RetryCycle \/ GiveUpCycle \/
                 AgentWakes \/ AgentExits \/ BackfillWakes \/ BackfillLocks \/
                 BackfillReturns \/ job_time_limit \/ Stopped
          PROVE  UNCHANGED <<mgr, trace_head, time_end, current_sim,
                 trace_recs_end_sim>>
        BY <2>1 DEF WaitSlurmSem, EndJob, NoJobEnded, SendCycle, AllJobsEnded,
           EpilogsFinished, RetryComplete, MessageTimesOut, Expired, GiveUpComplete,
           RetryCycle, GiveUpCycle, AgentWakes, At, Moves, AgentExits, BackfillWakes,
           BackfillLocks, BackfillReturns, job_time_limit, Stopped, vars
    <2>2. ASSUME NEW j \in Jobs, SubmitQueuesScheduler(j) \/ epilog_complete(j) \/
                 EpilogQueuesScheduler(j) \/ EpilogReplies(j) \/ EpilogCounts(j) \/
                 EpilogReadsTotal(j) \/ EpilogWritesTotal(j) \/
                 simulator_rpc_terminate_job(j) \/ TerminateFinishes(j) \/
                 rpc_timelimit(j) \/ simulator_rpc_batch_job(j) \/ AddEvent(j) \/
                 Starts(j)
          PROVE  UNCHANGED <<mgr, trace_head, time_end, current_sim,
                 trace_recs_end_sim>>
        BY <2>2 DEF SubmitQueuesScheduler, epilog_complete,
           EpilogQueuesScheduler, EpilogReplies, EpilogCounts, EpilogReadsTotal,
           EpilogWritesTotal, simulator_rpc_terminate_job, TerminateFinishes,
           rpc_timelimit, simulator_rpc_batch_job, AddEvent, Starts, StartJob
    <2>3. ASSUME NEW k \in Slots, complete_batch_script(k) \/ job_complete(k) \/
                 CompleteReplies(k) \/ CompletedJobsArrived(k) \/ EpilogsArrived(k) \/
                 get_scheduler_cnt(k) \/ reset_scheduler_cnt(k) \/ do_backfill(k) \/
                 BackfillWaited(k) \/ CycleReplies(k)
          PROVE  UNCHANGED <<mgr, trace_head, time_end, current_sim,
                 trace_recs_end_sim>>
        BY <2>3 DEF complete_batch_script, job_complete, CompleteReplies,
           CompletedJobsArrived, At, Moves, EpilogsArrived, get_scheduler_cnt,
           reset_scheduler_cnt, do_backfill, BackfillWaited, CycleReplies
    <2>4. ASSUME NEW t \in Callers, ScheduleChecks(t) \/ ScheduleBegins(t) \/
                 ScheduleDefers(t) \/ schedule(t) \/ ScheduleReturns(t) \/
                 ScheduleEnds(t)
          PROVE  UNCHANGED <<mgr, trace_head, time_end, current_sim,
                 trace_recs_end_sim>>
        BY <2>4 DEF ScheduleChecks, At, Moves, ScheduleBegins, NewJobLimit,
           ScheduleDefers, After, schedule, ScheduleReturns, ScheduleEnds
    <2> QED  BY StepCases, <2>1, <2>2, <2>3, <2>4
  <1> USE LockstepAssumption DEF mgr_vars, sem_vars, helper_vars, slurmd_vars,
           job_vars, count_vars, sched_vars, bf_vars, rpc_vars, slot_vars,
           complete_vars, cycle_vars, run_vars
  <1>1. CASE LoopTop
      BY <1>1 DEF LoopTop, MgrType, SubmissionOK
  <1>2. CASE generateJob
      BY <1>2 DEF generateJob, MgrType, SubmissionOK
  <1>3. CASE rpc_sim_job
      BY <1>3, SMT DEF rpc_sim_job, MgrType, SubmissionOK
  <1>4. CASE rpc_sim_job_uninitialised
      BY <1>4, SMT DEF rpc_sim_job_uninitialised, MgrType, SubmissionOK
  <1>5. CASE PostSlurmSem
      BY <1>5 DEF PostSlurmSem, MgrType, SubmissionOK
  <1>6. CASE WaitSimSem
      BY <1>6, SMT DEF WaitSimSem, MgrType, SubmissionOK
  <1>7. CASE terminate_simulation
      BY <1>7 DEF terminate_simulation, MgrType, SubmissionOK
  <1>8. CASE CheckAllFinished
      BY <1>8 DEF CheckAllFinished, MgrType, SubmissionOK
  <1>9. ASSUME NEW j \in Jobs, submit_batch_job(j) PROVE MgrType'
      BY <1>9 DEF submit_batch_job, MgrType, SubmissionOK
  <1>10. CASE UNCHANGED <<mgr, trace_head, time_end, current_sim, trace_recs_end_sim>>
      BY <1>10 DEF MgrType, SubmissionOK
  <1> QED  BY <1>1, <1>2, <1>3, <1>4, <1>5, <1>6, <1>7, <1>8, <1>9, <1>10, <1>MgrWriters

\* The semaphores are never negative and the helper keeps its types.
LEMMA HelperStep ==
  ASSUME HelperType, MgrType, Next
  PROVE  HelperType'
  \* Who writes the semaphores and the local state of the helper.
  <1>HelperWriters. \/ UNCHANGED <<slurm_sem, sim_sem, helper, now, jobs_ended, tries,
                       waiting_epilog_msgs>>
                    \/ PostSlurmSem \/ WaitSimSem \/ WaitSlurmSem \/ EndJob \/ NoJobEnded \/
                       AllJobsEnded \/ EpilogsFinished \/ RetryComplete \/ GiveUpComplete \/
                       RetryCycle \/ GiveUpCycle
                    \/ \E j \in Jobs : TerminateFinishes(j)
                    \/ \E k \in Slots : CompleteReplies(k) \/ CycleReplies(k)
    <2> USE DEF mgr_vars, sem_vars, helper_vars, slurmd_vars, job_vars, count_vars,
             sched_vars, bf_vars, rpc_vars, slot_vars, complete_vars, cycle_vars,
             run_vars
    <2>1. ASSUME LoopTop \/ generateJob \/ rpc_sim_job \/ rpc_sim_job_uninitialised \/
                 terminate_simulation \/ AgentWakes \/ AgentExits \/ BackfillWakes \/
                 BackfillLocks \/ BackfillReturns \/ job_time_limit \/ CheckAllFinished
                 \/ Stopped
          PROVE  UNCHANGED <<slurm_sem, sim_sem, helper, now, jobs_ended, tries,
                 waiting_epilog_msgs>>
        BY <2>1 DEF LoopTop, generateJob, rpc_sim_job, rpc_sim_job_uninitialised,
           terminate_simulation, AgentWakes, At, Moves, AgentExits, BackfillWakes,
           BackfillLocks, BackfillReturns, job_time_limit, CheckAllFinished, Stopped,
           vars
    <2>2. ASSUME NEW j \in Jobs, submit_batch_job(j) \/ SubmitQueuesScheduler(j) \/
                 epilog_complete(j) \/ EpilogQueuesScheduler(j) \/ EpilogReplies(j) \/
                 EpilogCounts(j) \/ EpilogReadsTotal(j) \/ EpilogWritesTotal(j) \/
                 simulator_rpc_terminate_job(j) \/ rpc_timelimit(j) \/
                 simulator_rpc_batch_job(j) \/ AddEvent(j) \/ Starts(j)
          PROVE  UNCHANGED <<slurm_sem, sim_sem, helper, now, jobs_ended, tries,
                 waiting_epilog_msgs>>
        BY <2>2 DEF submit_batch_job, SubmitQueuesScheduler, epilog_complete,
           EpilogQueuesScheduler, EpilogReplies, EpilogCounts, EpilogReadsTotal,
           EpilogWritesTotal, simulator_rpc_terminate_job, rpc_timelimit,
           simulator_rpc_batch_job, AddEvent, Starts, StartJob
    <2>3. ASSUME NEW k \in Slots, complete_batch_script(k) \/ job_complete(k) \/
                 CompletedJobsArrived(k) \/ EpilogsArrived(k) \/ get_scheduler_cnt(k) \/
                 reset_scheduler_cnt(k) \/ do_backfill(k) \/ BackfillWaited(k)
          PROVE  UNCHANGED <<slurm_sem, sim_sem, helper, now, jobs_ended, tries,
                 waiting_epilog_msgs>>
        BY <2>3 DEF complete_batch_script, job_complete, CompletedJobsArrived,
           At, Moves, EpilogsArrived, get_scheduler_cnt, reset_scheduler_cnt,
           do_backfill, BackfillWaited
    <2>4. ASSUME NEW t \in Callers, ScheduleChecks(t) \/ ScheduleBegins(t) \/
                 ScheduleDefers(t) \/ schedule(t) \/ ScheduleReturns(t) \/
                 ScheduleEnds(t)
          PROVE  UNCHANGED <<slurm_sem, sim_sem, helper, now, jobs_ended, tries,
                 waiting_epilog_msgs>>
        BY <2>4 DEF ScheduleChecks, At, Moves, ScheduleBegins, NewJobLimit,
           ScheduleDefers, After, schedule, ScheduleReturns, ScheduleEnds
    <2> QED  BY StepCases, <2>1, <2>2, <2>3, <2>4
  <1> USE LockstepAssumption DEF mgr_vars, sem_vars, helper_vars, slurmd_vars,
           job_vars, count_vars, sched_vars, bf_vars, rpc_vars, slot_vars,
           complete_vars, cycle_vars, run_vars
  <1>1. CASE PostSlurmSem
      BY <1>1, SMT DEF PostSlurmSem, HelperType, MgrType
  <1>2. CASE WaitSimSem
      BY <1>2, SMT DEF WaitSimSem, HelperType, MgrType
  <1>3. CASE WaitSlurmSem
      BY <1>3, SMT DEF WaitSlurmSem, HelperType, MgrType
  <1>4. CASE EndJob
      BY <1>4 DEF EndJob, HelperType, MgrType
  <1>5. CASE NoJobEnded
      BY <1>5 DEF NoJobEnded, SendCycle, HelperType, MgrType
  <1>6. CASE AllJobsEnded
      BY <1>6 DEF AllJobsEnded, HelperType, MgrType
  <1>7. CASE EpilogsFinished
      BY <1>7 DEF EpilogsFinished, SendCycle, HelperType, MgrType
  <1>8. CASE RetryComplete
      BY <1>8, SMT DEF RetryComplete, MessageTimesOut, Expired, HelperType, MgrType
  <1>9. CASE GiveUpComplete
      BY <1>9 DEF GiveUpComplete, MessageTimesOut, Expired, HelperType, MgrType
  <1>10. CASE RetryCycle
      BY <1>10, SMT DEF RetryCycle, MessageTimesOut, Expired, HelperType, MgrType
  <1>11. CASE GiveUpCycle
      BY <1>11, SMT DEF GiveUpCycle, MessageTimesOut, Expired, HelperType, MgrType
  <1>12. ASSUME NEW j \in Jobs, TerminateFinishes(j) PROVE HelperType'
      BY <1>12, SMT DEF TerminateFinishes, HelperType, MgrType
  <1>13. ASSUME NEW k \in Slots, CompleteReplies(k) PROVE HelperType'
      BY <1>13, SMT DEF CompleteReplies, HelperType, MgrType
  <1>14. ASSUME NEW k \in Slots, CycleReplies(k) PROVE HelperType'
      BY <1>14, SMT DEF CycleReplies, HelperType, MgrType
  <1>15. CASE UNCHANGED <<slurm_sem, sim_sem, helper, now, jobs_ended, tries,
           waiting_epilog_msgs>>
      BY <1>15 DEF HelperType, MgrType
  <1> QED  BY <1>1, <1>2, <1>3, <1>4, <1>5, <1>6, <1>7, <1>8, <1>9, <1>10, <1>11,
         <1>12, <1>13, <1>14, <1>15, <1>HelperWriters

\* The counters of slurmctld are natural numbers.
LEMMA CounterStep ==
  ASSUME CounterType, SlotType, Next
  PROVE  CounterType'
  \* Who writes the counters of slurmctld.
  <1>CounterWriters. \/ UNCHANGED <<mutex_bf, mutex_bf_done, backfill, total_finished_jobs,
                        arrived_jobs_epilogs, total_epilog_complete_jobs, total_read,
                        job_sched_cnt, last_helper_backfill_time>>
                     \/ BackfillWakes \/ BackfillLocks \/ BackfillReturns
                     \/ \E j \in Jobs : SubmitQueuesScheduler(j) \/ EpilogQueuesScheduler(j) \/
                          EpilogCounts(j) \/ EpilogReadsTotal(j) \/ EpilogWritesTotal(j)
                     \/ \E k \in Slots : complete_batch_script(k) \/ CompletedJobsArrived(k) \/
                          EpilogsArrived(k) \/ reset_scheduler_cnt(k) \/ do_backfill(k) \/
                          BackfillWaited(k)
    <2> USE DEF mgr_vars, sem_vars, helper_vars, slurmd_vars, job_vars, count_vars,
             sched_vars, bf_vars, rpc_vars, slot_vars, complete_vars, cycle_vars,
             run_vars
    <2>1. ASSUME LoopTop \/ generateJob \/ rpc_sim_job \/ rpc_sim_job_uninitialised \/
                 PostSlurmSem \/ WaitSimSem \/ terminate_simulation \/ WaitSlurmSem \/
                 EndJob \/ NoJobEnded \/ AllJobsEnded \/ EpilogsFinished \/
                 RetryComplete \/ GiveUpComplete \/ RetryCycle \/ GiveUpCycle \/
                 AgentWakes \/ AgentExits \/ job_time_limit \/ CheckAllFinished \/
                 Stopped
          PROVE  UNCHANGED <<mutex_bf, mutex_bf_done, backfill, total_finished_jobs,
                 arrived_jobs_epilogs, total_epilog_complete_jobs, total_read,
                 job_sched_cnt, last_helper_backfill_time>>
        BY <2>1 DEF LoopTop, generateJob, rpc_sim_job, rpc_sim_job_uninitialised,
           PostSlurmSem, WaitSimSem, terminate_simulation, WaitSlurmSem, EndJob,
           NoJobEnded, SendCycle, AllJobsEnded, EpilogsFinished, RetryComplete,
           MessageTimesOut, Expired, GiveUpComplete, RetryCycle, GiveUpCycle,
           AgentWakes, At, Moves, AgentExits, job_time_limit, CheckAllFinished, Stopped,
           vars
    <2>2. ASSUME NEW j \in Jobs, submit_batch_job(j) \/ epilog_complete(j) \/
                 EpilogReplies(j) \/ simulator_rpc_terminate_job(j) \/
                 TerminateFinishes(j) \/ rpc_timelimit(j) \/ simulator_rpc_batch_job(j)
                 \/ AddEvent(j) \/ Starts(j)
          PROVE  UNCHANGED <<mutex_bf, mutex_bf_done, backfill, total_finished_jobs,
                 arrived_jobs_epilogs, total_epilog_complete_jobs, total_read,
                 job_sched_cnt, last_helper_backfill_time>>
        BY <2>2 DEF submit_batch_job, epilog_complete, EpilogReplies,
           simulator_rpc_terminate_job, TerminateFinishes, rpc_timelimit,
           simulator_rpc_batch_job, AddEvent, Starts, StartJob
    <2>3. ASSUME NEW k \in Slots, job_complete(k) \/ CompleteReplies(k) \/
                 get_scheduler_cnt(k) \/ CycleReplies(k)
          PROVE  UNCHANGED <<mutex_bf, mutex_bf_done, backfill, total_finished_jobs,
                 arrived_jobs_epilogs, total_epilog_complete_jobs, total_read,
                 job_sched_cnt, last_helper_backfill_time>>
        BY <2>3 DEF job_complete, CompleteReplies, get_scheduler_cnt,
           CycleReplies
    <2>4. ASSUME NEW t \in Callers, ScheduleChecks(t) \/ ScheduleBegins(t) \/
                 ScheduleDefers(t) \/ schedule(t) \/ ScheduleReturns(t) \/
                 ScheduleEnds(t)
          PROVE  UNCHANGED <<mutex_bf, mutex_bf_done, backfill, total_finished_jobs,
                 arrived_jobs_epilogs, total_epilog_complete_jobs, total_read,
                 job_sched_cnt, last_helper_backfill_time>>
        BY <2>4 DEF ScheduleChecks, At, Moves, ScheduleBegins, NewJobLimit,
           ScheduleDefers, After, schedule, ScheduleReturns, ScheduleEnds
    <2> QED  BY StepCases, <2>1, <2>2, <2>3, <2>4
  <1> USE LockstepAssumption DEF mgr_vars, sem_vars, helper_vars, slurmd_vars,
           job_vars, count_vars, sched_vars, bf_vars, rpc_vars, slot_vars,
           complete_vars, cycle_vars, run_vars
  <1>1. CASE BackfillWakes
      BY <1>1, SMT DEF BackfillWakes, CounterType
  <1>2. CASE BackfillLocks
      BY <1>2 DEF BackfillLocks, CounterType
  <1>3. CASE BackfillReturns
      BY <1>3, SMT DEF BackfillReturns, CounterType
  <1>4. ASSUME NEW j \in Jobs, SubmitQueuesScheduler(j) PROVE CounterType'
      BY <1>4, SMT DEF SubmitQueuesScheduler, CounterType
  <1>5. ASSUME NEW j \in Jobs, EpilogQueuesScheduler(j) PROVE CounterType'
      BY <1>5, SMT DEF EpilogQueuesScheduler, CounterType
  <1>6. ASSUME NEW j \in Jobs, EpilogCounts(j) PROVE CounterType'
      BY <1>6, SMT DEF EpilogCounts, CounterType
  <1>7. ASSUME NEW j \in Jobs, EpilogReadsTotal(j) PROVE CounterType'
      BY <1>7 DEF EpilogReadsTotal, CounterType
  <1>8. ASSUME NEW j \in Jobs, EpilogWritesTotal(j) PROVE CounterType'
      BY <1>8, SMT DEF EpilogWritesTotal, CounterType
  <1>9. ASSUME NEW k \in Slots, complete_batch_script(k) PROVE CounterType'
      BY <1>9, SMT DEF complete_batch_script, CounterType
  <1>10. ASSUME NEW k \in Slots, CompletedJobsArrived(k) PROVE CounterType'
      BY <1>10 DEF CompletedJobsArrived, At, Moves, CounterType
  <1>11. ASSUME NEW k \in Slots, EpilogsArrived(k) PROVE CounterType'
      BY <1>11 DEF EpilogsArrived, At, Moves, CounterType
  <1>12. ASSUME NEW k \in Slots, reset_scheduler_cnt(k) PROVE CounterType'
      BY <1>12 DEF reset_scheduler_cnt, At, Moves, CounterType
  <1>13. ASSUME NEW k \in Slots, do_backfill(k) PROVE CounterType'
      BY <1>13, SMT DEF do_backfill, At, Moves, CounterType
  <1>14. ASSUME NEW k \in Slots, BackfillWaited(k) PROVE CounterType'
      BY <1>14, SMT DEF BackfillWaited, At, Moves, CounterType, SlotType
  <1>15. CASE UNCHANGED <<mutex_bf, mutex_bf_done, backfill, total_finished_jobs,
           arrived_jobs_epilogs, total_epilog_complete_jobs, total_read,
           job_sched_cnt, last_helper_backfill_time>>
      BY <1>15 DEF CounterType
  <1> QED  BY <1>1, <1>2, <1>3, <1>4, <1>5, <1>6, <1>7, <1>8, <1>9, <1>10, <1>11,
         <1>12, <1>13, <1>14, <1>15, <1>CounterWriters

\* Jobs and their RPC threads keep their types.
LEMMA JobStep ==
  ASSUME JobType, EventType, MgrType, SlotType, SlotsOK, SubmissionOK, Next
  PROVE  JobType'
  \* Who writes the state of the jobs and of their RPC threads.
  <1>JobWriters. \/ UNCHANGED <<completed, info, job_state, start_time, submit, terminate,
                    epilog, launch>>
                 \/ generateJob \/ rpc_sim_job \/ rpc_sim_job_uninitialised \/ EndJob \/
                    job_time_limit
                 \/ \E j \in Jobs : submit_batch_job(j) \/ SubmitQueuesScheduler(j) \/
                      epilog_complete(j) \/ EpilogQueuesScheduler(j) \/ EpilogReplies(j) \/
                      EpilogCounts(j) \/ EpilogReadsTotal(j) \/ EpilogWritesTotal(j) \/
                      simulator_rpc_terminate_job(j) \/ TerminateFinishes(j) \/
                      rpc_timelimit(j) \/ simulator_rpc_batch_job(j) \/ AddEvent(j) \/
                      Starts(j)
                 \/ \E k \in Slots : job_complete(k)
    <2> USE DEF mgr_vars, sem_vars, helper_vars, slurmd_vars, job_vars, count_vars,
             sched_vars, bf_vars, rpc_vars, slot_vars, complete_vars, cycle_vars,
             run_vars
    <2>1. ASSUME LoopTop \/ PostSlurmSem \/ WaitSimSem \/ terminate_simulation \/
                 WaitSlurmSem \/ NoJobEnded \/ AllJobsEnded \/ EpilogsFinished \/
                 RetryComplete \/ GiveUpComplete \/ RetryCycle \/ GiveUpCycle \/
                 AgentWakes \/ AgentExits \/ BackfillWakes \/ BackfillLocks \/
                 BackfillReturns \/ CheckAllFinished \/ Stopped
          PROVE  UNCHANGED <<completed, info, job_state, start_time, submit, terminate,
                 epilog, launch>>
        BY <2>1 DEF LoopTop, PostSlurmSem, WaitSimSem, terminate_simulation,
           WaitSlurmSem, NoJobEnded, SendCycle, AllJobsEnded, EpilogsFinished,
           RetryComplete, MessageTimesOut, Expired, GiveUpComplete, RetryCycle,
           GiveUpCycle, AgentWakes, At, Moves, AgentExits, BackfillWakes, BackfillLocks,
           BackfillReturns, CheckAllFinished, Stopped, vars
    <2>2. ASSUME NEW k \in Slots, complete_batch_script(k) \/ CompleteReplies(k) \/
                 CompletedJobsArrived(k) \/ EpilogsArrived(k) \/ get_scheduler_cnt(k) \/
                 reset_scheduler_cnt(k) \/ do_backfill(k) \/ BackfillWaited(k) \/
                 CycleReplies(k)
          PROVE  UNCHANGED <<completed, info, job_state, start_time, submit, terminate,
                 epilog, launch>>
        BY <2>2 DEF complete_batch_script, CompleteReplies, CompletedJobsArrived,
           At, Moves, EpilogsArrived, get_scheduler_cnt, reset_scheduler_cnt,
           do_backfill, BackfillWaited, CycleReplies
    <2>3. ASSUME NEW t \in Callers, ScheduleChecks(t) \/ ScheduleBegins(t) \/
                 ScheduleDefers(t) \/ schedule(t) \/ ScheduleReturns(t) \/
                 ScheduleEnds(t)
          PROVE  UNCHANGED <<completed, info, job_state, start_time, submit, terminate,
                 epilog, launch>>
        BY <2>3 DEF ScheduleChecks, At, Moves, ScheduleBegins, NewJobLimit,
           ScheduleDefers, After, schedule, ScheduleReturns, ScheduleEnds
    <2> QED  BY StepCases, <2>1, <2>2, <2>3
  <1> USE LockstepAssumption DEF mgr_vars, sem_vars, helper_vars, slurmd_vars,
           job_vars, count_vars, sched_vars, bf_vars, rpc_vars, slot_vars,
           complete_vars, cycle_vars, run_vars
  <1>1. CASE generateJob
      BY <1>1 DEF generateJob, MgrType, JobDue, Jobs, JobType
  <1>2. CASE rpc_sim_job
      BY <1>2 DEF rpc_sim_job, MgrType, SubmissionOK, Jobs, JobType
  <1>3. CASE rpc_sim_job_uninitialised
    <2>1. Duration[trace_head] \in Nat
        BY <1>3, SMT DEF rpc_sim_job_uninitialised, MgrType, SubmissionOK, Jobs
    <2>2. info' \in [Jobs -> Nat \cup {-1}]
        BY <1>3, <2>1 DEF rpc_sim_job_uninitialised, JobType
    <2> QED  BY <1>3, <2>2 DEF rpc_sim_job_uninitialised, JobType
  <1>4. CASE EndJob
    <2>1. Head(events).job \in Jobs
        BY <1>4, TailKeepsOrder DEF EndJob, EventDue, EventType
    <2> QED  BY <1>4, <2>1 DEF EndJob, JobType
  <1>5. CASE job_time_limit
      BY <1>5 DEF job_time_limit, JobType
  <1>6. ASSUME NEW j \in Jobs, submit_batch_job(j) PROVE JobType'
      BY <1>6 DEF submit_batch_job, JobType
  <1>7. ASSUME NEW j \in Jobs, SubmitQueuesScheduler(j) PROVE JobType'
      BY <1>7 DEF SubmitQueuesScheduler, JobType
  <1>8. ASSUME NEW j \in Jobs, epilog_complete(j) PROVE JobType'
      BY <1>8 DEF epilog_complete, JobType
  <1>9. ASSUME NEW j \in Jobs, EpilogQueuesScheduler(j) PROVE JobType'
      BY <1>9 DEF EpilogQueuesScheduler, JobType
  <1>10. ASSUME NEW j \in Jobs, EpilogReplies(j) PROVE JobType'
      BY <1>10 DEF EpilogReplies, JobType
  <1>11. ASSUME NEW j \in Jobs, EpilogCounts(j) PROVE JobType'
      BY <1>11 DEF EpilogCounts, JobType
  <1>12. ASSUME NEW j \in Jobs, EpilogReadsTotal(j) PROVE JobType'
      BY <1>12 DEF EpilogReadsTotal, JobType
  <1>13. ASSUME NEW j \in Jobs, EpilogWritesTotal(j) PROVE JobType'
      BY <1>13 DEF EpilogWritesTotal, JobType
  <1>14. ASSUME NEW j \in Jobs, simulator_rpc_terminate_job(j) PROVE JobType'
      BY <1>14, SMT DEF simulator_rpc_terminate_job, JobType
  <1>15. ASSUME NEW j \in Jobs, TerminateFinishes(j) PROVE JobType'
      BY <1>15 DEF TerminateFinishes, JobType
  <1>16. ASSUME NEW j \in Jobs, rpc_timelimit(j) PROVE JobType'
      BY <1>16 DEF rpc_timelimit, JobType
  <1>17. ASSUME NEW j \in Jobs, simulator_rpc_batch_job(j) PROVE JobType'
      BY <1>17 DEF simulator_rpc_batch_job, JobType
  <1>18. ASSUME NEW j \in Jobs, AddEvent(j) PROVE JobType'
      BY <1>18 DEF AddEvent, JobType
  <1>19. ASSUME NEW k \in Slots, job_complete(k) PROVE JobType'
      BY <1>19, SMT DEF job_complete, SlotsOK, SlotType, JobType
  <1>20. ASSUME NEW j \in Jobs, Starts(j) PROVE JobType'
      BY <1>20 DEF Starts, StartJob, MgrType, JobType
  <1>21. CASE UNCHANGED <<completed, info, job_state, start_time, submit, terminate,
           epilog, launch>>
      BY <1>21 DEF JobType
  <1> QED  BY <1>1, <1>2, <1>3, <1>4, <1>5, <1>6, <1>7, <1>8, <1>9, <1>10, <1>11,
         <1>12, <1>13, <1>14, <1>15, <1>16, <1>17, <1>18, <1>19, <1>20, <1>21,
         <1>JobWriters

\* Who writes the list of completions.
LEMMA EventWriters ==
  ASSUME Next
  PROVE  \/ UNCHANGED events
         \/ EndJob
         \/ \E j \in Jobs : AddEvent(j)
  <1> USE DEF mgr_vars, sem_vars, helper_vars, slurmd_vars, job_vars, count_vars,
           sched_vars, bf_vars, rpc_vars, slot_vars, complete_vars, cycle_vars,
           run_vars
  <1>1. ASSUME LoopTop \/ generateJob \/ rpc_sim_job \/ rpc_sim_job_uninitialised \/
               PostSlurmSem \/ WaitSimSem \/ terminate_simulation \/ WaitSlurmSem \/
               NoJobEnded \/ AllJobsEnded \/ EpilogsFinished \/ RetryComplete \/
               GiveUpComplete \/ RetryCycle \/ GiveUpCycle \/ AgentWakes \/ AgentExits
               \/ BackfillWakes \/ BackfillLocks \/ BackfillReturns \/ job_time_limit
               \/ CheckAllFinished \/ Stopped
        PROVE  UNCHANGED events
      BY <1>1 DEF LoopTop, generateJob, rpc_sim_job, rpc_sim_job_uninitialised,
         PostSlurmSem, WaitSimSem, terminate_simulation, WaitSlurmSem, NoJobEnded,
         SendCycle, AllJobsEnded, EpilogsFinished, RetryComplete, MessageTimesOut,
         Expired, GiveUpComplete, RetryCycle, GiveUpCycle, AgentWakes, At, Moves,
         AgentExits, BackfillWakes, BackfillLocks, BackfillReturns, job_time_limit,
         CheckAllFinished, Stopped, vars
  <1>2. ASSUME NEW j \in Jobs, submit_batch_job(j) \/ SubmitQueuesScheduler(j) \/
               epilog_complete(j) \/ EpilogQueuesScheduler(j) \/ EpilogReplies(j) \/
               EpilogCounts(j) \/ EpilogReadsTotal(j) \/ EpilogWritesTotal(j) \/
               simulator_rpc_terminate_job(j) \/ TerminateFinishes(j) \/
               rpc_timelimit(j) \/ simulator_rpc_batch_job(j) \/ Starts(j)
        PROVE  UNCHANGED events
      BY <1>2 DEF submit_batch_job, SubmitQueuesScheduler, epilog_complete,
         EpilogQueuesScheduler, EpilogReplies, EpilogCounts, EpilogReadsTotal,
         EpilogWritesTotal, simulator_rpc_terminate_job, TerminateFinishes,
         rpc_timelimit, simulator_rpc_batch_job, Starts, StartJob
  <1>3. ASSUME NEW k \in Slots, complete_batch_script(k) \/ job_complete(k) \/
               CompleteReplies(k) \/ CompletedJobsArrived(k) \/ EpilogsArrived(k) \/
               get_scheduler_cnt(k) \/ reset_scheduler_cnt(k) \/ do_backfill(k) \/
               BackfillWaited(k) \/ CycleReplies(k)
        PROVE  UNCHANGED events
      BY <1>3 DEF complete_batch_script, job_complete, CompleteReplies,
         CompletedJobsArrived, At, Moves, EpilogsArrived, get_scheduler_cnt,
         reset_scheduler_cnt, do_backfill, BackfillWaited, CycleReplies
  <1>4. ASSUME NEW t \in Callers, ScheduleChecks(t) \/ ScheduleBegins(t) \/
               ScheduleDefers(t) \/ schedule(t) \/ ScheduleReturns(t) \/
               ScheduleEnds(t)
        PROVE  UNCHANGED events
      BY <1>4 DEF ScheduleChecks, At, Moves, ScheduleBegins, NewJobLimit,
         ScheduleDefers, After, schedule, ScheduleReturns, ScheduleEnds
  <1> QED  BY StepCases, <1>1, <1>2, <1>3, <1>4

\* The list of completions keeps its type.
LEMMA EventStep ==
  ASSUME EventType, MgrType, JobType, Next
  PROVE  EventType'
  <1> USE LockstepAssumption DEF mgr_vars, sem_vars, helper_vars, slurmd_vars,
           job_vars, count_vars, sched_vars, bf_vars, rpc_vars, slot_vars,
           complete_vars, cycle_vars, run_vars
  <1>1. CASE EndJob
      BY <1>1, TailKeepsOrder DEF EndJob, EventDue, EventType
  <1>2. ASSUME NEW j \in Jobs, AddEvent(j) PROVE EventType'
    <2>1. info[j] # -1 => [job |-> j, when |-> current_sim + info[j]] \in Event(Jobs)
        BY SMT DEF JobType, MgrType, Event
    <2> QED  BY <1>2, <2>1, AddKeepsOrder DEF AddEvent, EventType
  <1>3. CASE UNCHANGED events
      BY <1>3 DEF EventType
  <1> QED  BY <1>1, <1>2, <1>3, EventWriters

\* The threads that serve the helper keep their types.
LEMMA SlotStep ==
  ASSUME SlotType, SlotsOK, HelperType, MgrType, EventType, Next
  PROVE  SlotType'
  \* Who writes the threads that serve the helper.
  <1>SlotWriters. \/ UNCHANGED <<complete, complete_job, cycle, total_jobs_ended, current_time,
                     timeouts, sched_running, sched_job_limit, job_depth>>
                  \/ EndJob \/ NoJobEnded \/ EpilogsFinished \/ RetryComplete \/ GiveUpComplete
                     \/ RetryCycle \/ GiveUpCycle \/ AgentWakes \/ AgentExits
                  \/ \E j \in Jobs : Starts(j)
                  \/ \E k \in Slots : complete_batch_script(k) \/ job_complete(k) \/
                       CompleteReplies(k) \/ CompletedJobsArrived(k) \/ EpilogsArrived(k) \/
                       get_scheduler_cnt(k) \/ reset_scheduler_cnt(k) \/ do_backfill(k) \/
                       BackfillWaited(k) \/ CycleReplies(k)
                  \/ \E t \in Callers : ScheduleChecks(t) \/ ScheduleBegins(t) \/
                       ScheduleDefers(t) \/ schedule(t) \/ ScheduleReturns(t) \/
                       ScheduleEnds(t)
    <2> USE DEF mgr_vars, sem_vars, helper_vars, slurmd_vars, job_vars, count_vars,
             sched_vars, bf_vars, rpc_vars, slot_vars, complete_vars, cycle_vars,
             run_vars
    <2>1. ASSUME LoopTop \/ generateJob \/ rpc_sim_job \/ rpc_sim_job_uninitialised \/
                 PostSlurmSem \/ WaitSimSem \/ terminate_simulation \/ WaitSlurmSem \/
                 AllJobsEnded \/ BackfillWakes \/ BackfillLocks \/ BackfillReturns \/
                 job_time_limit \/ CheckAllFinished \/ Stopped
          PROVE  UNCHANGED <<complete, complete_job, cycle, total_jobs_ended,
                 current_time, timeouts, sched_running, sched_job_limit, job_depth>>
        BY <2>1 DEF LoopTop, generateJob, rpc_sim_job, rpc_sim_job_uninitialised,
           PostSlurmSem, WaitSimSem, terminate_simulation, WaitSlurmSem, AllJobsEnded,
           BackfillWakes, BackfillLocks, BackfillReturns, job_time_limit,
           CheckAllFinished, Stopped, vars
    <2>2. ASSUME NEW j \in Jobs, submit_batch_job(j) \/ SubmitQueuesScheduler(j) \/
                 epilog_complete(j) \/ EpilogQueuesScheduler(j) \/ EpilogReplies(j) \/
                 EpilogCounts(j) \/ EpilogReadsTotal(j) \/ EpilogWritesTotal(j) \/
                 simulator_rpc_terminate_job(j) \/ TerminateFinishes(j) \/
                 rpc_timelimit(j) \/ simulator_rpc_batch_job(j) \/ AddEvent(j)
          PROVE  UNCHANGED <<complete, complete_job, cycle, total_jobs_ended,
                 current_time, timeouts, sched_running, sched_job_limit, job_depth>>
        BY <2>2 DEF submit_batch_job, SubmitQueuesScheduler, epilog_complete,
           EpilogQueuesScheduler, EpilogReplies, EpilogCounts, EpilogReadsTotal,
           EpilogWritesTotal, simulator_rpc_terminate_job, TerminateFinishes,
           rpc_timelimit, simulator_rpc_batch_job, AddEvent
    <2> QED  BY StepCases, <2>1, <2>2
  <1> USE LockstepAssumption DEF mgr_vars, sem_vars, helper_vars, slurmd_vars,
           job_vars, count_vars, sched_vars, bf_vars, rpc_vars, slot_vars,
           complete_vars, cycle_vars, run_vars
  <1>1. CASE EndJob
    <2>1. Head(events).job \in Jobs
        BY <1>1, TailKeepsOrder DEF EndJob, EventDue, EventType
    <2> QED  BY <1>1, <2>1, CallerFacts DEF EndJob, SlotType
  <1>2. CASE NoJobEnded
      BY <1>2, CallerFacts DEF NoJobEnded, SendCycle, SlotType, HelperType
  <1>3. CASE EpilogsFinished
      BY <1>3, CallerFacts DEF EpilogsFinished, SendCycle, SlotType, HelperType
  <1>4. CASE RetryComplete
    <2>1. timeouts \in Nat /\ timeouts + 1 \in Slots
        BY <1>4, SMT DEF RetryComplete, MessageTimesOut, SlotType, Slots
    <2> QED
        BY <1>4, <2>1, CallerFacts, SMT DEF RetryComplete, MessageTimesOut, Expired, SlotType, SlotsOK
  <1>5. CASE GiveUpComplete
    <2>1. timeouts \in Nat /\ timeouts + 1 \in Slots
        BY <1>5, SMT DEF GiveUpComplete, MessageTimesOut, SlotType, Slots
    <2> QED
        BY <1>5, <2>1, CallerFacts DEF GiveUpComplete, MessageTimesOut, Expired, SlotType
  <1>6. CASE RetryCycle
    <2>1. timeouts \in Nat /\ timeouts + 1 \in Slots
        BY <1>6, SMT DEF RetryCycle, MessageTimesOut, SlotType, Slots
    <2> QED
        BY <1>6, <2>1, CallerFacts DEF RetryCycle, MessageTimesOut, Expired, SlotType, HelperType
  <1>7. CASE GiveUpCycle
    <2>1. timeouts \in Nat /\ timeouts + 1 \in Slots
        BY <1>7, SMT DEF GiveUpCycle, MessageTimesOut, SlotType, Slots
    <2> QED
        BY <1>7, <2>1, CallerFacts DEF GiveUpCycle, MessageTimesOut, Expired, SlotType
  <1>8. CASE AgentWakes
      BY <1>8, CallerFacts DEF AgentWakes, At, Moves, SlotType
  <1>9. CASE AgentExits
      BY <1>9, CallerFacts DEF AgentExits, At, Moves, SlotType
  <1>10. ASSUME NEW k \in Slots, complete_batch_script(k) PROVE SlotType'
      BY <1>10, CallerFacts DEF complete_batch_script, SlotType
  <1>11. ASSUME NEW k \in Slots, job_complete(k) PROVE SlotType'
      BY <1>11, CallerFacts DEF job_complete, SlotType
  <1>12. ASSUME NEW k \in Slots, CompleteReplies(k) PROVE SlotType'
      BY <1>12, CallerFacts DEF CompleteReplies, SlotType
  <1>13. ASSUME NEW k \in Slots, CompletedJobsArrived(k) PROVE SlotType'
      BY <1>13, CallerFacts DEF CompletedJobsArrived, At, Moves, SlotType
  <1>14. ASSUME NEW k \in Slots, EpilogsArrived(k) PROVE SlotType'
      BY <1>14, CallerFacts DEF EpilogsArrived, At, Moves, SlotType
  <1>15. ASSUME NEW k \in Slots, get_scheduler_cnt(k) PROVE SlotType'
      BY <1>15, CallerFacts DEF get_scheduler_cnt, MgrType, SlotType
  <1>16. ASSUME NEW k \in Slots, reset_scheduler_cnt(k) PROVE SlotType'
      BY <1>16, CallerFacts DEF reset_scheduler_cnt, At, Moves, SlotType
  <1>17. ASSUME NEW k \in Slots, do_backfill(k) PROVE SlotType'
      BY <1>17, CallerFacts DEF do_backfill, At, Moves, SlotType
  <1>18. ASSUME NEW k \in Slots, BackfillWaited(k) PROVE SlotType'
      BY <1>18, CallerFacts DEF BackfillWaited, At, Moves, SlotType
  <1>19. ASSUME NEW k \in Slots, CycleReplies(k) PROVE SlotType'
      BY <1>19, CallerFacts DEF CycleReplies, SlotType
  <1>20. ASSUME NEW t \in Callers, ScheduleChecks(t) PROVE SlotType'
      BY <1>20, CallerFacts DEF ScheduleChecks, At, Moves, SlotType
  <1>21. ASSUME NEW t \in Callers, ScheduleBegins(t) PROVE SlotType'
      BY <1>21, CallerFacts, SMTT(30) DEF ScheduleBegins, Moves, NewJobLimit, SlotType
  <1>22. ASSUME NEW t \in Callers, ScheduleDefers(t) PROVE SlotType'
      BY <1>22, CallerFacts, SMT DEF ScheduleDefers, NewJobLimit, After, SlotType
  <1>23. ASSUME NEW t \in Callers, schedule(t) PROVE SlotType'
      BY <1>23, CallerFacts DEF schedule, At, Moves, SlotType
  <1>24. ASSUME NEW t \in Callers, ScheduleReturns(t) PROVE SlotType'
      BY <1>24, CallerFacts DEF ScheduleReturns, At, Moves, SlotType
  <1>25. ASSUME NEW t \in Callers, ScheduleEnds(t) PROVE SlotType'
      BY <1>25, CallerFacts DEF ScheduleEnds, Moves, After, SlotType
  <1>26. ASSUME NEW j \in Jobs, Starts(j) PROVE SlotType'
      BY <1>26, CallerFacts, SMT DEF Starts, StartJob, SlotType
  <1>27. CASE UNCHANGED <<complete, complete_job, cycle, total_jobs_ended,
           current_time, timeouts, sched_running, sched_job_limit, job_depth>>
      BY <1>27, CallerFacts DEF SlotType
  <1> QED  BY <1>1, <1>2, <1>3, <1>4, <1>5, <1>6, <1>7, <1>8, <1>9, <1>10, <1>11,
         <1>12, <1>13, <1>14, <1>15, <1>16, <1>17, <1>18, <1>19, <1>20, <1>21, <1>22,
         <1>23, <1>24, <1>25, <1>26, <1>27, <1>SlotWriters

\* One message of the helper is outstanding at most.
LEMMA SlotsStep ==
  ASSUME SlotsOK, SlotType, HelperType, EventType, Next
  PROVE  SlotsOK'
  \* Who writes the messages of the helper or its program counter.
  <1>SlotsWriters. \/ UNCHANGED <<complete, complete_job, cycle, timeouts, helper>>
                   \/ WaitSlurmSem \/ EndJob \/ NoJobEnded \/ AllJobsEnded \/ EpilogsFinished \/
                      RetryComplete \/ GiveUpComplete \/ RetryCycle \/ GiveUpCycle \/ AgentWakes
                      \/ AgentExits
                   \/ \E k \in Slots : complete_batch_script(k) \/ job_complete(k) \/
                        CompleteReplies(k) \/ CompletedJobsArrived(k) \/ EpilogsArrived(k) \/
                        get_scheduler_cnt(k) \/ reset_scheduler_cnt(k) \/ do_backfill(k) \/
                        BackfillWaited(k) \/ CycleReplies(k)
                   \/ \E t \in Callers : ScheduleChecks(t) \/ ScheduleBegins(t) \/
                        ScheduleDefers(t) \/ schedule(t) \/ ScheduleReturns(t) \/
                        ScheduleEnds(t)
    <2> USE DEF mgr_vars, sem_vars, helper_vars, slurmd_vars, job_vars, count_vars,
             sched_vars, bf_vars, rpc_vars, slot_vars, complete_vars, cycle_vars,
             run_vars
    <2>1. ASSUME LoopTop \/ generateJob \/ rpc_sim_job \/ rpc_sim_job_uninitialised \/
                 PostSlurmSem \/ WaitSimSem \/ terminate_simulation \/ BackfillWakes \/
                 BackfillLocks \/ BackfillReturns \/ job_time_limit \/ CheckAllFinished
                 \/ Stopped
          PROVE  UNCHANGED <<complete, complete_job, cycle, timeouts, helper>>
        BY <2>1 DEF LoopTop, generateJob, rpc_sim_job, rpc_sim_job_uninitialised,
           PostSlurmSem, WaitSimSem, terminate_simulation, BackfillWakes, BackfillLocks,
           BackfillReturns, job_time_limit, CheckAllFinished, Stopped, vars
    <2>2. ASSUME NEW j \in Jobs, submit_batch_job(j) \/ SubmitQueuesScheduler(j) \/
                 epilog_complete(j) \/ EpilogQueuesScheduler(j) \/ EpilogReplies(j) \/
                 EpilogCounts(j) \/ EpilogReadsTotal(j) \/ EpilogWritesTotal(j) \/
                 simulator_rpc_terminate_job(j) \/ TerminateFinishes(j) \/
                 rpc_timelimit(j) \/ simulator_rpc_batch_job(j) \/ AddEvent(j) \/
                 Starts(j)
          PROVE  UNCHANGED <<complete, complete_job, cycle, timeouts, helper>>
        BY <2>2 DEF submit_batch_job, SubmitQueuesScheduler, epilog_complete,
           EpilogQueuesScheduler, EpilogReplies, EpilogCounts, EpilogReadsTotal,
           EpilogWritesTotal, simulator_rpc_terminate_job, TerminateFinishes,
           rpc_timelimit, simulator_rpc_batch_job, AddEvent, Starts, StartJob
    <2> QED  BY StepCases, <2>1, <2>2
  <1> USE LockstepAssumption DEF mgr_vars, sem_vars, helper_vars, slurmd_vars,
           job_vars, count_vars, sched_vars, bf_vars, rpc_vars, slot_vars,
           complete_vars, cycle_vars, run_vars
  <1>1. CASE WaitSlurmSem
      BY <1>1, CallerFacts DEF WaitSlurmSem, SlotsOK, SlotType
  <1>2. CASE EndJob
    <2>1. Head(events).job \in Jobs
        BY <1>2, TailKeepsOrder DEF EndJob, EventDue, EventType
    <2> QED  BY <1>2, <2>1, CallerFacts, SMTT(20) DEF EndJob, SlotsOK, SlotType, Slots
  <1>3. CASE NoJobEnded
      BY <1>3, CallerFacts, SMT DEF NoJobEnded, SendCycle, SlotsOK, SlotType, Slots
  <1>4. CASE AllJobsEnded
      BY <1>4, CallerFacts DEF AllJobsEnded, SlotsOK, SlotType
  <1>5. CASE EpilogsFinished
      BY <1>5, CallerFacts, SMT DEF EpilogsFinished, SendCycle, SlotsOK, SlotType, Slots
  <1>6. CASE RetryComplete
    <2>1. timeouts \in Nat /\ timeouts + 1 \in Slots
        BY <1>6, SMT DEF RetryComplete, MessageTimesOut, SlotType, Slots
    <2> QED
        BY <1>6, <2>1, CallerFacts, SMT DEF RetryComplete, MessageTimesOut, Expired, SlotsOK, SlotType
  <1>7. CASE GiveUpComplete
    <2>1. timeouts \in Nat /\ timeouts + 1 \in Slots
        BY <1>7, SMT DEF GiveUpComplete, MessageTimesOut, SlotType, Slots
    <2> QED
        BY <1>7, <2>1, CallerFacts, SMT DEF GiveUpComplete, MessageTimesOut, Expired, SlotsOK, SlotType
  <1>8. CASE RetryCycle
    <2>1. timeouts \in Nat /\ timeouts + 1 \in Slots
        BY <1>8, SMT DEF RetryCycle, MessageTimesOut, SlotType, Slots
    <2> QED
        BY <1>8, <2>1, CallerFacts, SMTT(30) DEF RetryCycle, MessageTimesOut, Expired, SlotsOK,
           SlotType, HelperType
  <1>9. CASE GiveUpCycle
    <2>1. timeouts \in Nat /\ timeouts + 1 \in Slots
        BY <1>9, SMT DEF GiveUpCycle, MessageTimesOut, SlotType, Slots
    <2> QED
        BY <1>9, <2>1, CallerFacts, SMTT(30) DEF GiveUpCycle, MessageTimesOut, Expired, SlotsOK,
           SlotType
  <1>10. CASE AgentWakes
      BY <1>10, CallerFacts DEF AgentWakes, At, Moves, SlotsOK, SlotType
  <1>11. CASE AgentExits
      BY <1>11, CallerFacts DEF AgentExits, At, Moves, SlotsOK, SlotType
  <1>12. ASSUME NEW k \in Slots, complete_batch_script(k) PROVE SlotsOK'
      BY <1>12, CallerFacts DEF complete_batch_script, SlotsOK, SlotType
  <1>13. ASSUME NEW k \in Slots, job_complete(k) PROVE SlotsOK'
      BY <1>13, CallerFacts DEF job_complete, SlotsOK, SlotType
  <1>14. ASSUME NEW k \in Slots, CompleteReplies(k) PROVE SlotsOK'
      BY <1>14, CallerFacts DEF CompleteReplies, SlotsOK, SlotType
  <1>15. ASSUME NEW k \in Slots, CompletedJobsArrived(k) PROVE SlotsOK'
      BY <1>15, CallerFacts DEF CompletedJobsArrived, At, Moves, SlotsOK, SlotType
  <1>16. ASSUME NEW k \in Slots, EpilogsArrived(k) PROVE SlotsOK'
      BY <1>16, CallerFacts DEF EpilogsArrived, At, Moves, SlotsOK, SlotType
  <1>17. ASSUME NEW k \in Slots, get_scheduler_cnt(k) PROVE SlotsOK'
      BY <1>17, CallerFacts DEF get_scheduler_cnt, SlotsOK, SlotType
  <1>18. ASSUME NEW k \in Slots, reset_scheduler_cnt(k) PROVE SlotsOK'
      BY <1>18, CallerFacts DEF reset_scheduler_cnt, At, Moves, SlotsOK, SlotType
  <1>19. ASSUME NEW k \in Slots, do_backfill(k) PROVE SlotsOK'
      BY <1>19, CallerFacts DEF do_backfill, At, Moves, SlotsOK, SlotType
  <1>20. ASSUME NEW k \in Slots, BackfillWaited(k) PROVE SlotsOK'
      BY <1>20, CallerFacts DEF BackfillWaited, At, Moves, SlotsOK, SlotType
  <1>21. ASSUME NEW k \in Slots, CycleReplies(k) PROVE SlotsOK'
      BY <1>21, CallerFacts DEF CycleReplies, SlotsOK, SlotType
  <1>22. ASSUME NEW t \in Callers, ScheduleChecks(t) PROVE SlotsOK'
      BY <1>22, CallerFacts DEF ScheduleChecks, At, Moves, SlotsOK, SlotType
  <1>23. ASSUME NEW t \in Callers, ScheduleBegins(t) PROVE SlotsOK'
      BY <1>23, CallerFacts DEF ScheduleBegins, Moves, NewJobLimit, SlotsOK, SlotType
  <1>24. ASSUME NEW t \in Callers, ScheduleDefers(t) PROVE SlotsOK'
      BY <1>24, CallerFacts DEF ScheduleDefers, NewJobLimit, After, SlotsOK, SlotType
  <1>25. ASSUME NEW t \in Callers, schedule(t) PROVE SlotsOK'
      BY <1>25, CallerFacts DEF schedule, At, Moves, SlotsOK, SlotType
  <1>26. ASSUME NEW t \in Callers, ScheduleReturns(t) PROVE SlotsOK'
      BY <1>26, CallerFacts DEF ScheduleReturns, At, Moves, SlotsOK, SlotType
  <1>27. ASSUME NEW t \in Callers, ScheduleEnds(t) PROVE SlotsOK'
      BY <1>27, CallerFacts DEF ScheduleEnds, Moves, After, SlotsOK, SlotType
  <1>28. CASE UNCHANGED <<complete, complete_job, cycle, timeouts, helper>>
      BY <1>28, CallerFacts DEF SlotsOK, SlotType
  <1> QED  BY <1>1, <1>2, <1>3, <1>4, <1>5, <1>6, <1>7, <1>8, <1>9, <1>10, <1>11,
         <1>12, <1>13, <1>14, <1>15, <1>16, <1>17, <1>18, <1>19, <1>20, <1>21, <1>22,
         <1>23, <1>24, <1>25, <1>26, <1>27, <1>28, <1>SlotsWriters

\* Only the job that time_mgr is submitting can be new to slurmctld.
LEMMA SubmissionStep ==
  ASSUME SubmissionOK, EpilogsOK, MgrType, JobType, SlotType, SlotsOK, Next
  PROVE  SubmissionOK'
  \* Who submits jobs or changes their state.
  <1>SubmissionWriters. \/ UNCHANGED <<mgr, trace_head, submit, job_state>>
                        \/ LoopTop \/ generateJob \/ rpc_sim_job \/ rpc_sim_job_uninitialised \/
                           PostSlurmSem \/ WaitSimSem \/ terminate_simulation \/ job_time_limit
                        \/ \E j \in Jobs : submit_batch_job(j) \/ SubmitQueuesScheduler(j) \/
                             epilog_complete(j) \/ Starts(j)
                        \/ \E k \in Slots : job_complete(k)
    <2> USE DEF mgr_vars, sem_vars, helper_vars, slurmd_vars, job_vars, count_vars,
             sched_vars, bf_vars, rpc_vars, slot_vars, complete_vars, cycle_vars,
             run_vars
    <2>1. ASSUME WaitSlurmSem \/ EndJob \/ NoJobEnded \/ AllJobsEnded \/ EpilogsFinished
                 \/ RetryComplete \/ GiveUpComplete \/ RetryCycle \/ GiveUpCycle \/
                 AgentWakes \/ AgentExits \/ BackfillWakes \/ BackfillLocks \/
                 BackfillReturns \/ CheckAllFinished \/ Stopped
          PROVE  UNCHANGED <<mgr, trace_head, submit, job_state>>
        BY <2>1 DEF WaitSlurmSem, EndJob, NoJobEnded, SendCycle, AllJobsEnded,
           EpilogsFinished, RetryComplete, MessageTimesOut, Expired, GiveUpComplete,
           RetryCycle, GiveUpCycle, AgentWakes, At, Moves, AgentExits, BackfillWakes,
           BackfillLocks, BackfillReturns, CheckAllFinished, Stopped, vars
    <2>2. ASSUME NEW j \in Jobs, EpilogQueuesScheduler(j) \/ EpilogReplies(j) \/
                 EpilogCounts(j) \/ EpilogReadsTotal(j) \/ EpilogWritesTotal(j) \/
                 simulator_rpc_terminate_job(j) \/ TerminateFinishes(j) \/
                 rpc_timelimit(j) \/ simulator_rpc_batch_job(j) \/ AddEvent(j)
          PROVE  UNCHANGED <<mgr, trace_head, submit, job_state>>
        BY <2>2 DEF EpilogQueuesScheduler, EpilogReplies, EpilogCounts,
           EpilogReadsTotal, EpilogWritesTotal, simulator_rpc_terminate_job,
           TerminateFinishes, rpc_timelimit, simulator_rpc_batch_job, AddEvent
    <2>3. ASSUME NEW k \in Slots, complete_batch_script(k) \/ CompleteReplies(k) \/
                 CompletedJobsArrived(k) \/ EpilogsArrived(k) \/ get_scheduler_cnt(k) \/
                 reset_scheduler_cnt(k) \/ do_backfill(k) \/ BackfillWaited(k) \/
                 CycleReplies(k)
          PROVE  UNCHANGED <<mgr, trace_head, submit, job_state>>
        BY <2>3 DEF complete_batch_script, CompleteReplies, CompletedJobsArrived,
           At, Moves, EpilogsArrived, get_scheduler_cnt, reset_scheduler_cnt,
           do_backfill, BackfillWaited, CycleReplies
    <2>4. ASSUME NEW t \in Callers, ScheduleChecks(t) \/ ScheduleBegins(t) \/
                 ScheduleDefers(t) \/ schedule(t) \/ ScheduleReturns(t) \/
                 ScheduleEnds(t)
          PROVE  UNCHANGED <<mgr, trace_head, submit, job_state>>
        BY <2>4 DEF ScheduleChecks, At, Moves, ScheduleBegins, NewJobLimit,
           ScheduleDefers, After, schedule, ScheduleReturns, ScheduleEnds
    <2> QED  BY StepCases, <2>1, <2>2, <2>3, <2>4
  <1> USE LockstepAssumption DEF mgr_vars, sem_vars, helper_vars, slurmd_vars,
           job_vars, count_vars, sched_vars, bf_vars, rpc_vars, slot_vars,
           complete_vars, cycle_vars, run_vars
  <1>1. CASE LoopTop
      BY <1>1 DEF LoopTop, SubmissionOK, MgrType, JobType, Jobs
  <1>2. CASE generateJob
      BY <1>2 DEF generateJob, JobDue, SubmissionOK, MgrType, JobType, Jobs
  <1>3. CASE rpc_sim_job
      BY <1>3, SMT DEF rpc_sim_job, SubmissionOK, MgrType, JobType, Jobs
  <1>4. CASE rpc_sim_job_uninitialised
      BY <1>4, SMT DEF rpc_sim_job_uninitialised, SubmissionOK, MgrType, JobType, Jobs
  <1>5. CASE PostSlurmSem
      BY <1>5 DEF PostSlurmSem, SubmissionOK, MgrType, JobType, Jobs
  <1>6. CASE WaitSimSem
      BY <1>6 DEF WaitSimSem, SubmissionOK, MgrType, JobType, Jobs
  <1>7. CASE terminate_simulation
      BY <1>7 DEF terminate_simulation, SubmissionOK, MgrType, JobType, Jobs
  <1>8. CASE job_time_limit
      BY <1>8 DEF job_time_limit, TimedOut, SubmissionOK, MgrType, JobType, Jobs
  <1>9. ASSUME NEW j \in Jobs, submit_batch_job(j) PROVE SubmissionOK'
    <2>1. j = trace_head /\ mgr = "submitting" /\ j \in Int
        BY <1>9, SMT DEF submit_batch_job, SubmissionOK, Jobs
    <2>2. job_state[j] = "none"
        BY <2>1, <1>9, SMT DEF SubmissionOK, JobType
    <2>3. CASE j \in Rejected
        BY <1>9, <2>1, <2>2, <2>3 DEF submit_batch_job, SubmissionOK, JobType
    <2>4. CASE j \notin Rejected
        BY <1>9, <2>1, <2>2, <2>4 DEF submit_batch_job, SubmissionOK, JobType
    <2> QED  BY <2>3, <2>4
  <1>10. ASSUME NEW j \in Jobs, SubmitQueuesScheduler(j) PROVE SubmissionOK'
      BY <1>10 DEF SubmitQueuesScheduler, SubmissionOK, MgrType, JobType, Jobs
  <1>11. ASSUME NEW j \in Jobs, epilog_complete(j) PROVE SubmissionOK'
      BY <1>11 DEF epilog_complete, EpilogsOK, SubmissionOK, MgrType, JobType, Jobs
  <1>12. ASSUME NEW k \in Slots, job_complete(k) PROVE SubmissionOK'
    <2>1. \A i \in Jobs : job_state'[i] # "none" => job_state[i] # "none"
        BY <1>12, SMT DEF job_complete, JobType
    <2>2. UNCHANGED <<mgr, trace_head, submit>>
        BY <1>12 DEF job_complete
    <2> QED  BY <2>1, <2>2 DEF SubmissionOK
  <1>13. ASSUME NEW j \in Jobs, Starts(j) PROVE SubmissionOK'
      BY <1>13 DEF Starts, StartJob, Startable, SubmissionOK, MgrType, JobType, Jobs
  <1>14. CASE UNCHANGED <<mgr, trace_head, submit, job_state>>
      BY <1>14 DEF SubmissionOK, MgrType, JobType, Jobs
  <1> QED  BY <1>1, <1>2, <1>3, <1>4, <1>5, <1>6, <1>7, <1>8, <1>9, <1>10, <1>11,
         <1>12, <1>13, <1>14, <1>SubmissionWriters

\* A job that is done has had its epilog, once.
LEMMA EpilogStep ==
  ASSUME EpilogsOK, SubmissionOK, JobType, MgrType, SlotType, SlotsOK, Next
  PROVE  EpilogsOK'
  \* Who ends jobs.
  <1>EpilogWriters. \/ UNCHANGED <<terminate, epilog, job_state>>
                    \/ job_time_limit
                    \/ \E j \in Jobs : submit_batch_job(j) \/ epilog_complete(j) \/
                         EpilogQueuesScheduler(j) \/ EpilogReplies(j) \/ EpilogCounts(j) \/
                         EpilogReadsTotal(j) \/ EpilogWritesTotal(j) \/
                         simulator_rpc_terminate_job(j) \/ TerminateFinishes(j) \/
                         rpc_timelimit(j) \/ Starts(j)
                    \/ \E k \in Slots : job_complete(k)
    <2> USE DEF mgr_vars, sem_vars, helper_vars, slurmd_vars, job_vars, count_vars,
             sched_vars, bf_vars, rpc_vars, slot_vars, complete_vars, cycle_vars,
             run_vars
    <2>1. ASSUME LoopTop \/ generateJob \/ rpc_sim_job \/ rpc_sim_job_uninitialised \/
                 PostSlurmSem \/ WaitSimSem \/ terminate_simulation \/ WaitSlurmSem \/
                 EndJob \/ NoJobEnded \/ AllJobsEnded \/ EpilogsFinished \/
                 RetryComplete \/ GiveUpComplete \/ RetryCycle \/ GiveUpCycle \/
                 AgentWakes \/ AgentExits \/ BackfillWakes \/ BackfillLocks \/
                 BackfillReturns \/ CheckAllFinished \/ Stopped
          PROVE  UNCHANGED <<terminate, epilog, job_state>>
        BY <2>1 DEF LoopTop, generateJob, rpc_sim_job, rpc_sim_job_uninitialised,
           PostSlurmSem, WaitSimSem, terminate_simulation, WaitSlurmSem, EndJob,
           NoJobEnded, SendCycle, AllJobsEnded, EpilogsFinished, RetryComplete,
           MessageTimesOut, Expired, GiveUpComplete, RetryCycle, GiveUpCycle,
           AgentWakes, At, Moves, AgentExits, BackfillWakes, BackfillLocks,
           BackfillReturns, CheckAllFinished, Stopped, vars
    <2>2. ASSUME NEW j \in Jobs, SubmitQueuesScheduler(j) \/ simulator_rpc_batch_job(j)
                 \/ AddEvent(j)
          PROVE  UNCHANGED <<terminate, epilog, job_state>>
        BY <2>2 DEF SubmitQueuesScheduler, simulator_rpc_batch_job, AddEvent
    <2>3. ASSUME NEW k \in Slots, complete_batch_script(k) \/ CompleteReplies(k) \/
                 CompletedJobsArrived(k) \/ EpilogsArrived(k) \/ get_scheduler_cnt(k) \/
                 reset_scheduler_cnt(k) \/ do_backfill(k) \/ BackfillWaited(k) \/
                 CycleReplies(k)
          PROVE  UNCHANGED <<terminate, epilog, job_state>>
        BY <2>3 DEF complete_batch_script, CompleteReplies, CompletedJobsArrived,
           At, Moves, EpilogsArrived, get_scheduler_cnt, reset_scheduler_cnt,
           do_backfill, BackfillWaited, CycleReplies
    <2>4. ASSUME NEW t \in Callers, ScheduleChecks(t) \/ ScheduleBegins(t) \/
                 ScheduleDefers(t) \/ schedule(t) \/ ScheduleReturns(t) \/
                 ScheduleEnds(t)
          PROVE  UNCHANGED <<terminate, epilog, job_state>>
        BY <2>4 DEF ScheduleChecks, At, Moves, ScheduleBegins, NewJobLimit,
           ScheduleDefers, After, schedule, ScheduleReturns, ScheduleEnds
    <2> QED  BY StepCases, <2>1, <2>2, <2>3, <2>4
  <1> USE LockstepAssumption DEF mgr_vars, sem_vars, helper_vars, slurmd_vars,
           job_vars, count_vars, sched_vars, bf_vars, rpc_vars, slot_vars,
           complete_vars, cycle_vars, run_vars
  <1>1. CASE job_time_limit
      BY <1>1 DEF job_time_limit, TimedOut, EpilogsOK, JobType
  <1>2. ASSUME NEW j \in Jobs, submit_batch_job(j) PROVE EpilogsOK'
    <2>1. j = trace_head /\ mgr = "submitting" /\ j \in Int
        BY <1>2, SMT DEF submit_batch_job, SubmissionOK, Jobs
    <2>2. job_state[j] = "none"
        BY <2>1, <1>2, SMT DEF SubmissionOK, JobType
    <2>3. CASE j \in Rejected
        BY <1>2, <2>1, <2>2, <2>3 DEF submit_batch_job, EpilogsOK, JobType
    <2>4. CASE j \notin Rejected
        BY <1>2, <2>1, <2>2, <2>4 DEF submit_batch_job, EpilogsOK, JobType
    <2> QED  BY <2>3, <2>4
  <1>3. ASSUME NEW j \in Jobs, epilog_complete(j) PROVE EpilogsOK'
      BY <1>3 DEF epilog_complete, EpilogsOK, JobType
  <1>4. ASSUME NEW j \in Jobs, EpilogQueuesScheduler(j) PROVE EpilogsOK'
      BY <1>4 DEF EpilogQueuesScheduler, EpilogsOK, JobType
  <1>5. ASSUME NEW j \in Jobs, EpilogReplies(j) PROVE EpilogsOK'
      BY <1>5 DEF EpilogReplies, EpilogsOK, JobType
  <1>6. ASSUME NEW j \in Jobs, EpilogCounts(j) PROVE EpilogsOK'
      BY <1>6 DEF EpilogCounts, EpilogsOK, JobType
  <1>7. ASSUME NEW j \in Jobs, EpilogReadsTotal(j) PROVE EpilogsOK'
      BY <1>7 DEF EpilogReadsTotal, EpilogsOK, JobType
  <1>8. ASSUME NEW j \in Jobs, EpilogWritesTotal(j) PROVE EpilogsOK'
      BY <1>8 DEF EpilogWritesTotal, EpilogsOK, JobType
  <1>9. ASSUME NEW j \in Jobs, simulator_rpc_terminate_job(j) PROVE EpilogsOK'
    <2>1. terminate[j] = "queued" /\ UNCHANGED job_state
        BY <1>9 DEF simulator_rpc_terminate_job
    <2>2. job_state[j] = "COMPLETING"
        BY <2>1 DEF EpilogsOK
    <2>3. CASE j \in completed
      <3>1. /\ terminate' = [terminate EXCEPT ![j] = "epilog"]
            /\ epilog' = [epilog EXCEPT ![j] = "arrived"]
          BY <1>9, <2>3 DEF simulator_rpc_terminate_job
      <3> QED  BY <2>1, <2>2, <3>1 DEF EpilogsOK, JobType
    <2>4. CASE j \notin completed
      <3>1. terminate' = [terminate EXCEPT ![j] = "none"] /\ UNCHANGED epilog
          BY <1>9, <2>4 DEF simulator_rpc_terminate_job
      <3> QED  BY <2>1, <3>1 DEF EpilogsOK, JobType
    <2> QED  BY <2>3, <2>4
  <1>10. ASSUME NEW j \in Jobs, TerminateFinishes(j) PROVE EpilogsOK'
      BY <1>10 DEF TerminateFinishes, EpilogsOK, JobType
  <1>11. ASSUME NEW j \in Jobs, rpc_timelimit(j) PROVE EpilogsOK'
      BY <1>11 DEF rpc_timelimit, EpilogsOK, JobType
  <1>12. ASSUME NEW k \in Slots, job_complete(k) PROVE EpilogsOK'
    <2>1. CASE job_state[complete_job[k]] = "RUNNING"
      <3>1. complete_job[k] \in Jobs
          BY <1>12 DEF job_complete, SlotsOK
      <3>2. /\ job_state' = [job_state EXCEPT ![complete_job[k]] = "COMPLETING"]
            /\ terminate' = [terminate EXCEPT ![complete_job[k]] = "queued"]
            /\ epilog' = epilog
          BY <1>12, <2>1 DEF job_complete
      <3>3. epilog[complete_job[k]] = "none"
          BY <2>1, <3>1 DEF EpilogsOK
      <3> QED  BY <3>1, <3>2, <3>3, SMT DEF EpilogsOK, JobType
    <2>2. CASE job_state[complete_job[k]] # "RUNNING"
        BY <1>12, <2>2 DEF job_complete, EpilogsOK
    <2> QED  BY <2>1, <2>2
  <1>13. ASSUME NEW j \in Jobs, Starts(j) PROVE EpilogsOK'
      BY <1>13 DEF Starts, StartJob, Startable, EpilogsOK, JobType
  <1>14. CASE UNCHANGED <<terminate, epilog, job_state>>
      BY <1>14 DEF EpilogsOK, JobType
  <1> QED  BY <1>1, <1>2, <1>3, <1>4, <1>5, <1>6, <1>7, <1>8, <1>9, <1>10, <1>11,
         <1>12, <1>13, <1>14, <1>EpilogWriters


\* The initial state satisfies the type invariant and what it rests on.
LEMMA BaseInit == Init => Base
  <1> SUFFICES ASSUME Init PROVE Base
      OBVIOUS
  <1> USE LockstepAssumption
  <1>1. MgrType
    <2>1. trace_head \in 1..NJobs + 1 /\ current_sim \in Nat  BY SMT DEF Init
    <2> QED  BY <2>1 DEF Init, MgrType
  <1>2. HelperType  BY SMT DEF Init, HelperType
  <1>3. CounterType  BY DEF Init, CounterType
  <1>4. JobType  BY DEF Init, JobType
  <1>5. EventType  BY SMT DEF Init, EventType
  <1>6. SlotType
    <2>1. timeouts \in Slots /\ sched_job_limit \in Int /\ job_depth \in Int
        BY CallerFacts, SMTT(30) DEF Init
    <2>2. /\ total_jobs_ended \in [Slots -> Nat] /\ current_time \in [Slots -> Nat]
          /\ complete_job \in [Slots -> Jobs \cup {0}]
        BY DEF Init
    <2> QED  BY <2>1, <2>2 DEF Init, SlotType
  <1>7. SlotsOK  BY <1>6, CallerFacts DEF Init, SlotsOK, SlotType
  <1>8. SubmissionOK  BY DEF Init, SubmissionOK
  <1>9. EpilogsOK  BY DEF Init, EpilogsOK
  <1> QED  BY <1>1, <1>2, <1>3, <1>4, <1>5, <1>6, <1>7, <1>8, <1>9, TypeParts DEF Base

\* Every step preserves the type invariant and what it rests on.
LEMMA BaseStep == Base /\ [Next]_vars => Base'
  <1> SUFFICES ASSUME Base, [Next]_vars PROVE Base'
      OBVIOUS
  <1>1. CASE Next
    <2>1. MgrType /\ HelperType /\ CounterType /\ JobType /\ EventType /\ SlotType
        BY TypeParts DEF Base
    <2>2. MgrType' /\ HelperType' /\ CounterType'
        BY <1>1, <2>1, MgrStep, HelperStep, CounterStep DEF Base
    <2>3. JobType' /\ EventType' /\ SlotType'
        BY <1>1, <2>1, JobStep, EventStep, SlotStep DEF Base
    <2>4. SlotsOK' /\ SubmissionOK' /\ EpilogsOK'
        BY <1>1, <2>1, SlotsStep, SubmissionStep, EpilogStep DEF Base
    <2>5. TypeOK'
        BY <2>2, <2>3 DEF TypeOK, MgrType, HelperType, CounterType, JobType, EventType, SlotType
    <2> QED  BY <2>4, <2>5 DEF Base
  <1>2. CASE UNCHANGED vars
    <2> USE <1>2 DEF vars, mgr_vars, sem_vars, helper_vars, slurmd_vars, job_vars, count_vars, sched_vars, bf_vars,
               rpc_vars, slot_vars, complete_vars, cycle_vars, run_vars
    <2>1. TypeOK'
      <3>1. MgrType' /\ HelperType'  BY TypeParts DEF Base, MgrType, HelperType
      <3>2. CounterType'  BY TypeParts DEF Base, CounterType
      <3>3. JobType' /\ EventType'  BY TypeParts DEF Base, JobType, EventType
      <3>4. SlotType'  BY TypeParts DEF Base, SlotType
      <3> QED
          BY <3>1, <3>2, <3>3, <3>4
          DEF TypeOK, MgrType, HelperType, CounterType, JobType, EventType, SlotType
    <2>2. SlotsOK'  BY DEF Base, SlotsOK
    <2>3. SubmissionOK' /\ EpilogsOK'  BY DEF Base, SubmissionOK, EpilogsOK
    <2> QED  BY <2>1, <2>2, <2>3 DEF Base
  <1> QED  BY <1>1, <1>2

\* Base is an invariant.
LEMMA BaseInvariant == Spec => []Base
  BY BaseInit, BaseStep, PTL DEF Spec

\* Every variable keeps its type: no semaphore or counter of slurmctld
\* becomes negative, the walk along the trace stops at its end, and the list
\* of completions only ever holds jobs of the trace.
THEOREM TypeCorrect == Spec => []TypeOK
  <1>1. Base => TypeOK  BY DEF Base
  <1> QED  BY <1>1, BaseInvariant, PTL
-----------------------------------------------------------------------------
(* The token                                                               *)

\* Whoever gives the token away had it.
LEMMA TokenStep ==
  ASSUME OneToken, HelperType, SlotsOK, SubmissionOK, Next
  PROVE  OneToken'
  \* Who moves the token.
  <1>TokenWriters. \/ UNCHANGED <<mgr, slurm_sem, helper, sim_sem>>
                   \/ LoopTop \/ generateJob \/ rpc_sim_job \/ rpc_sim_job_uninitialised \/
                      PostSlurmSem \/ WaitSimSem \/ terminate_simulation \/ WaitSlurmSem \/
                      EndJob \/ NoJobEnded \/ AllJobsEnded \/ EpilogsFinished \/ GiveUpComplete
                      \/ GiveUpCycle
                   \/ \E j \in Jobs : submit_batch_job(j)
                   \/ \E k \in Slots : CompleteReplies(k) \/ CycleReplies(k)
    <2> USE DEF mgr_vars, sem_vars, helper_vars, slurmd_vars, job_vars, count_vars,
             sched_vars, bf_vars, rpc_vars, slot_vars, complete_vars, cycle_vars,
             run_vars
    <2>1. ASSUME RetryComplete \/ RetryCycle \/ AgentWakes \/ AgentExits \/
                 BackfillWakes \/ BackfillLocks \/ BackfillReturns \/ job_time_limit \/
                 CheckAllFinished \/ Stopped
          PROVE  UNCHANGED <<mgr, slurm_sem, helper, sim_sem>>
        BY <2>1 DEF RetryComplete, MessageTimesOut, Expired, RetryCycle,
           AgentWakes, At, Moves, AgentExits, BackfillWakes, BackfillLocks,
           BackfillReturns, job_time_limit, CheckAllFinished, Stopped, vars
    <2>2. ASSUME NEW j \in Jobs, SubmitQueuesScheduler(j) \/ epilog_complete(j) \/
                 EpilogQueuesScheduler(j) \/ EpilogReplies(j) \/ EpilogCounts(j) \/
                 EpilogReadsTotal(j) \/ EpilogWritesTotal(j) \/
                 simulator_rpc_terminate_job(j) \/ TerminateFinishes(j) \/
                 rpc_timelimit(j) \/ simulator_rpc_batch_job(j) \/ AddEvent(j) \/
                 Starts(j)
          PROVE  UNCHANGED <<mgr, slurm_sem, helper, sim_sem>>
        BY <2>2 DEF SubmitQueuesScheduler, epilog_complete,
           EpilogQueuesScheduler, EpilogReplies, EpilogCounts, EpilogReadsTotal,
           EpilogWritesTotal, simulator_rpc_terminate_job, TerminateFinishes,
           rpc_timelimit, simulator_rpc_batch_job, AddEvent, Starts, StartJob
    <2>3. ASSUME NEW k \in Slots, complete_batch_script(k) \/ job_complete(k) \/
                 CompletedJobsArrived(k) \/ EpilogsArrived(k) \/ get_scheduler_cnt(k) \/
                 reset_scheduler_cnt(k) \/ do_backfill(k) \/ BackfillWaited(k)
          PROVE  UNCHANGED <<mgr, slurm_sem, helper, sim_sem>>
        BY <2>3 DEF complete_batch_script, job_complete, CompletedJobsArrived,
           At, Moves, EpilogsArrived, get_scheduler_cnt, reset_scheduler_cnt,
           do_backfill, BackfillWaited
    <2>4. ASSUME NEW t \in Callers, ScheduleChecks(t) \/ ScheduleBegins(t) \/
                 ScheduleDefers(t) \/ schedule(t) \/ ScheduleReturns(t) \/
                 ScheduleEnds(t)
          PROVE  UNCHANGED <<mgr, slurm_sem, helper, sim_sem>>
        BY <2>4 DEF ScheduleChecks, At, Moves, ScheduleBegins, NewJobLimit,
           ScheduleDefers, After, schedule, ScheduleReturns, ScheduleEnds
    <2> QED  BY StepCases, <2>1, <2>2, <2>3, <2>4
  <1> USE LockstepAssumption DEF mgr_vars, sem_vars, helper_vars, slurmd_vars,
           job_vars, count_vars, sched_vars, bf_vars, rpc_vars, slot_vars,
           complete_vars, cycle_vars, run_vars
  <1>1. CASE LoopTop
      BY <1>1 DEF LoopTop, OneToken, One, HelperType
  <1>2. CASE generateJob
      BY <1>2 DEF generateJob, OneToken, One, HelperType
  <1>3. CASE rpc_sim_job
      BY <1>3 DEF rpc_sim_job, OneToken, One, HelperType
  <1>4. CASE rpc_sim_job_uninitialised
      BY <1>4 DEF rpc_sim_job_uninitialised, OneToken, One, HelperType
  <1>5. CASE PostSlurmSem
      BY <1>5, SMT DEF PostSlurmSem, OneToken, One, HelperType
  <1>6. CASE WaitSimSem
      BY <1>6, SMT DEF WaitSimSem, OneToken, One, HelperType
  <1>7. CASE terminate_simulation
      BY <1>7 DEF terminate_simulation, OneToken, One, HelperType
  <1>8. CASE WaitSlurmSem
      BY <1>8, SMT DEF WaitSlurmSem, OneToken, One, HelperType
  <1>9. CASE EndJob
      BY <1>9 DEF EndJob, OneToken, One, HelperType
  <1>10. CASE NoJobEnded
      BY <1>10 DEF NoJobEnded, SendCycle, OneToken, One, HelperType
  <1>11. CASE AllJobsEnded
      BY <1>11 DEF AllJobsEnded, OneToken, One, HelperType
  <1>12. CASE EpilogsFinished
      BY <1>12 DEF EpilogsFinished, SendCycle, OneToken, One, HelperType
  <1>13. CASE GiveUpComplete
      BY <1>13 DEF GiveUpComplete, MessageTimesOut, Expired, OneToken, One, HelperType
  <1>14. CASE GiveUpCycle
      BY <1>14, SMT DEF GiveUpCycle, MessageTimesOut, Expired, OneToken, One, HelperType
  <1>15. ASSUME NEW j \in Jobs, submit_batch_job(j) PROVE OneToken'
      BY <1>15 DEF submit_batch_job, SubmissionOK, OneToken, One, HelperType
  <1>16. ASSUME NEW k \in Slots, CompleteReplies(k) PROVE OneToken'
      BY <1>16 DEF CompleteReplies, SlotsOK, OneToken, One, HelperType
  <1>17. ASSUME NEW k \in Slots, CycleReplies(k) PROVE OneToken'
      BY <1>17, SMT DEF CycleReplies, SlotsOK, OneToken, One, HelperType
  <1>18. CASE UNCHANGED <<mgr, slurm_sem, helper, sim_sem>>
      BY <1>18 DEF OneToken, One, HelperType
  <1> QED  BY <1>1, <1>2, <1>3, <1>4, <1>5, <1>6, <1>7, <1>8, <1>9, <1>10, <1>11,
         <1>12, <1>13, <1>14, <1>15, <1>16, <1>17, <1>18, <1>TokenWriters

-----------------------------------------------------------------------------
(* Lockstep                                                                *)

\* The same for mutex_bf and mutex_bf_done: the backfill agent is active
\* exactly while the one cycle handler waits for it.
BackfillToken ==
  timeouts = 0 => mutex_bf + One(backfill # "sleep") + mutex_bf_done = One(cycle[0] = "bf_wait")

\* The cycle handler waits for the attempt it asked for.
LEMMA BackfillTokenStep ==
  ASSUME BackfillToken, CounterType, SlotType, SlotsOK, Next
  PROVE  BackfillToken'
  \* Who wakes the backfill agent, and who is woken by it.
  <1>BackfillTokenWriters. \/ UNCHANGED <<mutex_bf, mutex_bf_done, backfill, cycle, timeouts>>
                           \/ NoJobEnded \/ EpilogsFinished \/ RetryComplete \/ GiveUpComplete \/
                              RetryCycle \/ GiveUpCycle \/ AgentWakes \/ AgentExits \/ BackfillWakes \/
                              BackfillLocks \/ BackfillReturns
                           \/ \E k \in Slots : CompletedJobsArrived(k) \/ EpilogsArrived(k) \/
                                get_scheduler_cnt(k) \/ reset_scheduler_cnt(k) \/ do_backfill(k) \/
                                BackfillWaited(k) \/ CycleReplies(k)
                           \/ \E t \in Callers : ScheduleChecks(t) \/ ScheduleBegins(t) \/
                                ScheduleDefers(t) \/ schedule(t) \/ ScheduleReturns(t) \/
                                ScheduleEnds(t)
    <2> USE DEF mgr_vars, sem_vars, helper_vars, slurmd_vars, job_vars, count_vars,
             sched_vars, bf_vars, rpc_vars, slot_vars, complete_vars, cycle_vars,
             run_vars
    <2>1. ASSUME LoopTop \/ generateJob \/ rpc_sim_job \/ rpc_sim_job_uninitialised \/
                 PostSlurmSem \/ WaitSimSem \/ terminate_simulation \/ WaitSlurmSem \/
                 EndJob \/ AllJobsEnded \/ job_time_limit \/ CheckAllFinished \/ Stopped
          PROVE  UNCHANGED <<mutex_bf, mutex_bf_done, backfill, cycle, timeouts>>
        BY <2>1 DEF LoopTop, generateJob, rpc_sim_job, rpc_sim_job_uninitialised,
           PostSlurmSem, WaitSimSem, terminate_simulation, WaitSlurmSem, EndJob,
           AllJobsEnded, job_time_limit, CheckAllFinished, Stopped, vars
    <2>2. ASSUME NEW j \in Jobs, submit_batch_job(j) \/ SubmitQueuesScheduler(j) \/
                 epilog_complete(j) \/ EpilogQueuesScheduler(j) \/ EpilogReplies(j) \/
                 EpilogCounts(j) \/ EpilogReadsTotal(j) \/ EpilogWritesTotal(j) \/
                 simulator_rpc_terminate_job(j) \/ TerminateFinishes(j) \/
                 rpc_timelimit(j) \/ simulator_rpc_batch_job(j) \/ AddEvent(j) \/
                 Starts(j)
          PROVE  UNCHANGED <<mutex_bf, mutex_bf_done, backfill, cycle, timeouts>>
        BY <2>2 DEF submit_batch_job, SubmitQueuesScheduler, epilog_complete,
           EpilogQueuesScheduler, EpilogReplies, EpilogCounts, EpilogReadsTotal,
           EpilogWritesTotal, simulator_rpc_terminate_job, TerminateFinishes,
           rpc_timelimit, simulator_rpc_batch_job, AddEvent, Starts, StartJob
    <2>3. ASSUME NEW k \in Slots, complete_batch_script(k) \/ job_complete(k) \/
                 CompleteReplies(k)
          PROVE  UNCHANGED <<mutex_bf, mutex_bf_done, backfill, cycle, timeouts>>
        BY <2>3 DEF complete_batch_script, job_complete, CompleteReplies
    <2> QED  BY StepCases, <2>1, <2>2, <2>3
  <1> USE LockstepAssumption DEF mgr_vars, sem_vars, helper_vars, slurmd_vars,
           job_vars, count_vars, sched_vars, bf_vars, rpc_vars, slot_vars,
           complete_vars, cycle_vars, run_vars
  <1>1. CASE NoJobEnded
      BY <1>1, CallerFacts DEF NoJobEnded, SendCycle, SlotsOK, BackfillToken, One,
         CounterType, SlotType
  <1>2. CASE EpilogsFinished
      BY <1>2, CallerFacts DEF EpilogsFinished, SendCycle, SlotsOK, BackfillToken,
         One, CounterType, SlotType
  <1>3. CASE RetryComplete
      BY <1>3, CallerFacts, SMT DEF RetryComplete, MessageTimesOut, Expired, SlotsOK,
         BackfillToken, One, CounterType, SlotType
  <1>4. CASE GiveUpComplete
      BY <1>4, CallerFacts, SMTT(20) DEF GiveUpComplete, MessageTimesOut, Expired, SlotsOK,
         BackfillToken, One, CounterType, SlotType
  <1>5. CASE RetryCycle
      BY <1>5, CallerFacts, SMTT(20) DEF RetryCycle, MessageTimesOut, Expired, SlotsOK,
         BackfillToken, One, CounterType, SlotType
  <1>6. CASE GiveUpCycle
      BY <1>6, CallerFacts, SMT DEF GiveUpCycle, MessageTimesOut, Expired, SlotsOK,
         BackfillToken, One, CounterType, SlotType
  <1>7. CASE AgentWakes
      BY <1>7, CallerFacts DEF AgentWakes, At, Moves, BackfillToken, One, CounterType,
         SlotType
  <1>8. CASE AgentExits
      BY <1>8, CallerFacts DEF AgentExits, At, Moves, BackfillToken, One, CounterType,
         SlotType
  <1>9. CASE BackfillWakes
      BY <1>9, CallerFacts, SMT DEF BackfillWakes, BackfillToken, One, CounterType,
         SlotType
  <1>10. CASE BackfillLocks
      BY <1>10, CallerFacts DEF BackfillLocks, BackfillToken, One, CounterType,
         SlotType
  <1>11. CASE BackfillReturns
      BY <1>11, CallerFacts, SMT DEF BackfillReturns, BackfillToken, One, CounterType,
         SlotType
  <1>12. ASSUME NEW k \in Slots, CompletedJobsArrived(k) PROVE BackfillToken'
      BY <1>12, CallerFacts DEF CompletedJobsArrived, At, Moves, BackfillToken, One,
         CounterType, SlotType
  <1>13. ASSUME NEW k \in Slots, EpilogsArrived(k) PROVE BackfillToken'
      BY <1>13, CallerFacts DEF EpilogsArrived, At, Moves, BackfillToken, One,
         CounterType, SlotType
  <1>14. ASSUME NEW k \in Slots, get_scheduler_cnt(k) PROVE BackfillToken'
      BY <1>14, CallerFacts DEF get_scheduler_cnt, BackfillToken, One, CounterType,
         SlotType
  <1>15. ASSUME NEW k \in Slots, reset_scheduler_cnt(k) PROVE BackfillToken'
      BY <1>15, CallerFacts DEF reset_scheduler_cnt, At, Moves, BackfillToken, One,
         CounterType, SlotType
  <1>16. ASSUME NEW k \in Slots, do_backfill(k) PROVE BackfillToken'
      BY <1>16, CallerFacts, SMTT(20) DEF do_backfill, At, Moves, SlotsOK, BackfillToken, One,
         CounterType, SlotType
  <1>17. ASSUME NEW k \in Slots, BackfillWaited(k) PROVE BackfillToken'
      BY <1>17, CallerFacts, SMT DEF BackfillWaited, At, Moves, SlotsOK, BackfillToken,
         One, CounterType, SlotType
  <1>18. ASSUME NEW k \in Slots, CycleReplies(k) PROVE BackfillToken'
      BY <1>18, CallerFacts DEF CycleReplies, BackfillToken, One, CounterType,
         SlotType
  <1>19. ASSUME NEW t \in Callers, ScheduleChecks(t) PROVE BackfillToken'
      BY <1>19, CallerFacts DEF ScheduleChecks, At, Moves, BackfillToken, One,
         CounterType, SlotType
  <1>20. ASSUME NEW t \in Callers, ScheduleBegins(t) PROVE BackfillToken'
      BY <1>20, CallerFacts DEF ScheduleBegins, Moves, NewJobLimit, BackfillToken,
         One, CounterType, SlotType
  <1>21. ASSUME NEW t \in Callers, ScheduleDefers(t) PROVE BackfillToken'
      BY <1>21, CallerFacts DEF ScheduleDefers, NewJobLimit, After, BackfillToken,
         One, CounterType, SlotType
  <1>22. ASSUME NEW t \in Callers, schedule(t) PROVE BackfillToken'
      BY <1>22, CallerFacts DEF schedule, At, Moves, BackfillToken, One, CounterType,
         SlotType
  <1>23. ASSUME NEW t \in Callers, ScheduleReturns(t) PROVE BackfillToken'
      BY <1>23, CallerFacts DEF ScheduleReturns, At, Moves, BackfillToken, One,
         CounterType, SlotType
  <1>24. ASSUME NEW t \in Callers, ScheduleEnds(t) PROVE BackfillToken'
      BY <1>24, CallerFacts DEF ScheduleEnds, Moves, After, BackfillToken, One,
         CounterType, SlotType
  <1>25. CASE UNCHANGED <<mutex_bf, mutex_bf_done, backfill, cycle, timeouts>>
      BY <1>25, CallerFacts DEF BackfillToken, One, CounterType, SlotType
  <1> QED  BY <1>1, <1>2, <1>3, <1>4, <1>5, <1>6, <1>7, <1>8, <1>9, <1>10, <1>11,
         <1>12, <1>13, <1>14, <1>15, <1>16, <1>17, <1>18, <1>19, <1>20, <1>21, <1>22,
         <1>23, <1>24, <1>25, <1>BackfillTokenWriters

\* schedule() is never deferred: there is one cycle handler, no agent, and
\* sched_running tells where the handler is.
RunOK ==
  timeouts = 0 =>
    /\ cycle[Agent] = "none" /\ cycle[0] # "defer"
    /\ sched_running <=> cycle[0] \in {"lock", "schedule", "fini"}

\* schedule() finds sched_running set only when two cycles overlap.
LEMMA RunStep ==
  ASSUME RunOK, SlotType, SlotsOK, Next
  PROVE  RunOK'
  \* Who calls schedule().
  <1>RunWriters. \/ UNCHANGED <<cycle, timeouts, sched_running>>
                 \/ NoJobEnded \/ EpilogsFinished \/ RetryComplete \/ GiveUpComplete \/
                    RetryCycle \/ GiveUpCycle \/ AgentWakes \/ AgentExits
                 \/ \E k \in Slots : CompletedJobsArrived(k) \/ EpilogsArrived(k) \/
                      get_scheduler_cnt(k) \/ reset_scheduler_cnt(k) \/ do_backfill(k) \/
                      BackfillWaited(k) \/ CycleReplies(k)
                 \/ \E t \in Callers : ScheduleChecks(t) \/ ScheduleBegins(t) \/
                      ScheduleDefers(t) \/ schedule(t) \/ ScheduleReturns(t) \/
                      ScheduleEnds(t)
    <2> USE DEF mgr_vars, sem_vars, helper_vars, slurmd_vars, job_vars, count_vars,
             sched_vars, bf_vars, rpc_vars, slot_vars, complete_vars, cycle_vars,
             run_vars
    <2>1. ASSUME LoopTop \/ generateJob \/ rpc_sim_job \/ rpc_sim_job_uninitialised \/
                 PostSlurmSem \/ WaitSimSem \/ terminate_simulation \/ WaitSlurmSem \/
                 EndJob \/ AllJobsEnded \/ BackfillWakes \/ BackfillLocks \/
                 BackfillReturns \/ job_time_limit \/ CheckAllFinished \/ Stopped
          PROVE  UNCHANGED <<cycle, timeouts, sched_running>>
        BY <2>1 DEF LoopTop, generateJob, rpc_sim_job, rpc_sim_job_uninitialised,
           PostSlurmSem, WaitSimSem, terminate_simulation, WaitSlurmSem, EndJob,
           AllJobsEnded, BackfillWakes, BackfillLocks, BackfillReturns, job_time_limit,
           CheckAllFinished, Stopped, vars
    <2>2. ASSUME NEW j \in Jobs, submit_batch_job(j) \/ SubmitQueuesScheduler(j) \/
                 epilog_complete(j) \/ EpilogQueuesScheduler(j) \/ EpilogReplies(j) \/
                 EpilogCounts(j) \/ EpilogReadsTotal(j) \/ EpilogWritesTotal(j) \/
                 simulator_rpc_terminate_job(j) \/ TerminateFinishes(j) \/
                 rpc_timelimit(j) \/ simulator_rpc_batch_job(j) \/ AddEvent(j) \/
                 Starts(j)
          PROVE  UNCHANGED <<cycle, timeouts, sched_running>>
        BY <2>2 DEF submit_batch_job, SubmitQueuesScheduler, epilog_complete,
           EpilogQueuesScheduler, EpilogReplies, EpilogCounts, EpilogReadsTotal,
           EpilogWritesTotal, simulator_rpc_terminate_job, TerminateFinishes,
           rpc_timelimit, simulator_rpc_batch_job, AddEvent, Starts, StartJob
    <2>3. ASSUME NEW k \in Slots, complete_batch_script(k) \/ job_complete(k) \/
                 CompleteReplies(k)
          PROVE  UNCHANGED <<cycle, timeouts, sched_running>>
        BY <2>3 DEF complete_batch_script, job_complete, CompleteReplies
    <2> QED  BY StepCases, <2>1, <2>2, <2>3
  <1> USE LockstepAssumption DEF mgr_vars, sem_vars, helper_vars, slurmd_vars,
           job_vars, count_vars, sched_vars, bf_vars, rpc_vars, slot_vars,
           complete_vars, cycle_vars, run_vars
  <1>1. CASE NoJobEnded
      BY <1>1, CallerFacts DEF NoJobEnded, SendCycle, RunOK, SlotsOK, SlotType
  <1>2. CASE EpilogsFinished
      BY <1>2, CallerFacts DEF EpilogsFinished, SendCycle, RunOK, SlotsOK, SlotType
  <1>3. CASE RetryComplete
      BY <1>3, CallerFacts, SMTT(20) DEF RetryComplete, MessageTimesOut, Expired, RunOK,
         SlotsOK, SlotType
  <1>4. CASE GiveUpComplete
      BY <1>4, CallerFacts, SMT DEF GiveUpComplete, MessageTimesOut, Expired, RunOK,
         SlotsOK, SlotType
  <1>5. CASE RetryCycle
      BY <1>5, CallerFacts, SMT DEF RetryCycle, MessageTimesOut, Expired, RunOK, SlotsOK,
         SlotType
  <1>6. CASE GiveUpCycle
      BY <1>6, CallerFacts, SMT DEF GiveUpCycle, MessageTimesOut, Expired, RunOK, SlotsOK,
         SlotType
  <1>7. CASE AgentWakes
      BY <1>7, CallerFacts DEF AgentWakes, At, Moves, RunOK, SlotsOK, SlotType
  <1>8. CASE AgentExits
      BY <1>8, CallerFacts DEF AgentExits, At, Moves, RunOK, SlotsOK, SlotType
  <1>9. ASSUME NEW k \in Slots, CompletedJobsArrived(k) PROVE RunOK'
      BY <1>9, CallerFacts DEF CompletedJobsArrived, At, Moves, RunOK, SlotsOK,
         SlotType
  <1>10. ASSUME NEW k \in Slots, EpilogsArrived(k) PROVE RunOK'
      BY <1>10, CallerFacts DEF EpilogsArrived, At, Moves, RunOK, SlotsOK, SlotType
  <1>11. ASSUME NEW k \in Slots, get_scheduler_cnt(k) PROVE RunOK'
      BY <1>11, CallerFacts DEF get_scheduler_cnt, RunOK, SlotsOK, SlotType
  <1>12. ASSUME NEW k \in Slots, reset_scheduler_cnt(k) PROVE RunOK'
      BY <1>12, CallerFacts DEF reset_scheduler_cnt, At, Moves, RunOK, SlotsOK,
         SlotType
  <1>13. ASSUME NEW k \in Slots, do_backfill(k) PROVE RunOK'
      BY <1>13, CallerFacts DEF do_backfill, At, Moves, RunOK, SlotsOK, SlotType
  <1>14. ASSUME NEW k \in Slots, BackfillWaited(k) PROVE RunOK'
      BY <1>14, CallerFacts DEF BackfillWaited, At, Moves, RunOK, SlotsOK, SlotType
  <1>15. ASSUME NEW k \in Slots, CycleReplies(k) PROVE RunOK'
      BY <1>15, CallerFacts DEF CycleReplies, RunOK, SlotsOK, SlotType
  <1>16. ASSUME NEW t \in Callers, ScheduleChecks(t) PROVE RunOK'
      BY <1>16, CallerFacts DEF ScheduleChecks, At, Moves, RunOK, SlotsOK, SlotType
  <1>17. ASSUME NEW t \in Callers, ScheduleBegins(t) PROVE RunOK'
      BY <1>17, CallerFacts, SMT DEF ScheduleBegins, Moves, NewJobLimit, RunOK, SlotsOK,
         SlotType
  <1>18. ASSUME NEW t \in Callers, ScheduleDefers(t) PROVE RunOK'
      BY <1>18, CallerFacts, SMT DEF ScheduleDefers, NewJobLimit, After, RunOK, SlotsOK,
         SlotType
  <1>19. ASSUME NEW t \in Callers, schedule(t) PROVE RunOK'
      BY <1>19, CallerFacts, SMT DEF schedule, At, Moves, RunOK, SlotsOK, SlotType
  <1>20. ASSUME NEW t \in Callers, ScheduleReturns(t) PROVE RunOK'
      BY <1>20, CallerFacts DEF ScheduleReturns, At, Moves, RunOK, SlotsOK, SlotType
  <1>21. ASSUME NEW t \in Callers, ScheduleEnds(t) PROVE RunOK'
      BY <1>21, CallerFacts, SMT DEF ScheduleEnds, Moves, After, RunOK, SlotsOK, SlotType
  <1>22. CASE UNCHANGED <<cycle, timeouts, sched_running>>
      BY <1>22, CallerFacts DEF RunOK, SlotsOK, SlotType
  <1> QED  BY <1>1, <1>2, <1>3, <1>4, <1>5, <1>6, <1>7, <1>8, <1>9, <1>10, <1>11,
         <1>12, <1>13, <1>14, <1>15, <1>16, <1>17, <1>18, <1>19, <1>20, <1>21, <1>22,
         <1>RunWriters

\* With the helper asleep, all messages are answered; then the backfill
\* agent is not needed by anyone.
LEMMA AsleepMeansIdle == Base /\ BackfillToken /\ RunOK => Lockstep
  <1> SUFFICES ASSUME Base, BackfillToken, RunOK, timeouts = 0, helper = "sleep"
               PROVE  /\ \A k \in Slots : complete[k] = "none"
                      /\ \A t \in Callers : cycle[t] = "none"
                      /\ backfill = "sleep" /\ mutex_bf = 0 /\ mutex_bf_done = 0
      BY DEF Lockstep
  <1> USE LockstepAssumption
  <1>1. CounterType /\ SlotType /\ SlotsOK
      BY TypeParts DEF Base
  <1>2. \A k \in Slots : complete[k] = "none" /\ cycle[k] = "none"
      BY <1>1, SMT DEF SlotsOK, Slots
  <1>3. cycle[0] = "none" /\ \A t \in Callers : cycle[t] = "none"
      BY <1>2, CallerFacts DEF RunOK
  <1>4. mutex_bf + One(backfill # "sleep") + mutex_bf_done = 0
      BY <1>3 DEF BackfillToken, One
  <1> QED  BY <1>1, <1>2, <1>3, <1>4, SMT DEF One, CounterType

-----------------------------------------------------------------------------
(* The list of completions                                                 *)

\* Completions are entered in order and taken off the front.
LEMMA OrderStep ==
  ASSUME EventsOrdered, EventType, MgrType, JobType, Next
  PROVE  EventsOrdered'
  <1> USE LockstepAssumption DEF mgr_vars, sem_vars, helper_vars, slurmd_vars,
           job_vars, count_vars, sched_vars, bf_vars, rpc_vars, slot_vars,
           complete_vars, cycle_vars, run_vars
  <1>1. CASE EndJob
      BY <1>1, TailKeepsOrder DEF EndJob, EventDue, EventType, EventsOrdered
  <1>2. ASSUME NEW j \in Jobs, AddEvent(j) PROVE EventsOrdered'
    <2>1. info[j] # -1 => [job |-> j, when |-> current_sim + info[j]] \in Event(Jobs)
        BY SMT DEF JobType, MgrType, Event
    <2> QED  BY <1>2, <2>1, AddKeepsOrder DEF AddEvent, EventType, EventsOrdered
  <1>3. CASE UNCHANGED events
      BY <1>3 DEF EventsOrdered
  <1> QED  BY <1>1, <1>2, <1>3, EventWriters

-----------------------------------------------------------------------------
(* The theorems                                                            *)

Safe == Base /\ OneToken /\ BackfillToken /\ RunOK /\ EventsOrdered

\* The initial state is safe.
LEMMA SafeInit == Init => Safe
  <1> SUFFICES ASSUME Init PROVE Safe
      OBVIOUS
  <1> USE LockstepAssumption
  <1>1. Base  BY BaseInit
  <1>2. OneToken  BY SMT DEF Init, OneToken, One
  <1>3. BackfillToken /\ RunOK  BY CallerFacts, SMT DEF Init, BackfillToken, RunOK, One
  <1>4. EventsOrdered  BY SMT DEF Init, EventsOrdered, IsOrdered
  <1> QED  BY <1>1, <1>2, <1>3, <1>4 DEF Safe

\* The parts of Safe the proofs of single steps use.
LEMMA SafeParts ==
  Safe => /\ MgrType /\ HelperType /\ CounterType /\ JobType /\ EventType /\ SlotType
          /\ SlotsOK /\ SubmissionOK /\ EpilogsOK
  BY TypeParts DEF Safe, Base

\* Every step preserves Safe.
LEMMA SafeStep == Safe /\ [Next]_vars => Safe'
  <1> SUFFICES ASSUME Safe, [Next]_vars PROVE Safe'
      OBVIOUS
  <1>1. Base'
      BY BaseStep DEF Safe
  <1>2. CASE Next
    <2>1. OneToken' /\ BackfillToken' /\ RunOK'
        BY <1>2, SafeParts, TokenStep, BackfillTokenStep, RunStep DEF Safe
    <2>2. EventsOrdered'
        BY <1>2, SafeParts, OrderStep DEF Safe
    <2> QED  BY <1>1, <2>1, <2>2 DEF Safe
  <1>3. CASE UNCHANGED vars
    <2> USE <1>3 DEF vars, mgr_vars, sem_vars, helper_vars, slurmd_vars, job_vars, count_vars, sched_vars, bf_vars,
               rpc_vars, slot_vars, complete_vars, cycle_vars, run_vars
    <2>1. OneToken' /\ BackfillToken' /\ RunOK'  BY DEF Safe, OneToken, BackfillToken, RunOK, One
    <2>2. EventsOrdered'  BY DEF Safe, EventsOrdered
    <2> QED  BY <1>1, <2>1, <2>2 DEF Safe
  <1> QED  BY <1>2, <1>3

\* Safe is an invariant.
LEMMA SafeInvariant == Spec => []Safe
  BY SafeInit, SafeStep, PTL DEF Spec

\* sem_post(slurm_sem) and sem_post(sim_sem) hand one token back and forth,
\* whatever messages time out and however often they are repeated.
THEOREM TokenUnique == Spec => []OneToken
  <1>1. Safe => OneToken  BY DEF Safe
  <1> QED  BY <1>1, SafeInvariant, PTL

\* Without timeouts time_mgr never runs concurrently with a cycle, a
\* completion or the backfill agent.
THEOREM NoOverlap == Spec => []Lockstep
  <1>1. Safe => Lockstep  BY AsleepMeansIdle DEF Safe
  <1> QED  BY <1>1, SafeInvariant, PTL

\* _simulator_helper, which looks at the head only, misses no completion.
THEOREM CompletionsOrdered == Spec => []EventsOrdered
  <1>1. Safe => EventsOrdered  BY DEF Safe
  <1> QED  BY <1>1, SafeInvariant, PTL

\* job_complete either leaves the jobs alone or sets a running one completing.
LEMMA JobCompleted ==
  ASSUME NEW k \in Slots, job_complete(k), SlotType, SlotsOK
  PROVE  /\ UNCHANGED <<job_sched_cnt, submit, epilog, cycle, timeouts,
                        total_epilog_complete_jobs, total_read, trace_recs_end_sim>>
         /\ \/ UNCHANGED job_state
            \/ \E i \in Jobs : /\ job_state[i] = "RUNNING"
                               /\ job_state' = [job_state EXCEPT ![i] = "COMPLETING"]
  <1> USE LockstepAssumption DEF mgr_vars, sem_vars, helper_vars, slurmd_vars,
           job_vars, count_vars, sched_vars, bf_vars, rpc_vars, slot_vars,
           complete_vars, cycle_vars, run_vars
  <1>1. complete_job[k] \in Jobs
      BY DEF job_complete, SlotType, SlotsOK
  <1>2. UNCHANGED <<job_sched_cnt, submit, epilog, cycle, timeouts,
                    total_epilog_complete_jobs, total_read, trace_recs_end_sim>>
      BY DEF job_complete
  <1>3. CASE job_state[complete_job[k]] = "RUNNING"
      BY <1>1, <1>2, <1>3 DEF job_complete
  <1>4. CASE job_state[complete_job[k]] # "RUNNING"
      BY <1>2, <1>4 DEF job_complete
  <1> QED  BY <1>3, <1>4

-----------------------------------------------------------------------------
(* The requests to the scheduler                                           *)

Busy == {j \in Jobs : job_state[j] \in {"RUNNING", "COMPLETING"}}
Pending == {j \in Jobs : job_state[j] = "PENDING"}
Requested ==
  \/ job_sched_cnt > 0
  \/ \E j \in Jobs : submit[j] = "queue" \/ epilog[j] = "queue"
  \/ \E t \in Callers : cycle[t] \in {"wait", "call", "go", "defer", "lock", "schedule"}
HeldBack == CompleteWait /\ \E j \in Jobs : job_state[j] = "COMPLETING"

\* WorkConserving in terms of the sets of busy and of pending jobs.
LEMMA WorkParts ==
  WorkConserving <=> (timeouts = 0 /\ Cardinality(Busy) < Nodes /\ Pending # {} => Requested \/ HeldBack)
  BY DEF WorkConserving, DeferralsKept, RequestPending, IdleNode, Busy, Pending, Requested, HeldBack

\* No step leaves an idle node and a waiting job without a request.
LEMMA WorkStep ==
  ASSUME WorkConserving, RunOK, MgrType, CounterType, JobType, SlotType, SlotsOK,
         SubmissionOK, EpilogsOK, Next
  PROVE  WorkConserving'
  \* Who writes what WorkConserving is about.
  <1>WorkWriters. \/ UNCHANGED <<timeouts, job_state, job_sched_cnt, submit, epilog, cycle>>
                  \/ generateJob \/ NoJobEnded \/ EpilogsFinished \/ RetryComplete \/
                     GiveUpComplete \/ RetryCycle \/ GiveUpCycle \/ AgentWakes \/ AgentExits \/
                     job_time_limit
                  \/ \E j \in Jobs : submit_batch_job(j) \/ SubmitQueuesScheduler(j) \/
                       epilog_complete(j) \/ EpilogQueuesScheduler(j) \/ EpilogReplies(j) \/
                       EpilogCounts(j) \/ EpilogReadsTotal(j) \/ EpilogWritesTotal(j) \/
                       simulator_rpc_terminate_job(j) \/ rpc_timelimit(j) \/ Starts(j)
                  \/ \E k \in Slots : job_complete(k) \/ CompletedJobsArrived(k) \/
                       EpilogsArrived(k) \/ get_scheduler_cnt(k) \/ reset_scheduler_cnt(k) \/
                       do_backfill(k) \/ BackfillWaited(k) \/ CycleReplies(k)
                  \/ \E t \in Callers : ScheduleChecks(t) \/ ScheduleBegins(t) \/
                       ScheduleDefers(t) \/ schedule(t) \/ ScheduleReturns(t) \/
                       ScheduleEnds(t)
    <2> USE DEF mgr_vars, sem_vars, helper_vars, slurmd_vars, job_vars, count_vars,
             sched_vars, bf_vars, rpc_vars, slot_vars, complete_vars, cycle_vars,
             run_vars
    <2>1. ASSUME LoopTop \/ rpc_sim_job \/ rpc_sim_job_uninitialised \/ PostSlurmSem \/
                 WaitSimSem \/ terminate_simulation \/ WaitSlurmSem \/ EndJob \/
                 AllJobsEnded \/ BackfillWakes \/ BackfillLocks \/ BackfillReturns \/
                 CheckAllFinished \/ Stopped
          PROVE  UNCHANGED <<timeouts, job_state, job_sched_cnt, submit, epilog, cycle>>
        BY <2>1 DEF LoopTop, rpc_sim_job, rpc_sim_job_uninitialised,
           PostSlurmSem, WaitSimSem, terminate_simulation, WaitSlurmSem, EndJob,
           AllJobsEnded, BackfillWakes, BackfillLocks, BackfillReturns,
           CheckAllFinished, Stopped, vars
    <2>2. ASSUME NEW j \in Jobs, TerminateFinishes(j) \/ simulator_rpc_batch_job(j) \/
                 AddEvent(j)
          PROVE  UNCHANGED <<timeouts, job_state, job_sched_cnt, submit, epilog, cycle>>
        BY <2>2 DEF TerminateFinishes, simulator_rpc_batch_job, AddEvent
    <2>3. ASSUME NEW k \in Slots, complete_batch_script(k) \/ CompleteReplies(k)
          PROVE  UNCHANGED <<timeouts, job_state, job_sched_cnt, submit, epilog, cycle>>
        BY <2>3 DEF complete_batch_script, CompleteReplies
    <2> QED  BY StepCases, <2>1, <2>2, <2>3
  \* When schedule() returns, no node is idle or no job is pending: jobs are
  \* taken in order, so the first pending one could have been started.
  <1>NothingLeft. ASSUME NothingToStart
                  PROVE  ~ (IdleNode /\ \E j \in Jobs : job_state[j] = "PENDING")
    <2> USE <1>NothingLeft
    <2> SUFFICES ASSUME IdleNode, Pending # {} PROVE FALSE
        BY DEF Pending
    <2>1. Pending \subseteq Nat
        BY LockstepAssumption, SMT DEF Pending, Jobs
    <2>2. Min(Pending) \in Pending /\ \A i \in Pending : Min(Pending) =< i
        BY <2>1, MinOfNaturals
    <2>3. Startable(Min(Pending))
        BY <2>2 DEF Startable, Pending
    <2> QED  BY <2>2, <2>3 DEF NothingToStart, Pending
  \* A request or a completing job that holds the scheduler back is enough.
  <1>WorkRequested. ASSUME Requested' \/ HeldBack'
                    PROVE  WorkConserving'
    BY <1>WorkRequested DEF WorkConserving, DeferralsKept, RequestPending, Requested, HeldBack
  \* A step that frees no node, adds no pending job and drops no request
  \* leaves nothing behind.
  <1>WorkKept. ASSUME timeouts' = timeouts, Busy' = Busy, Pending' \subseteq Pending,
                      Requested => Requested', HeldBack => HeldBack'
               PROVE  WorkConserving'
    <2> USE <1>WorkKept
    <2>1. timeouts' = 0 /\ Cardinality(Busy') < Nodes /\ Pending' # {} => Requested' \/ HeldBack'
        BY WorkParts
    <2> QED
        BY <2>1 DEF WorkConserving, DeferralsKept, RequestPending, IdleNode, Busy, Pending,
           Requested, HeldBack
  <1> USE LockstepAssumption DEF mgr_vars, sem_vars, helper_vars, slurmd_vars,
           job_vars, count_vars, sched_vars, bf_vars, rpc_vars, slot_vars,
           complete_vars, cycle_vars, run_vars
  <1>1. CASE generateJob
    <2>0. trace_head \in Jobs /\ submit[trace_head] # "queue"
        BY <1>1, SMT DEF generateJob, JobDue, MgrType, SubmissionOK, Jobs
    <2>1. Busy' = Busy /\ Pending' = Pending /\ timeouts' = timeouts
        BY <1>1 DEF generateJob, Busy, Pending, JobType
    <2>2. Requested => Requested'
        BY <1>1, <2>0 DEF generateJob, Requested, JobType
    <2>3. HeldBack => HeldBack'
        BY <1>1 DEF generateJob, HeldBack, JobType
    <2> QED  BY <2>1, <2>2, <2>3, <1>WorkKept
  <1>2. CASE NoJobEnded
    <2>1. Busy' = Busy /\ Pending' = Pending /\ timeouts' = timeouts
        BY <1>2, SMT DEF NoJobEnded, SendCycle, Busy, Pending, JobType, SlotType, SlotsOK
    <2>2. Requested => Requested'
        BY <1>2, CallerFacts DEF NoJobEnded, SendCycle, Requested, CounterType, SlotType, SlotsOK
    <2>3. HeldBack => HeldBack'
        BY <1>2 DEF NoJobEnded, SendCycle, HeldBack, JobType, SlotType, SlotsOK
    <2> QED  BY <2>1, <2>2, <2>3, <1>WorkKept
  <1>3. CASE EpilogsFinished
    <2>1. Busy' = Busy /\ Pending' = Pending /\ timeouts' = timeouts
        BY <1>3, SMT DEF EpilogsFinished, SendCycle, Busy, Pending, JobType, SlotType, SlotsOK
    <2>2. Requested => Requested'
        BY <1>3, CallerFacts DEF EpilogsFinished, SendCycle, Requested, CounterType, SlotType, SlotsOK
    <2>3. HeldBack => HeldBack'
        BY <1>3 DEF EpilogsFinished, SendCycle, HeldBack, JobType, SlotType, SlotsOK
    <2> QED  BY <2>1, <2>2, <2>3, <1>WorkKept
  <1>4. CASE RetryComplete
    <2>1. timeouts' # 0
        BY <1>4, CallerFacts, SMTT(20) DEF RetryComplete, MessageTimesOut, SlotType
    <2> QED  BY <2>1 DEF WorkConserving
  <1>5. CASE GiveUpComplete
    <2>1. timeouts' # 0
        BY <1>5, CallerFacts, SMTT(20) DEF GiveUpComplete, MessageTimesOut, SlotType
    <2> QED  BY <2>1 DEF WorkConserving
  <1>6. CASE RetryCycle
    <2>1. timeouts' # 0
        BY <1>6, CallerFacts, SMTT(20) DEF RetryCycle, MessageTimesOut, SlotType
    <2> QED  BY <2>1 DEF WorkConserving
  <1>7. CASE GiveUpCycle
    <2>1. timeouts' # 0
        BY <1>7, CallerFacts, SMT DEF GiveUpCycle, MessageTimesOut, SlotType
    <2> QED  BY <2>1 DEF WorkConserving
  <1>8. CASE AgentWakes
    <2>1. Busy' = Busy /\ Pending' = Pending /\ timeouts' = timeouts
        BY <1>8 DEF AgentWakes, At, Moves, Busy, Pending, JobType
    <2>2. Requested => Requested'
        BY <1>8, CallerFacts DEF AgentWakes, At, Moves, Requested, SlotType
    <2>3. HeldBack => HeldBack'
        BY <1>8 DEF AgentWakes, At, Moves, HeldBack, JobType
    <2> QED  BY <2>1, <2>2, <2>3, <1>WorkKept
  <1>9. CASE AgentExits
    <2>1. Busy' = Busy /\ Pending' = Pending /\ timeouts' = timeouts
        BY <1>9 DEF AgentExits, At, Moves, Busy, Pending, JobType
    <2>2. Requested => Requested'
        BY <1>9, CallerFacts DEF AgentExits, At, Moves, Requested, SlotType
    <2>3. HeldBack => HeldBack'
        BY <1>9 DEF AgentExits, At, Moves, HeldBack, JobType
    <2> QED  BY <2>1, <2>2, <2>3, <1>WorkKept
  <1>10. CASE job_time_limit
    <2>1. Busy' = Busy /\ Pending' = Pending /\ timeouts' = timeouts
        BY <1>10 DEF job_time_limit, TimedOut, Busy, Pending, JobType
    <2>2. Requested => Requested'
        BY <1>10, CallerFacts DEF job_time_limit, TimedOut, Requested, JobType
    <2>3. HeldBack => HeldBack'
        BY <1>10 DEF job_time_limit, TimedOut, HeldBack, JobType
    <2> QED  BY <2>1, <2>2, <2>3, <1>WorkKept
  <1>11. ASSUME NEW j \in Jobs, submit_batch_job(j) PROVE WorkConserving'
    <2>1. CASE j \notin Rejected
      <3>1. Requested'
          BY <1>11, <2>1, SMT DEF submit_batch_job, Requested, JobType
      <3> QED  BY <3>1, <1>WorkRequested
    <2>2. CASE j \in Rejected
      <3>1. Busy' = Busy /\ Pending' = Pending /\ timeouts' = timeouts
          BY <1>11, <2>2 DEF submit_batch_job, Busy, Pending
      <3>2. Requested => Requested'
          BY <1>11, <2>2 DEF submit_batch_job, Requested, JobType
      <3>3. HeldBack => HeldBack'
          BY <1>11, <2>2 DEF submit_batch_job, HeldBack
      <3> QED  BY <3>1, <3>2, <3>3, <1>WorkKept
    <2> QED  BY <2>1, <2>2
  <1>12. ASSUME NEW j \in Jobs, SubmitQueuesScheduler(j) PROVE WorkConserving'
    <2>1. Requested'
        BY <1>12, CallerFacts, SMT DEF SubmitQueuesScheduler, Requested, CounterType
    <2> QED  BY <2>1, <1>WorkRequested
  <1>13. ASSUME NEW j \in Jobs, epilog_complete(j) PROVE WorkConserving'
    <2>1. Requested'
        BY <1>13, CallerFacts DEF epilog_complete, Requested, JobType
    <2> QED  BY <2>1, <1>WorkRequested
  <1>14. ASSUME NEW j \in Jobs, EpilogQueuesScheduler(j) PROVE WorkConserving'
    <2>1. Requested'
        BY <1>14, CallerFacts, SMTT(20) DEF EpilogQueuesScheduler, Requested, CounterType
    <2> QED  BY <2>1, <1>WorkRequested
  <1>15. ASSUME NEW j \in Jobs, EpilogReplies(j) PROVE WorkConserving'
    <2>1. Busy' = Busy /\ Pending' = Pending /\ timeouts' = timeouts
        BY <1>15 DEF EpilogReplies, Busy, Pending, JobType
    <2>2. Requested => Requested'
        BY <1>15, CallerFacts DEF EpilogReplies, Requested, JobType
    <2>3. HeldBack => HeldBack'
        BY <1>15 DEF EpilogReplies, HeldBack, JobType
    <2> QED  BY <2>1, <2>2, <2>3, <1>WorkKept
  <1>16. ASSUME NEW j \in Jobs, EpilogCounts(j) PROVE WorkConserving'
    <2>1. Busy' = Busy /\ Pending' = Pending /\ timeouts' = timeouts
        BY <1>16 DEF EpilogCounts, Busy, Pending, JobType
    <2>2. Requested => Requested'
        BY <1>16, CallerFacts DEF EpilogCounts, Requested, JobType
    <2>3. HeldBack => HeldBack'
        BY <1>16 DEF EpilogCounts, HeldBack, JobType
    <2> QED  BY <2>1, <2>2, <2>3, <1>WorkKept
  <1>17. ASSUME NEW j \in Jobs, EpilogReadsTotal(j) PROVE WorkConserving'
    <2>1. Busy' = Busy /\ Pending' = Pending /\ timeouts' = timeouts
        BY <1>17 DEF EpilogReadsTotal, Busy, Pending, JobType
    <2>2. Requested => Requested'
        BY <1>17, CallerFacts DEF EpilogReadsTotal, Requested, JobType
    <2>3. HeldBack => HeldBack'
        BY <1>17 DEF EpilogReadsTotal, HeldBack, JobType
    <2> QED  BY <2>1, <2>2, <2>3, <1>WorkKept
  <1>18. ASSUME NEW j \in Jobs, EpilogWritesTotal(j) PROVE WorkConserving'
    <2>1. Busy' = Busy /\ Pending' = Pending /\ timeouts' = timeouts
        BY <1>18 DEF EpilogWritesTotal, Busy, Pending, JobType
    <2>2. Requested => Requested'
        BY <1>18, CallerFacts DEF EpilogWritesTotal, Requested, JobType
    <2>3. HeldBack => HeldBack'
        BY <1>18 DEF EpilogWritesTotal, HeldBack, JobType
    <2> QED  BY <2>1, <2>2, <2>3, <1>WorkKept
  <1>19. ASSUME NEW j \in Jobs, simulator_rpc_terminate_job(j) PROVE WorkConserving'
    <2>1. Busy' = Busy /\ Pending' = Pending /\ timeouts' = timeouts
        BY <1>19 DEF simulator_rpc_terminate_job, Busy, Pending, JobType, EpilogsOK
    <2>2. Requested => Requested'
        BY <1>19, CallerFacts DEF simulator_rpc_terminate_job, Requested, JobType, EpilogsOK
    <2>3. HeldBack => HeldBack'
        BY <1>19 DEF simulator_rpc_terminate_job, HeldBack, JobType, EpilogsOK
    <2> QED  BY <2>1, <2>2, <2>3, <1>WorkKept
  <1>20. ASSUME NEW j \in Jobs, rpc_timelimit(j) PROVE WorkConserving'
    <2>1. Busy' = Busy /\ Pending' = Pending /\ timeouts' = timeouts
        BY <1>20 DEF rpc_timelimit, Busy, Pending, JobType, EpilogsOK
    <2>2. Requested => Requested'
        BY <1>20, CallerFacts DEF rpc_timelimit, Requested, JobType, EpilogsOK
    <2>3. HeldBack => HeldBack'
        BY <1>20 DEF rpc_timelimit, HeldBack, JobType, EpilogsOK
    <2> QED  BY <2>1, <2>2, <2>3, <1>WorkKept
  <1>21. ASSUME NEW k \in Slots, job_complete(k) PROVE WorkConserving'
    <2>1. CASE UNCHANGED job_state
      <3>1. Busy' = Busy /\ Pending' = Pending /\ timeouts' = timeouts
          BY <1>21, <2>1, JobCompleted DEF Busy, Pending
      <3>2. (Requested => Requested') /\ (HeldBack => HeldBack')
          BY <1>21, <2>1, JobCompleted DEF Requested, HeldBack
      <3> QED  BY <3>1, <3>2, <1>WorkKept
    <2>2. ASSUME NEW i \in Jobs, job_state[i] = "RUNNING",
                 job_state' = [job_state EXCEPT ![i] = "COMPLETING"]
          PROVE  WorkConserving'
      <3>1. Busy' = Busy /\ Pending' = Pending
          BY <2>2 DEF Busy, Pending, JobType
      <3>2. timeouts' = timeouts /\ (Requested => Requested')
          BY <1>21, JobCompleted DEF Requested
      <3>3. HeldBack => HeldBack'
          BY <2>2 DEF HeldBack, JobType
      <3> QED  BY <3>1, <3>2, <3>3, <1>WorkKept
    <2> QED  BY <1>21, <2>1, <2>2, JobCompleted
  <1>22. ASSUME NEW k \in Slots, CompletedJobsArrived(k) PROVE WorkConserving'
    <2>1. Busy' = Busy /\ Pending' = Pending /\ timeouts' = timeouts
        BY <1>22 DEF CompletedJobsArrived, At, Moves, Busy, Pending, JobType
    <2>2. Requested => Requested'
        BY <1>22, CallerFacts DEF CompletedJobsArrived, At, Moves, Requested, SlotType
    <2>3. HeldBack => HeldBack'
        BY <1>22 DEF CompletedJobsArrived, At, Moves, HeldBack, JobType
    <2> QED  BY <2>1, <2>2, <2>3, <1>WorkKept
  <1>23. ASSUME NEW k \in Slots, EpilogsArrived(k) PROVE WorkConserving'
    <2>1. Busy' = Busy /\ Pending' = Pending /\ timeouts' = timeouts
        BY <1>23 DEF EpilogsArrived, At, Moves, Busy, Pending, JobType
    <2>2. Requested => Requested'
        BY <1>23, CallerFacts DEF EpilogsArrived, At, Moves, Requested, SlotType
    <2>3. HeldBack => HeldBack'
        BY <1>23 DEF EpilogsArrived, At, Moves, HeldBack, JobType
    <2> QED  BY <2>1, <2>2, <2>3, <1>WorkKept
  <1>24. ASSUME NEW k \in Slots, get_scheduler_cnt(k) PROVE WorkConserving'
    <2>1. Busy' = Busy /\ Pending' = Pending /\ timeouts' = timeouts
        BY <1>24 DEF get_scheduler_cnt, Busy, Pending, JobType
    <2>2. Requested => Requested'
        BY <1>24, CallerFacts DEF get_scheduler_cnt, Requested, SlotType
    <2>3. HeldBack => HeldBack'
        BY <1>24 DEF get_scheduler_cnt, HeldBack, JobType
    <2> QED  BY <2>1, <2>2, <2>3, <1>WorkKept
  <1>25. ASSUME NEW k \in Slots, reset_scheduler_cnt(k) PROVE WorkConserving'
    <2>1. Requested'
        BY <1>25, CallerFacts DEF reset_scheduler_cnt, At, Moves, Requested, SlotType
    <2> QED  BY <2>1, <1>WorkRequested
  <1>26. ASSUME NEW k \in Slots, do_backfill(k) PROVE WorkConserving'
    <2>1. Busy' = Busy /\ Pending' = Pending /\ timeouts' = timeouts
        BY <1>26 DEF do_backfill, At, Moves, Busy, Pending, JobType
    <2>2. Requested => Requested'
        BY <1>26, CallerFacts DEF do_backfill, At, Moves, Requested, SlotType
    <2>3. HeldBack => HeldBack'
        BY <1>26 DEF do_backfill, At, Moves, HeldBack, JobType
    <2> QED  BY <2>1, <2>2, <2>3, <1>WorkKept
  <1>27. ASSUME NEW k \in Slots, BackfillWaited(k) PROVE WorkConserving'
    <2>1. Busy' = Busy /\ Pending' = Pending /\ timeouts' = timeouts
        BY <1>27 DEF BackfillWaited, At, Moves, Busy, Pending, JobType
    <2>2. Requested => Requested'
        BY <1>27, CallerFacts DEF BackfillWaited, At, Moves, Requested, SlotType
    <2>3. HeldBack => HeldBack'
        BY <1>27 DEF BackfillWaited, At, Moves, HeldBack, JobType
    <2> QED  BY <2>1, <2>2, <2>3, <1>WorkKept
  <1>28. ASSUME NEW k \in Slots, CycleReplies(k) PROVE WorkConserving'
    <2>1. Busy' = Busy /\ Pending' = Pending /\ timeouts' = timeouts
        BY <1>28 DEF CycleReplies, Busy, Pending, JobType
    <2>2. Requested => Requested'
        BY <1>28, CallerFacts DEF CycleReplies, Requested, SlotType
    <2>3. HeldBack => HeldBack'
        BY <1>28 DEF CycleReplies, HeldBack, JobType
    <2> QED  BY <2>1, <2>2, <2>3, <1>WorkKept
  <1>29. ASSUME NEW t \in Callers, ScheduleChecks(t) PROVE WorkConserving'
    <2>1. Busy' = Busy /\ Pending' = Pending /\ timeouts' = timeouts
        BY <1>29 DEF ScheduleChecks, At, Moves, Busy, Pending, JobType
    <2>2. Requested => Requested'
        BY <1>29, CallerFacts DEF ScheduleChecks, At, Moves, Requested, SlotType
    <2>3. HeldBack => HeldBack'
        BY <1>29 DEF ScheduleChecks, At, Moves, HeldBack, JobType
    <2> QED  BY <2>1, <2>2, <2>3, <1>WorkKept
  <1>30. ASSUME NEW t \in Callers, ScheduleBegins(t) PROVE WorkConserving'
    <2>1. Busy' = Busy /\ Pending' = Pending /\ timeouts' = timeouts
        BY <1>30 DEF ScheduleBegins, Moves, Busy, Pending, JobType
    <2>2. Requested => Requested'
        BY <1>30, CallerFacts DEF ScheduleBegins, Moves, Requested, SlotType
    <2>3. HeldBack => HeldBack'
        BY <1>30 DEF ScheduleBegins, Moves, HeldBack, JobType
    <2> QED  BY <2>1, <2>2, <2>3, <1>WorkKept
  <1>31. ASSUME NEW t \in Callers, ScheduleDefers(t) PROVE WorkConserving'
    <2>1. timeouts # 0
        BY <1>31, CallerFacts, SMT DEF ScheduleDefers, RunOK, SlotsOK
    <2>2. timeouts' = timeouts
        BY <1>31 DEF ScheduleDefers
    <2> QED  BY <2>1, <2>2 DEF WorkConserving
  <1>32. ASSUME NEW t \in Callers, schedule(t) PROVE WorkConserving'
    <2>1. CASE At(t, "lock", "schedule")
      <3>1. Requested'
          BY <2>1 DEF At, Moves, Requested, SlotType
      <3> QED  BY <3>1, <1>WorkRequested
    <2>2. CASE CompleteWait /\ \E j \in Jobs : job_state[j] = "COMPLETING"
      <3>1. HeldBack'
          BY <1>32, <2>2 DEF schedule, HeldBack
      <3> QED  BY <3>1, <1>WorkRequested
    <2> QED  BY <1>32, <2>1, <2>2 DEF schedule
  <1>33. ASSUME NEW t \in Callers, ScheduleReturns(t) PROVE WorkConserving'
    <2>1. job_state' = job_state /\ timeouts' = timeouts
        BY <1>33 DEF ScheduleReturns
    <2>2. CASE NothingToStart
      <3>1. ~ (IdleNode /\ \E j \in Jobs : job_state[j] = "PENDING")
          BY <2>2, <1>NothingLeft
      <3> QED  BY <2>1, <3>1 DEF WorkConserving, DeferralsKept, IdleNode
    <2>3. CASE ~ DepthLeft(t)
      <3>1. timeouts # 0
          BY <1>33, <2>3 DEF DepthLeft, ScheduleReturns, At, Moves, RunOK
      <3> QED  BY <2>1, <3>1 DEF WorkConserving
    <2> QED  BY <1>33, <2>2, <2>3 DEF ScheduleReturns
  <1>34. ASSUME NEW t \in Callers, ScheduleEnds(t) PROVE WorkConserving'
    <2>1. Busy' = Busy /\ Pending' = Pending /\ timeouts' = timeouts
        BY <1>34 DEF ScheduleEnds, Moves, After, Busy, Pending, JobType
    <2>2. Requested => Requested'
        BY <1>34, CallerFacts DEF ScheduleEnds, Moves, After, Requested, SlotType
    <2>3. HeldBack => HeldBack'
        BY <1>34 DEF ScheduleEnds, Moves, After, HeldBack, JobType
    <2> QED  BY <2>1, <2>2, <2>3, <1>WorkKept
  <1>35. ASSUME NEW j \in Jobs, Starts(j) PROVE WorkConserving'
    <2>1. timeouts = 0 => Requested \/ HeldBack
        BY <1>35 DEF Starts, StartJob, Startable, WorkConserving, DeferralsKept, RequestPending,
                  Requested, HeldBack
    <2>2. Requested => Requested'
        BY <1>35 DEF Starts, StartJob, Requested
    <2>3. HeldBack => HeldBack'
        BY <1>35 DEF Starts, StartJob, Startable, HeldBack, JobType
    <2>4. timeouts' = timeouts
        BY <1>35 DEF Starts, StartJob
    <2>5. CASE timeouts = 0
        BY <2>1, <2>2, <2>3, <2>5, <1>WorkRequested
    <2>6. CASE timeouts # 0
        BY <2>4, <2>6 DEF WorkConserving
    <2> QED  BY <2>5, <2>6
  <1>36. CASE UNCHANGED <<timeouts, job_state, job_sched_cnt, submit, epilog, cycle>>
      BY <1>36 DEF WorkConserving, DeferralsKept, RequestPending, IdleNode
  <1> QED  BY <1>1, <1>2, <1>3, <1>4, <1>5, <1>6, <1>7, <1>8, <1>9, <1>10, <1>11,
         <1>12, <1>13, <1>14, <1>15, <1>16, <1>17, <1>18, <1>19, <1>20, <1>21, <1>22,
         <1>23, <1>24, <1>25, <1>26, <1>27, <1>28, <1>29, <1>30, <1>31, <1>32, <1>33,
         <1>34, <1>35, <1>36, <1>WorkWriters

-----------------------------------------------------------------------------
(* The end of the simulation                                               *)

\* The jobs whose epilog thread has been through total_epilog_complete_jobs++.
Counted == {j \in Jobs : job_state[j] = "DONE" /\ epilog[j] = "none"}

\* Increments can be lost, so the counter and the threads that are about to
\* write it are at most at the number of jobs counted.
CountOK ==
  /\ total_epilog_complete_jobs =< Cardinality(Counted)
  /\ \A j \in Jobs : total_read[j] =< Cardinality(Counted)

\* A set of jobs is finite.
LEMMA FiniteJobs ==
  /\ IsFiniteSet(Jobs) /\ Cardinality(Jobs) = NJobs
  /\ \A S \in SUBSET Jobs :
        /\ IsFiniteSet(S) /\ Cardinality(S) \in Nat /\ Cardinality(S) =< NJobs
        /\ Cardinality(S) = NJobs => S = Jobs
  <1>1. IsFiniteSet(Jobs) /\ Cardinality(Jobs) = NJobs
      BY LockstepAssumption, FS_Interval, SMT DEF Jobs
  <1>2. ASSUME NEW S \in SUBSET Jobs
        PROVE  /\ IsFiniteSet(S) /\ Cardinality(S) \in Nat /\ Cardinality(S) =< NJobs
               /\ Cardinality(S) = NJobs => S = Jobs
      BY <1>1, FS_Subset, FS_CardinalityType
  <1> QED  BY <1>1, <1>2

\* A step that changes neither the counted jobs nor the counter.
LEMMA CountKept ==
  ASSUME CountOK, Counted' = Counted, UNCHANGED <<total_epilog_complete_jobs, total_read>>
  PROVE  CountOK'
  <1>1. Cardinality(Counted)' = Cardinality(Counted)
      OBVIOUS
  <1> QED  BY <1>1 DEF CountOK

\* The counter never gets ahead of the jobs.
LEMMA CountStep ==
  ASSUME CountOK, CounterType, JobType, MgrType, SlotType, SlotsOK, SubmissionOK,
         EpilogsOK, Next
  PROVE  CountOK'
  \* Who ends jobs and counts them.
  <1>CountWriters. \/ UNCHANGED <<job_state, epilog, total_epilog_complete_jobs, total_read>>
                   \/ job_time_limit
                   \/ \E j \in Jobs : submit_batch_job(j) \/ epilog_complete(j) \/
                        EpilogQueuesScheduler(j) \/ EpilogReplies(j) \/ EpilogCounts(j) \/
                        EpilogReadsTotal(j) \/ EpilogWritesTotal(j) \/
                        simulator_rpc_terminate_job(j) \/ rpc_timelimit(j) \/ Starts(j)
                   \/ \E k \in Slots : job_complete(k)
    <2> USE DEF mgr_vars, sem_vars, helper_vars, slurmd_vars, job_vars, count_vars,
             sched_vars, bf_vars, rpc_vars, slot_vars, complete_vars, cycle_vars,
             run_vars
    <2>1. ASSUME LoopTop \/ generateJob \/ rpc_sim_job \/ rpc_sim_job_uninitialised \/
                 PostSlurmSem \/ WaitSimSem \/ terminate_simulation \/ WaitSlurmSem \/
                 EndJob \/ NoJobEnded \/ AllJobsEnded \/ EpilogsFinished \/
                 RetryComplete \/ GiveUpComplete \/ RetryCycle \/ GiveUpCycle \/
                 AgentWakes \/ AgentExits \/ BackfillWakes \/ BackfillLocks \/
                 BackfillReturns \/ CheckAllFinished \/ Stopped
          PROVE  UNCHANGED <<job_state, epilog, total_epilog_complete_jobs, total_read>>
        BY <2>1 DEF LoopTop, generateJob, rpc_sim_job, rpc_sim_job_uninitialised,
           PostSlurmSem, WaitSimSem, terminate_simulation, WaitSlurmSem, EndJob,
           NoJobEnded, SendCycle, AllJobsEnded, EpilogsFinished, RetryComplete,
           MessageTimesOut, Expired, GiveUpComplete, RetryCycle, GiveUpCycle,
           AgentWakes, At, Moves, AgentExits, BackfillWakes, BackfillLocks,
           BackfillReturns, CheckAllFinished, Stopped, vars
    <2>2. ASSUME NEW j \in Jobs, SubmitQueuesScheduler(j) \/ TerminateFinishes(j) \/
                 simulator_rpc_batch_job(j) \/ AddEvent(j)
          PROVE  UNCHANGED <<job_state, epilog, total_epilog_complete_jobs, total_read>>
        BY <2>2 DEF SubmitQueuesScheduler, TerminateFinishes,
           simulator_rpc_batch_job, AddEvent
    <2>3. ASSUME NEW k \in Slots, complete_batch_script(k) \/ CompleteReplies(k) \/
                 CompletedJobsArrived(k) \/ EpilogsArrived(k) \/ get_scheduler_cnt(k) \/
                 reset_scheduler_cnt(k) \/ do_backfill(k) \/ BackfillWaited(k) \/
                 CycleReplies(k)
          PROVE  UNCHANGED <<job_state, epilog, total_epilog_complete_jobs, total_read>>
        BY <2>3 DEF complete_batch_script, CompleteReplies, CompletedJobsArrived,
           At, Moves, EpilogsArrived, get_scheduler_cnt, reset_scheduler_cnt,
           do_backfill, BackfillWaited, CycleReplies
    <2>4. ASSUME NEW t \in Callers, ScheduleChecks(t) \/ ScheduleBegins(t) \/
                 ScheduleDefers(t) \/ schedule(t) \/ ScheduleReturns(t) \/
                 ScheduleEnds(t)
          PROVE  UNCHANGED <<job_state, epilog, total_epilog_complete_jobs, total_read>>
        BY <2>4 DEF ScheduleChecks, At, Moves, ScheduleBegins, NewJobLimit,
           ScheduleDefers, After, schedule, ScheduleReturns, ScheduleEnds
    <2> QED  BY StepCases, <2>1, <2>2, <2>3, <2>4
  <1> USE LockstepAssumption DEF mgr_vars, sem_vars, helper_vars, slurmd_vars,
           job_vars, count_vars, sched_vars, bf_vars, rpc_vars, slot_vars,
           complete_vars, cycle_vars, run_vars
  <1>1. CASE job_time_limit
    <2>1. Counted' = Counted
        BY <1>1 DEF job_time_limit, TimedOut, Counted, JobType, EpilogsOK
    <2>2. UNCHANGED <<total_epilog_complete_jobs, total_read>>
        BY <1>1 DEF job_time_limit, TimedOut
    <2> QED  BY <2>1, <2>2, CountKept
  <1>2. ASSUME NEW j \in Jobs, submit_batch_job(j) PROVE CountOK'
    <2>1. job_state[j] = "none"
      <3>1. j = trace_head /\ mgr = "submitting" /\ j \in Int
          BY <1>2, SMT DEF submit_batch_job, SubmissionOK, Jobs
      <3> QED  BY <3>1, SMTT(20) DEF SubmissionOK, JobType
    <2>2. Counted' = Counted
      <3>1. CASE j \in Rejected
          BY <1>2, <3>1 DEF submit_batch_job, Counted
      <3>2. CASE j \notin Rejected
          BY <1>2, <2>1, <3>2 DEF submit_batch_job, Counted, JobType
      <3> QED  BY <3>1, <3>2
    <2>3. UNCHANGED <<total_epilog_complete_jobs, total_read>>
        BY <1>2 DEF submit_batch_job
    <2> QED  BY <2>2, <2>3, CountKept
  <1>3. ASSUME NEW j \in Jobs, epilog_complete(j) PROVE CountOK'
    <2>1. Counted' = Counted
        BY <1>3 DEF epilog_complete, Counted, JobType, EpilogsOK
    <2>2. UNCHANGED <<total_epilog_complete_jobs, total_read>>
        BY <1>3 DEF epilog_complete
    <2> QED  BY <2>1, <2>2, CountKept
  <1>4. ASSUME NEW j \in Jobs, EpilogQueuesScheduler(j) PROVE CountOK'
    <2>1. Counted' = Counted
        BY <1>4 DEF EpilogQueuesScheduler, Counted, JobType, EpilogsOK
    <2>2. UNCHANGED <<total_epilog_complete_jobs, total_read>>
        BY <1>4 DEF EpilogQueuesScheduler
    <2> QED  BY <2>1, <2>2, CountKept
  <1>5. ASSUME NEW j \in Jobs, EpilogReplies(j) PROVE CountOK'
    <2>1. Counted' = Counted
        BY <1>5 DEF EpilogReplies, Counted, JobType, EpilogsOK
    <2>2. UNCHANGED <<total_epilog_complete_jobs, total_read>>
        BY <1>5 DEF EpilogReplies
    <2> QED  BY <2>1, <2>2, CountKept
  <1>6. ASSUME NEW j \in Jobs, EpilogCounts(j) PROVE CountOK'
    <2>1. Counted' = Counted
        BY <1>6 DEF EpilogCounts, Counted, JobType, EpilogsOK
    <2>2. UNCHANGED <<total_epilog_complete_jobs, total_read>>
        BY <1>6 DEF EpilogCounts
    <2> QED  BY <2>1, <2>2, CountKept
  <1>7. ASSUME NEW j \in Jobs, EpilogReadsTotal(j) PROVE CountOK'
    <2>1. Counted' = Counted
        BY <1>7 DEF EpilogReadsTotal, Counted, JobType
    <2>2. Cardinality(Counted)' = Cardinality(Counted)
        BY <2>1
    <2> QED  BY <1>7, <2>2 DEF EpilogReadsTotal, CountOK, CounterType
  <1>8. ASSUME NEW j \in Jobs, EpilogWritesTotal(j) PROVE CountOK'
    <2>1. job_state[j] = "DONE" /\ j \notin Counted
        BY <1>8 DEF EpilogWritesTotal, Counted, EpilogsOK
    <2>2. Counted' = Counted \cup {j}
        BY <1>8, <2>1 DEF EpilogWritesTotal, Counted, JobType
    <2>3. IsFiniteSet(Counted) /\ Cardinality(Counted) \in Nat
        BY FiniteJobs DEF Counted
    <2>4. Cardinality(Counted)' = Cardinality(Counted) + 1
        BY <2>1, <2>2, <2>3, FS_AddElement
    <2> QED  BY <1>8, <2>3, <2>4, SMT DEF EpilogWritesTotal, CountOK, CounterType
  <1>9. ASSUME NEW j \in Jobs, simulator_rpc_terminate_job(j) PROVE CountOK'
    <2>1. Counted' = Counted
        BY <1>9 DEF simulator_rpc_terminate_job, Counted, JobType, EpilogsOK
    <2>2. UNCHANGED <<total_epilog_complete_jobs, total_read>>
        BY <1>9 DEF simulator_rpc_terminate_job
    <2> QED  BY <2>1, <2>2, CountKept
  <1>10. ASSUME NEW j \in Jobs, rpc_timelimit(j) PROVE CountOK'
    <2>1. Counted' = Counted
        BY <1>10 DEF rpc_timelimit, Counted, JobType, EpilogsOK
    <2>2. UNCHANGED <<total_epilog_complete_jobs, total_read>>
        BY <1>10 DEF rpc_timelimit
    <2> QED  BY <2>1, <2>2, CountKept
  <1>11. ASSUME NEW k \in Slots, job_complete(k) PROVE CountOK'
    <2>1. UNCHANGED <<epilog, total_epilog_complete_jobs, total_read>>
        BY <1>11, JobCompleted
    <2>2. CASE UNCHANGED job_state
        BY <2>1, <2>2, CountKept DEF Counted
    <2>3. ASSUME NEW i \in Jobs, job_state[i] = "RUNNING",
                 job_state' = [job_state EXCEPT ![i] = "COMPLETING"]
          PROVE  CountOK'
      <3>1. Counted' = Counted
          BY <2>1, <2>3 DEF Counted, JobType
      <3> QED  BY <2>1, <3>1, CountKept
    <2> QED  BY <1>11, <2>2, <2>3, JobCompleted
  <1>12. ASSUME NEW j \in Jobs, Starts(j) PROVE CountOK'
    <2>1. Counted' = Counted
        BY <1>12 DEF Starts, StartJob, Startable, Counted, JobType, EpilogsOK
    <2>2. UNCHANGED <<total_epilog_complete_jobs, total_read>>
        BY <1>12 DEF Starts, StartJob, Startable
    <2> QED  BY <2>1, <2>2, CountKept
  <1>13. CASE UNCHANGED <<job_state, epilog, total_epilog_complete_jobs, total_read>>
      BY <1>13 DEF CountOK, Counted
  <1> QED  BY <1>1, <1>2, <1>3, <1>4, <1>5, <1>6, <1>7, <1>8, <1>9, <1>10, <1>11,
         <1>12, <1>13, <1>CountWriters

\* The end is signalled when all jobs are counted, and a job stays done.
LEMMA EndSignalStep ==
  ASSUME EndSignalSound, CountOK, JobType, MgrType, SlotType, SlotsOK, SubmissionOK,
         EpilogsOK, Next
  PROVE  EndSignalSound'
  \* Who ends jobs or the simulation.
  <1>EndSignalWriters. \/ UNCHANGED <<job_state, trace_recs_end_sim>>
                       \/ job_time_limit \/ CheckAllFinished
                       \/ \E j \in Jobs : submit_batch_job(j) \/ epilog_complete(j) \/ Starts(j)
                       \/ \E k \in Slots : job_complete(k)
    <2> USE DEF mgr_vars, sem_vars, helper_vars, slurmd_vars, job_vars, count_vars,
             sched_vars, bf_vars, rpc_vars, slot_vars, complete_vars, cycle_vars,
             run_vars
    <2>1. ASSUME LoopTop \/ generateJob \/ rpc_sim_job \/ rpc_sim_job_uninitialised \/
                 PostSlurmSem \/ WaitSimSem \/ terminate_simulation \/ WaitSlurmSem \/
                 EndJob \/ NoJobEnded \/ AllJobsEnded \/ EpilogsFinished \/
                 RetryComplete \/ GiveUpComplete \/ RetryCycle \/ GiveUpCycle \/
                 AgentWakes \/ AgentExits \/ BackfillWakes \/ BackfillLocks \/
                 BackfillReturns \/ Stopped
          PROVE  UNCHANGED <<job_state, trace_recs_end_sim>>
        BY <2>1 DEF LoopTop, generateJob, rpc_sim_job, rpc_sim_job_uninitialised,
           PostSlurmSem, WaitSimSem, terminate_simulation, WaitSlurmSem, EndJob,
           NoJobEnded, SendCycle, AllJobsEnded, EpilogsFinished, RetryComplete,
           MessageTimesOut, Expired, GiveUpComplete, RetryCycle, GiveUpCycle,
           AgentWakes, At, Moves, AgentExits, BackfillWakes, BackfillLocks,
           BackfillReturns, Stopped, vars
    <2>2. ASSUME NEW j \in Jobs, SubmitQueuesScheduler(j) \/ EpilogQueuesScheduler(j) \/
                 EpilogReplies(j) \/ EpilogCounts(j) \/ EpilogReadsTotal(j) \/
                 EpilogWritesTotal(j) \/ simulator_rpc_terminate_job(j) \/
                 TerminateFinishes(j) \/ rpc_timelimit(j) \/ simulator_rpc_batch_job(j)
                 \/ AddEvent(j)
          PROVE  UNCHANGED <<job_state, trace_recs_end_sim>>
        BY <2>2 DEF SubmitQueuesScheduler, EpilogQueuesScheduler, EpilogReplies,
           EpilogCounts, EpilogReadsTotal, EpilogWritesTotal,
           simulator_rpc_terminate_job, TerminateFinishes, rpc_timelimit,
           simulator_rpc_batch_job, AddEvent
    <2>3. ASSUME NEW k \in Slots, complete_batch_script(k) \/ CompleteReplies(k) \/
                 CompletedJobsArrived(k) \/ EpilogsArrived(k) \/ get_scheduler_cnt(k) \/
                 reset_scheduler_cnt(k) \/ do_backfill(k) \/ BackfillWaited(k) \/
                 CycleReplies(k)
          PROVE  UNCHANGED <<job_state, trace_recs_end_sim>>
        BY <2>3 DEF complete_batch_script, CompleteReplies, CompletedJobsArrived,
           At, Moves, EpilogsArrived, get_scheduler_cnt, reset_scheduler_cnt,
           do_backfill, BackfillWaited, CycleReplies
    <2>4. ASSUME NEW t \in Callers, ScheduleChecks(t) \/ ScheduleBegins(t) \/
                 ScheduleDefers(t) \/ schedule(t) \/ ScheduleReturns(t) \/
                 ScheduleEnds(t)
          PROVE  UNCHANGED <<job_state, trace_recs_end_sim>>
        BY <2>4 DEF ScheduleChecks, At, Moves, ScheduleBegins, NewJobLimit,
           ScheduleDefers, After, schedule, ScheduleReturns, ScheduleEnds
    <2> QED  BY StepCases, <2>1, <2>2, <2>3, <2>4
  <1> USE LockstepAssumption DEF mgr_vars, sem_vars, helper_vars, slurmd_vars,
           job_vars, count_vars, sched_vars, bf_vars, rpc_vars, slot_vars,
           complete_vars, cycle_vars, run_vars
  <1>1. CASE job_time_limit
      BY <1>1 DEF job_time_limit, TimedOut, EndSignalSound, JobType
  <1>2. CASE CheckAllFinished
    <2>1. Counted \in SUBSET Jobs
        BY DEF Counted
    <2>2. Cardinality(Counted) = NJobs
        BY <1>2, <2>1, FiniteJobs, SMT DEF CheckAllFinished, CountOK
    <2>3. Counted = Jobs
        BY <2>1, <2>2, FiniteJobs
    <2> QED  BY <1>2, <2>3 DEF CheckAllFinished, EndSignalSound, Counted
  <1>3. ASSUME NEW j \in Jobs, submit_batch_job(j) PROVE EndSignalSound'
    <2>1. job_state[j] = "none"
      <3>1. j = trace_head /\ mgr = "submitting" /\ j \in Int
          BY <1>3, SMTT(30) DEF submit_batch_job, SubmissionOK, Jobs
      <3> QED  BY <3>1, SMT DEF SubmissionOK, JobType
    <2> QED  BY <1>3, <2>1 DEF submit_batch_job, EndSignalSound
  <1>4. ASSUME NEW j \in Jobs, epilog_complete(j) PROVE EndSignalSound'
      BY <1>4 DEF epilog_complete, EpilogsOK, EndSignalSound, JobType
  <1>5. ASSUME NEW k \in Slots, job_complete(k) PROVE EndSignalSound'
      BY <1>5, SMT DEF job_complete, EndSignalSound, JobType
  <1>6. ASSUME NEW j \in Jobs, Starts(j) PROVE EndSignalSound'
      BY <1>6 DEF Starts, StartJob, Startable, EndSignalSound, JobType
  <1>7. CASE UNCHANGED <<job_state, trace_recs_end_sim>>
      BY <1>7 DEF EndSignalSound, JobType
  <1> QED  BY <1>1, <1>2, <1>3, <1>4, <1>5, <1>6, <1>7, <1>EndSignalWriters

-----------------------------------------------------------------------------
(* The theorems                                                            *)

Complete == Safe /\ WorkConserving /\ CountOK /\ EndSignalSound

\* Nothing is left behind or counted in the initial state.
LEMMA CompleteInit == Init => Complete
  <1> SUFFICES ASSUME Init PROVE Complete
      OBVIOUS
  <1> USE LockstepAssumption
  <1>1. Safe  BY SafeInit
  <1>2. WorkConserving  BY DEF Init, WorkConserving, DeferralsKept
  <1>3. CountOK
    <2>1. Cardinality(Counted) \in Nat  BY FiniteJobs DEF Counted
    <2> QED  BY <2>1, SMT DEF Init, CountOK
  <1>4. EndSignalSound  BY SMT DEF Init, EndSignalSound
  <1> QED  BY <1>1, <1>2, <1>3, <1>4 DEF Complete

\* Every step preserves Complete.
LEMMA CompleteStep == Complete /\ [Next]_vars => Complete'
  <1> SUFFICES ASSUME Complete, [Next]_vars PROVE Complete'
      OBVIOUS
  <1>1. Safe'
      BY SafeStep DEF Complete
  <1>2. CASE Next
    <2>1. WorkConserving'
        BY <1>2, SafeParts, WorkStep DEF Complete, Safe
    <2>2. CountOK' /\ EndSignalSound'
        BY <1>2, SafeParts, CountStep, EndSignalStep DEF Complete
    <2> QED  BY <1>1, <2>1, <2>2 DEF Complete
  <1>3. CASE UNCHANGED vars
    <2> USE <1>3 DEF vars, mgr_vars, sem_vars, helper_vars, slurmd_vars, job_vars, count_vars, sched_vars, bf_vars,
               rpc_vars, slot_vars, complete_vars, cycle_vars, run_vars
    <2>1. WorkConserving'  BY DEF Complete, WorkConserving, DeferralsKept, RequestPending, IdleNode
    <2>2. Counted' = Counted  BY DEF Counted
    <2>3. CountOK'  BY <2>2, CountKept DEF Complete
    <2>4. EndSignalSound'  BY DEF Complete, EndSignalSound
    <2> QED  BY <1>1, <2>1, <2>3, <2>4 DEF Complete
  <1> QED  BY <1>2, <1>3

\* Complete is an invariant.
LEMMA CompleteInvariant == Spec => []Complete
  BY CompleteInit, CompleteStep, PTL DEF Spec

\* reset_scheduler_cnt before schedule() and queue_job_scheduler after every
\* submission and epilog: until a message times out no idle node is
\* forgotten, for any trace, any time limits and any refused submissions.
THEOREM NoWorkForgotten == Spec => []WorkConserving
  <1>1. Complete => WorkConserving  BY DEF Complete
  <1> QED  BY <1>1, CompleteInvariant, PTL

\* Lost updates of total_epilog_complete_jobs can only delay the end: the
\* simulation is never ended with a job unfinished.
THEOREM EndIsSound == Spec => []EndSignalSound
  <1>1. Complete => EndSignalSound  BY DEF Complete
  <1> QED  BY <1>1, CompleteInvariant, PTL

=============================================================================
