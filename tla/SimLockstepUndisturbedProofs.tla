-------------------- MODULE SimLockstepUndisturbedProofs --------------------
(***************************************************************************)
(* Simulations in which no message times out and no job is killed at its   *)
(* time limit, for every trace and order of steps: what the helper counts  *)
(* is right at each hand-over, a job runs for its duration, and the        *)
(* programs implement the simulation that SimSemantics describes.          *)
(***************************************************************************)
EXTENDS SimLockstepProofs

\* The prover of a leaf that names none.
USE Zenon

-----------------------------------------------------------------------------
(* Simulations without disturbance                                         *)

\* A step in which no message of the helper times out and no job is killed
\* at its time limit.
Calm == ~Timeout /\ ~job_time_limit

\* The simulations that are made of such steps.
Undisturbed == Spec /\ [][Calm]_vars

\* A job is started inside a cycle, when the helper waits for the reply.
CalmStarts(j) == StartJob(j) /\ helper # "sleep"

\* The steps of a simulation without disturbance: every message has slot 0.
CalmStep ==
  \/ LoopTop \/ generateJob \/ rpc_sim_job \/ rpc_sim_job_uninitialised \/
     PostSlurmSem \/ WaitSimSem \/ terminate_simulation \/ WaitSlurmSem \/
     EndJob \/ NoJobEnded \/ AllJobsEnded \/ EpilogsFinished \/ AgentWakes \/ AgentExits
     \/ BackfillWakes \/ BackfillLocks \/ BackfillReturns \/ CheckAllFinished \/ Stopped
  \/ \E j \in Jobs : submit_batch_job(j) \/ SubmitQueuesScheduler(j) \/
       epilog_complete(j) \/ EpilogQueuesScheduler(j) \/ EpilogReplies(j) \/
       EpilogCounts(j) \/ EpilogReadsTotal(j) \/ EpilogWritesTotal(j) \/
       simulator_rpc_terminate_job(j) \/ TerminateFinishes(j) \/
       rpc_timelimit(j) \/ simulator_rpc_batch_job(j) \/ AddEvent(j) \/
       CalmStarts(j)
  \/ complete_batch_script(0) \/ job_complete(0) \/
     CompleteReplies(0) \/ CompletedJobsArrived(0) \/ EpilogsArrived(0) \/
     get_scheduler_cnt(0) \/ reset_scheduler_cnt(0) \/ do_backfill(0) \/
     BackfillWaited(0) \/ CycleReplies(0)
  \/ \E t \in Callers : ScheduleChecks(t) \/ ScheduleBegins(t) \/
       ScheduleDefers(t) \/ schedule(t) \/ ScheduleReturns(t) \/
       ScheduleEnds(t)

\* With no timeout, the first slot is the only one in use.
LEMMA FirstSlot ==
  ASSUME Safe, timeouts = 0
  PROVE  /\ \A k \in Slots : complete[k] # "none" \/ cycle[k] # "none" => k = 0
         /\ cycle[0] # "none" <=> helper = "cycle"
         /\ complete[0] # "none" <=> helper = "complete"
         /\ helper # "sleep" <=> mgr = "wait" /\ slurm_sem = 0 /\ sim_sem = 0
         /\ complete[0] # "none" => complete_job[0] \in Jobs
         /\ \A t \in Callers : cycle[t] = "schedule" => t = 0
         /\ backfill = "run" => cycle[0] = "bf_wait"
         /\ helper # "sleep" => current_sim' = current_sim \/ ~WaitSimSem
  <1>1. SlotsOK /\ SlotType /\ HelperType /\ CounterType  BY SafeParts
  <1>2. \A k \in Slots : complete[k] # "none" \/ cycle[k] # "none" => k = 0
      BY <1>1, CallerFacts, SMT DEF SlotsOK, Slots
  <1>3. /\ cycle[0] # "none" <=> helper = "cycle"
        /\ complete[0] # "none" <=> helper = "complete"
        /\ complete[0] # "none" => complete_job[0] \in Jobs
      BY <1>1, CallerFacts DEF SlotsOK
  <1>4. helper # "sleep" <=> mgr = "wait" /\ slurm_sem = 0 /\ sim_sem = 0
      BY <1>1, SMT DEF Safe, OneToken, One, HelperType
  <1>5. \A t \in Callers : cycle[t] = "schedule" => t = 0
      BY <1>2, CallerFacts DEF Safe, RunOK
  <1>6. backfill = "run" => cycle[0] = "bf_wait"
      BY <1>1, SMT DEF Safe, BackfillToken, One, CounterType
  <1>7. helper # "sleep" => ~WaitSimSem
      BY <1>4, SMT DEF WaitSimSem
  <1> QED  BY <1>2, <1>3, <1>4, <1>5, <1>6, <1>7

\* Every calm step is one of those above.
LEMMA CalmCases ==
  ASSUME Safe, timeouts = 0, Next, Calm
  PROVE  CalmStep
  <1>1. SlotsOK /\ SlotType  BY SafeParts
  <1>2. ASSUME NEW k \in Slots, CompleteThread(k) PROVE CalmStep
    <2>1. complete[k] # "none"
        BY <1>2 DEF CompleteThread, complete_batch_script, job_complete, CompleteReplies
    <2>2. k = 0  BY <2>1, FirstSlot
    <2> QED  BY <1>2, <2>2 DEF CompleteThread, CalmStep
  <1>3. ASSUME NEW t \in Callers, Scheduler(t) PROVE CalmStep
    <2>1. ASSUME NEW j \in Jobs, ScheduleStarts(t, j) PROVE CalmStep
      <3>1. cycle[t] = "schedule" /\ StartJob(j)  BY <2>1 DEF ScheduleStarts
      <3>2. helper # "sleep"  BY <3>1, FirstSlot
      <3> QED  BY <3>1, <3>2 DEF CalmStarts, CalmStep
    <2> QED  BY <1>3, <2>1 DEF Scheduler, CalmStep
  <1>4. ASSUME NEW k \in Slots, sim_helper_cycle(k) PROVE CalmStep
    <2>1. CASE Scheduler(k)  BY <2>1, <1>3, CallerFacts
    <2>2. CASE ~Scheduler(k)
      <3>1. cycle[k] # "none"
          BY <1>4, <2>2 DEF sim_helper_cycle, CompletedJobsArrived, EpilogsArrived, get_scheduler_cnt,
             reset_scheduler_cnt, do_backfill, BackfillWaited, CycleReplies, At, Moves
      <3>2. k = 0  BY <3>1, FirstSlot
      <3> QED  BY <1>4, <2>2, <3>2 DEF sim_helper_cycle, CalmStep
    <2> QED  BY <2>1, <2>2
  <1>5. ASSUME backfill_agent PROVE CalmStep
    <2>1. ASSUME NEW j \in Jobs, BackfillStarts(j) PROVE CalmStep
      <3>1. backfill = "run" /\ StartJob(j)  BY <2>1 DEF BackfillStarts
      <3>2. helper # "sleep"  BY <3>1, FirstSlot
      <3> QED  BY <3>1, <3>2 DEF CalmStarts, CalmStep
    <2> QED  BY <1>5, <2>1 DEF backfill_agent, CalmStep
  <1>6. ASSUME sched_agent PROVE CalmStep
      BY <1>3, <1>6, CallerFacts DEF sched_agent, CalmStep
  <1>7. ASSUME NEW j \in Jobs, JobThreads(j) PROVE CalmStep
      BY <1>7 DEF JobThreads, CalmStep
  <1>8. ASSUME time_mgr \/ terminate_simulation \/ simulator_helper \/ CheckAllFinished \/ Stopped
        PROVE  CalmStep
      BY <1>8 DEF time_mgr, simulator_helper, CalmStep
  <1> QED  BY <1>2, <1>4, <1>5, <1>6, <1>7, <1>8 DEF Next, Calm

\* No calm step counts a timeout.
LEMMA CalmTimeouts ==
  ASSUME CalmStep
  PROVE  \/ UNCHANGED <<timeouts>>
  <1> USE DEF mgr_vars, sem_vars, helper_vars, slurmd_vars, job_vars, count_vars,
           sched_vars, bf_vars, rpc_vars, slot_vars, complete_vars, cycle_vars,
           run_vars
  <1>1. ASSUME LoopTop \/ generateJob \/ rpc_sim_job \/ rpc_sim_job_uninitialised \/
               PostSlurmSem \/ WaitSimSem \/ terminate_simulation \/ WaitSlurmSem \/
               EndJob \/ NoJobEnded \/ AllJobsEnded \/ EpilogsFinished \/ AgentWakes
               \/ AgentExits \/ BackfillWakes \/ BackfillLocks \/ BackfillReturns \/
               CheckAllFinished \/ Stopped
        PROVE  UNCHANGED <<timeouts>>
      BY <1>1 DEF LoopTop, generateJob, rpc_sim_job, rpc_sim_job_uninitialised,
         PostSlurmSem, WaitSimSem, terminate_simulation, WaitSlurmSem, EndJob,
         NoJobEnded, SendCycle, AllJobsEnded, EpilogsFinished, AgentWakes, At, Moves,
         AgentExits, BackfillWakes, BackfillLocks, BackfillReturns, CheckAllFinished,
         Stopped, vars
  <1>2. ASSUME NEW j \in Jobs, submit_batch_job(j) \/ SubmitQueuesScheduler(j) \/
               epilog_complete(j) \/ EpilogQueuesScheduler(j) \/ EpilogReplies(j) \/
               EpilogCounts(j) \/ EpilogReadsTotal(j) \/ EpilogWritesTotal(j) \/
               simulator_rpc_terminate_job(j) \/ TerminateFinishes(j) \/
               rpc_timelimit(j) \/ simulator_rpc_batch_job(j) \/ AddEvent(j) \/
               CalmStarts(j)
        PROVE  UNCHANGED <<timeouts>>
      BY <1>2 DEF submit_batch_job, SubmitQueuesScheduler, epilog_complete,
         EpilogQueuesScheduler, EpilogReplies, EpilogCounts, EpilogReadsTotal,
         EpilogWritesTotal, simulator_rpc_terminate_job, TerminateFinishes,
         rpc_timelimit, simulator_rpc_batch_job, AddEvent, CalmStarts, StartJob
  <1>3. ASSUME complete_batch_script(0) \/ job_complete(0) \/ CompleteReplies(0) \/
               CompletedJobsArrived(0) \/ EpilogsArrived(0) \/ get_scheduler_cnt(0) \/
               reset_scheduler_cnt(0) \/ do_backfill(0) \/ BackfillWaited(0) \/
               CycleReplies(0)
        PROVE  UNCHANGED <<timeouts>>
      BY <1>3 DEF complete_batch_script, job_complete, CompleteReplies,
         CompletedJobsArrived, At, Moves, EpilogsArrived, get_scheduler_cnt,
         reset_scheduler_cnt, do_backfill, BackfillWaited, CycleReplies
  <1>4. ASSUME NEW t \in Callers, ScheduleChecks(t) \/ ScheduleBegins(t) \/
               ScheduleDefers(t) \/ schedule(t) \/ ScheduleReturns(t) \/
               ScheduleEnds(t)
        PROVE  UNCHANGED <<timeouts>>
      BY <1>4 DEF ScheduleChecks, At, Moves, ScheduleBegins, NewJobLimit,
         ScheduleDefers, After, schedule, ScheduleReturns, ScheduleEnds
  <1> QED  BY <1>1, <1>2, <1>3, <1>4 DEF CalmStep

-----------------------------------------------------------------------------
(* A job is launched, entered in the list and reported once                *)

\* The job whose end the helper is reporting.
Reported == complete[0] \in {"arrived", "lock"}

\* A job whose launch is under way, that is in the list of completions or is
\* being reported is running, and it is in one of these places only.
FlowOK ==
  /\ \A j \in Jobs : launch[j] # "none" => job_state[j] = "RUNNING"
  /\ \A i \in 1..Len(events) :
        /\ job_state[events[i].job] = "RUNNING" /\ launch[events[i].job] = "none"
        /\ \A k \in 1..Len(events) : events[i].job = events[k].job => i = k
  /\ Reported =>
        /\ job_state[complete_job[0]] = "RUNNING" /\ launch[complete_job[0]] = "none"
        /\ complete_job[0] \in completed
        /\ \A i \in 1..Len(events) : events[i].job # complete_job[0]

\* What is left when the first completion is taken off.
LEMMA TailOf ==
  ASSUME NEW list \in Seq(Event(Jobs)), list # <<>>
  PROVE  /\ Len(list) \in Nat /\ Len(list) > 0 /\ Len(Tail(list)) = Len(list) - 1
         /\ Head(list) = list[1]
         /\ \A i \in 1..Len(list) : list[i].job \in Jobs /\ list[i].when \in Nat
         /\ \A i \in 1..Len(list) - 1 : Tail(list)[i] = list[i + 1]
  <1>1. \A i \in 1..Len(list) : list[i] \in Event(Jobs)  BY SMT
  <1>2. \A i \in 1..Len(list) : list[i].job \in Jobs /\ list[i].when \in Nat
      BY <1>1 DEF Event
  <1> QED  BY <1>2, SMT

\* What AddEvent does to the list: the completion gets position p, and every
\* other one keeps its place or moves one back.
LEMMA AddedAt ==
  ASSUME NEW j \in Jobs, AddEvent(j), info[j] # -1, EventType, JobType, MgrType
  PROVE  \E p \in 1..Len(events) + 1 :
           /\ Len(events) \in Nat /\ Len(events') = Len(events) + 1
           /\ events'[p].job = j /\ events'[p].when = current_sim + info[j]
           /\ \A i \in 1..p - 1 : events'[i] = events[i]
           /\ \A i \in p + 1..Len(events) + 1 : events'[i] = events[i - 1]
  <1> DEFINE e == [job |-> j, when |-> current_sim + info[j]]
             p == InsertPosition(events, e.when)
  <1>1. e \in Event(Jobs) /\ e.when \in Nat /\ e.job = j /\ e.when = current_sim + info[j]
      BY SMT DEF JobType, MgrType, Event
  <1>2. events' = LinkAt(events, p, e)
      BY DEF AddEvent, simulator_add_future_event
  <1> HIDE DEF e
  <1>3. p \in 1..Len(events) + 1  BY <1>1, PositionFound DEF EventType
  <1> HIDE DEF p
  <1>4. Len(events) \in Nat  BY SMT DEF EventType
  <1>5. /\ Len(LinkAt(events, p, e)) = Len(events) + 1
        /\ LinkAt(events, p, e)[p] = e
        /\ \A i \in 1..p - 1 : LinkAt(events, p, e)[i] = events[i]
        /\ \A i \in p + 1..Len(events) + 1 : LinkAt(events, p, e)[i] = events[i - 1]
      BY <1>1, <1>3, Inserted, SMT DEF EventType
  <1> QED  BY <1>1, <1>2, <1>3, <1>4, <1>5

\* A job goes from the launch to the list and from there to the report.
LEMMA FlowStep ==
  ASSUME Safe, timeouts = 0, FlowOK, CalmStep
  PROVE  FlowOK'
  \* Who starts, launches, enters and reports jobs.
  <1>FlowWriters. \/ UNCHANGED <<launch, job_state, events, complete, complete_job, completed>>
                  \/ EndJob
                  \/ \E j \in Jobs : submit_batch_job(j) \/ epilog_complete(j) \/
                       simulator_rpc_terminate_job(j) \/ simulator_rpc_batch_job(j) \/
                       AddEvent(j) \/ CalmStarts(j)
                  \/ complete_batch_script(0) \/ job_complete(0) \/ CompleteReplies(0)
    <2> USE DEF mgr_vars, sem_vars, helper_vars, slurmd_vars, job_vars, count_vars,
             sched_vars, bf_vars, rpc_vars, slot_vars, complete_vars, cycle_vars,
             run_vars
    <2>1. ASSUME LoopTop \/ generateJob \/ rpc_sim_job \/ rpc_sim_job_uninitialised \/
                 PostSlurmSem \/ WaitSimSem \/ terminate_simulation \/ WaitSlurmSem \/
                 NoJobEnded \/ AllJobsEnded \/ EpilogsFinished \/ AgentWakes \/
                 AgentExits \/ BackfillWakes \/ BackfillLocks \/ BackfillReturns \/
                 CheckAllFinished \/ Stopped
          PROVE  UNCHANGED <<launch, job_state, events, complete, complete_job,
                 completed>>
        BY <2>1 DEF LoopTop, generateJob, rpc_sim_job, rpc_sim_job_uninitialised,
           PostSlurmSem, WaitSimSem, terminate_simulation, WaitSlurmSem, NoJobEnded,
           SendCycle, AllJobsEnded, EpilogsFinished, AgentWakes, At, Moves, AgentExits,
           BackfillWakes, BackfillLocks, BackfillReturns, CheckAllFinished, Stopped,
           vars
    <2>2. ASSUME NEW j \in Jobs, SubmitQueuesScheduler(j) \/ EpilogQueuesScheduler(j) \/
                 EpilogReplies(j) \/ EpilogCounts(j) \/ EpilogReadsTotal(j) \/
                 EpilogWritesTotal(j) \/ TerminateFinishes(j) \/ rpc_timelimit(j)
          PROVE  UNCHANGED <<launch, job_state, events, complete, complete_job,
                 completed>>
        BY <2>2 DEF SubmitQueuesScheduler, EpilogQueuesScheduler, EpilogReplies,
           EpilogCounts, EpilogReadsTotal, EpilogWritesTotal, TerminateFinishes,
           rpc_timelimit
    <2>3. ASSUME CompletedJobsArrived(0) \/ EpilogsArrived(0) \/ get_scheduler_cnt(0) \/
                 reset_scheduler_cnt(0) \/ do_backfill(0) \/ BackfillWaited(0) \/
                 CycleReplies(0)
          PROVE  UNCHANGED <<launch, job_state, events, complete, complete_job,
                 completed>>
        BY <2>3 DEF CompletedJobsArrived, At, Moves, EpilogsArrived,
           get_scheduler_cnt, reset_scheduler_cnt, do_backfill, BackfillWaited,
           CycleReplies
    <2>4. ASSUME NEW t \in Callers, ScheduleChecks(t) \/ ScheduleBegins(t) \/
                 ScheduleDefers(t) \/ schedule(t) \/ ScheduleReturns(t) \/
                 ScheduleEnds(t)
          PROVE  UNCHANGED <<launch, job_state, events, complete, complete_job,
                 completed>>
        BY <2>4 DEF ScheduleChecks, At, Moves, ScheduleBegins, NewJobLimit,
           ScheduleDefers, After, schedule, ScheduleReturns, ScheduleEnds
    <2> QED  BY <2>1, <2>2, <2>3, <2>4 DEF CalmStep
  \* A step that takes no running job away and reports no other one.
  <1>FlowKept. ASSUME UNCHANGED <<launch, events>>, EventType,
                      \A j \in Jobs : job_state[j] = "RUNNING" => job_state'[j] = "RUNNING",
                      Reported' => /\ Reported /\ complete_job'[0] = complete_job[0]
                                   /\ complete_job[0] \in Jobs
                                   /\ complete_job[0] \in completed => complete_job[0] \in completed'
               PROVE  FlowOK'
    <2> USE <1>FlowKept
    <2>1. \A i \in 1..Len(events) : events[i].job \in Jobs
      <3>1. \A i \in 1..Len(events) : events[i] \in Event(Jobs)  BY SMT DEF EventType
      <3> QED  BY <3>1 DEF Event
    <2> QED  BY <2>1 DEF FlowOK, Reported
  <1> USE DEF mgr_vars, sem_vars, helper_vars, slurmd_vars, job_vars, count_vars,
           sched_vars, bf_vars, rpc_vars, slot_vars, complete_vars, cycle_vars,
           run_vars
  <1>0. /\ MgrType /\ JobType /\ EventType /\ SlotType /\ SubmissionOK /\ EpilogsOK /\ SlotsOK
        /\ complete[0] # "none" => complete_job[0] \in Jobs
        /\ 0 \in Slots
      BY SafeParts, FirstSlot, CallerFacts
  <1>e. /\ Len(events) \in Nat
        /\ \A i \in 1..Len(events) : events[i].job \in Jobs
    <2>1. Len(events) \in Nat /\ \A i \in 1..Len(events) : events[i] \in Event(Jobs)
        BY <1>0, SMT DEF EventType
    <2> QED  BY <2>1 DEF Event
  <1>1. CASE EndJob
    <2>1. /\ events # <<>> /\ events' = Tail(events) /\ UNCHANGED <<launch, job_state>>
          /\ completed' = completed \cup {Head(events).job}
          /\ complete' = [complete EXCEPT ![0] = "arrived"]
          /\ complete_job' = [complete_job EXCEPT ![0] = Head(events).job]
        BY <1>1 DEF EndJob, EventDue
    <2>2. /\ Len(events) > 0 /\ Len(events') = Len(events) - 1
          /\ \A i \in 1..Len(events) - 1 : events'[i] = events[i + 1]
        BY <2>1, <1>0, TailOf DEF EventType
    <2>3. Head(events).job = events[1].job  BY <2>1, <1>0, TailOf DEF EventType
    <2>4. complete_job'[0] = events[1].job /\ events[1].job \in completed'
        BY <2>1, <2>3, <1>0 DEF SlotType
    <2>5. \A i \in 1..Len(events') : i + 1 \in 1..Len(events) /\ events'[i] = events[i + 1]
        BY <2>2, <1>e, SMT
    <2>6. /\ 1 \in 1..Len(events)
          /\ job_state[events[1].job] = "RUNNING" /\ launch[events[1].job] = "none"
        BY <2>2, <1>e, SMT DEF FlowOK
    <2>7. \A i \in 1..Len(events') :
              /\ job_state[events'[i].job] = "RUNNING" /\ launch[events'[i].job] = "none"
              /\ events'[i].job # events[1].job
              /\ \A k \in 1..Len(events') : events'[i].job = events'[k].job => i = k
      <3> SUFFICES ASSUME NEW i \in 1..Len(events')
                   PROVE  /\ job_state[events'[i].job] = "RUNNING" /\ launch[events'[i].job] = "none"
                          /\ events'[i].job # events[1].job
                          /\ \A k \in 1..Len(events') : events'[i].job = events'[k].job => i = k
          OBVIOUS
      <3>1. i + 1 \in 1..Len(events) /\ events'[i] = events[i + 1] /\ i + 1 # 1
          BY <2>5, <2>2, <1>e, SMT
      <3>2. job_state[events'[i].job] = "RUNNING" /\ launch[events'[i].job] = "none"
          BY <3>1 DEF FlowOK
      <3>3. events'[i].job # events[1].job  BY <3>1, <2>6 DEF FlowOK
      <3>4. ASSUME NEW k \in 1..Len(events'), events'[i].job = events'[k].job PROVE i = k
        <4>1. k + 1 \in 1..Len(events) /\ events'[k] = events[k + 1]  BY <2>5
        <4>2. i + 1 = k + 1  BY <3>1, <3>4, <4>1 DEF FlowOK
        <4> QED  BY <4>2, <2>2, <1>e, SMT
      <3> QED  BY <3>2, <3>3, <3>4
    <2> QED  BY <2>1, <2>4, <2>6, <2>7, SMT DEF FlowOK
  <1>2. ASSUME NEW j \in Jobs, submit_batch_job(j) PROVE FlowOK'
    <2>1. job_state[j] = "none"
      <3>1. j = trace_head /\ mgr = "submitting" /\ j \in Int
          BY <1>2, <1>0, SMT DEF submit_batch_job, SubmissionOK, Jobs
      <3> QED  BY <3>1, <1>0, SMT DEF SubmissionOK, JobType
    <2>2. /\ UNCHANGED <<launch, events, complete, complete_job, completed>>
          /\ job_state' \in {job_state, [job_state EXCEPT ![j] = "PENDING"]}
        BY <1>2 DEF submit_batch_job
    <2>3. \A i \in Jobs : job_state[i] = "RUNNING" => job_state'[i] = "RUNNING"
        BY <2>1, <2>2, <1>0 DEF JobType
    <2> QED  BY <2>2, <2>3, <1>0, <1>FlowKept DEF Reported
  <1>3. ASSUME NEW j \in Jobs, epilog_complete(j) PROVE FlowOK'
    <2>1. job_state[j] = "COMPLETING"
        BY <1>3, <1>0 DEF epilog_complete, EpilogsOK
    <2>2. /\ UNCHANGED <<launch, events, complete, complete_job, completed>>
          /\ job_state' = [job_state EXCEPT ![j] = "DONE"]
        BY <1>3 DEF epilog_complete
    <2>3. \A i \in Jobs : job_state[i] = "RUNNING" => job_state'[i] = "RUNNING"
        BY <2>1, <2>2, <1>0 DEF JobType
    <2> QED  BY <2>2, <2>3, <1>0, <1>FlowKept DEF Reported
  <1>4. ASSUME NEW j \in Jobs, simulator_rpc_terminate_job(j) PROVE FlowOK'
    <2>1. job_state[j] = "COMPLETING"
        BY <1>4, <1>0 DEF simulator_rpc_terminate_job, EpilogsOK
    <2>2. /\ UNCHANGED <<launch, events, complete, complete_job, job_state>>
          /\ completed' = completed \ {j}
        BY <1>4 DEF simulator_rpc_terminate_job
    <2>3. Reported => complete_job[0] # j
        BY <2>1 DEF FlowOK
    <2>4. Reported' => Reported /\ complete_job[0] \in Jobs
        BY <2>2, <1>0 DEF Reported
    <2> QED  BY <2>2, <2>3, <2>4, <1>0, <1>FlowKept
  <1>5. ASSUME NEW j \in Jobs, simulator_rpc_batch_job(j) PROVE FlowOK'
    <2>1. /\ launch[j] = "arrived" /\ launch' = [launch EXCEPT ![j] = "add"]
          /\ UNCHANGED <<job_state, events, complete, complete_job, completed>>
        BY <1>5 DEF simulator_rpc_batch_job
    <2>2. \A i \in Jobs : launch'[i] = "none" <=> launch[i] = "none"
        BY <2>1, <1>0 DEF JobType
    <2> QED  BY <2>1, <2>2, <1>0, <1>e DEF FlowOK, Reported
  <1>6. ASSUME NEW j \in Jobs, AddEvent(j) PROVE FlowOK'
    <2>1. /\ launch[j] = "add" /\ launch' = [launch EXCEPT ![j] = "none"]
          /\ UNCHANGED <<job_state, complete, complete_job, completed>>
        BY <1>6 DEF AddEvent
    <2>2. /\ \A i \in Jobs : launch[i] = "none" \/ i = j => launch'[i] = "none"
          /\ \A i \in Jobs : launch'[i] # "none" => launch[i] # "none"
        BY <2>1, <1>0 DEF JobType
    <2>3. /\ job_state[j] = "RUNNING" /\ \A i \in 1..Len(events) : events[i].job # j
          /\ Reported => complete_job[0] # j
        BY <2>1 DEF FlowOK
    <2>4. CASE info[j] = -1
      <3>1. events' = events  BY <1>6, <2>4 DEF AddEvent
      <3> QED  BY <2>1, <2>2, <3>1, <1>0, <1>e DEF FlowOK, Reported
    <2>5. CASE info[j] # -1
      <3>1. PICK p \in 1..Len(events) + 1 :
              /\ Len(events') = Len(events) + 1 /\ events'[p].job = j
              /\ \A i \in 1..p - 1 : events'[i] = events[i]
              /\ \A i \in p + 1..Len(events) + 1 : events'[i] = events[i - 1]
          BY <1>6, <2>5, <1>0, AddedAt
      <3> DEFINE old(i) == IF i < p THEN i ELSE i - 1
      <3>2. \A i \in 1..Len(events') : i # p =>
              old(i) \in 1..Len(events) /\ events'[i] = events[old(i)]
          BY <3>1, <1>e, SMT
      <3>3. \A i, k \in 1..Len(events') : i # p /\ k # p /\ old(i) = old(k) => i = k
          BY <3>1, <1>e, SMT
      <3> HIDE DEF old
      <3>4. \A i \in 1..Len(events') :
              /\ events'[i].job \in Jobs
              /\ job_state[events'[i].job] = "RUNNING" /\ launch'[events'[i].job] = "none"
              /\ Reported => events'[i].job # complete_job[0]
        <4> SUFFICES ASSUME NEW i \in 1..Len(events')
                     PROVE  /\ events'[i].job \in Jobs
                            /\ job_state[events'[i].job] = "RUNNING"
                            /\ launch'[events'[i].job] = "none"
                            /\ Reported => events'[i].job # complete_job[0]
            OBVIOUS
        <4>1. CASE i = p  BY <4>1, <3>1, <2>2, <2>3
        <4>2. CASE i # p
          <5>1. old(i) \in 1..Len(events) /\ events'[i] = events[old(i)]  BY <4>2, <3>2
          <5>2. events[old(i)].job \in Jobs  BY <5>1, <1>e
          <5>3. /\ job_state[events[old(i)].job] = "RUNNING" /\ launch[events[old(i)].job] = "none"
                /\ Reported => events[old(i)].job # complete_job[0]
              BY <5>1 DEF FlowOK
          <5> QED  BY <5>1, <5>2, <5>3, <2>2
        <4> QED  BY <4>1, <4>2
      <3>5. \A i, k \in 1..Len(events') : events'[i].job = events'[k].job => i = k
        <4> SUFFICES ASSUME NEW i \in 1..Len(events'), NEW k \in 1..Len(events'),
                            events'[i].job = events'[k].job
                     PROVE  i = k
            OBVIOUS
        <4>1. CASE i = p \/ k = p  BY <4>1, <3>1, <3>2, <2>3
        <4>2. CASE i # p /\ k # p
          <5>1. events[old(i)].job = events[old(k)].job  BY <4>2, <3>2
          <5>2. old(i) = old(k)  BY <5>1, <4>2, <3>2 DEF FlowOK
          <5> QED  BY <5>2, <4>2, <3>3
        <4> QED  BY <4>1, <4>2
      <3>6. \A i \in Jobs : launch'[i] # "none" => job_state'[i] = "RUNNING"
          BY <2>1, <2>2 DEF FlowOK
      <3>7. Reported' => /\ Reported /\ complete_job'[0] = complete_job[0]
                         /\ job_state[complete_job[0]] = "RUNNING" /\ launch'[complete_job[0]] = "none"
                         /\ complete_job[0] \in completed
          BY <2>1, <2>2, <1>0 DEF Reported, FlowOK
      <3> QED  BY <2>1, <3>4, <3>5, <3>6, <3>7 DEF FlowOK
    <2> QED  BY <2>4, <2>5
  <1>7. ASSUME NEW j \in Jobs, CalmStarts(j) PROVE FlowOK'
    <2>1. /\ job_state[j] = "PENDING" /\ job_state' = [job_state EXCEPT ![j] = "RUNNING"]
          /\ launch' = [launch EXCEPT ![j] = "arrived"]
          /\ UNCHANGED <<events, complete, complete_job, completed>>
        BY <1>7 DEF CalmStarts, StartJob, Startable
    <2>2. /\ \A i \in Jobs : i # j => job_state'[i] = job_state[i] /\ launch'[i] = launch[i]
          /\ job_state'[j] = "RUNNING"
        BY <2>1, <1>0 DEF JobType
    <2>3. /\ \A i \in 1..Len(events) : events[i].job # j
          /\ Reported => complete_job[0] # j
        BY <2>1 DEF FlowOK
    <2>4. Reported' <=> Reported  BY <2>1 DEF Reported
    <2>5. Reported => complete_job[0] \in Jobs  BY <1>0 DEF Reported
    <2> QED  BY <2>1, <2>2, <2>3, <2>4, <2>5, <1>e, SMT DEF FlowOK
  <1>8. CASE complete_batch_script(0)
    <2>1. /\ complete[0] = "arrived" /\ complete' = [complete EXCEPT ![0] = "lock"]
          /\ UNCHANGED <<launch, job_state, events, complete_job, completed>>
        BY <1>8 DEF complete_batch_script
    <2> QED  BY <2>1, <1>0, <1>FlowKept DEF Reported, SlotType
  <1>9. CASE job_complete(0)
    <2>1. /\ complete[0] = "lock" /\ complete' = [complete EXCEPT ![0] = "reply"]
          /\ UNCHANGED <<launch, events, complete_job, completed>>
          /\ job_state' \in {job_state, [job_state EXCEPT ![complete_job[0]] = "COMPLETING"]}
        BY <1>9 DEF job_complete
    <2>2. Reported /\ ~Reported'  BY <2>1, <1>0 DEF Reported, SlotType
    <2>3. \A i \in Jobs : i # complete_job[0] => job_state'[i] = job_state[i]
        BY <2>1, <1>0 DEF JobType
    <2> QED  BY <2>1, <2>2, <2>3, <1>0, <1>e DEF FlowOK
  <1>10. CASE CompleteReplies(0)
    <2>1. /\ complete' = [complete EXCEPT ![0] = "none"]
          /\ UNCHANGED <<launch, job_state, events>>
        BY <1>10 DEF CompleteReplies
    <2>2. ~Reported'  BY <2>1, <1>0 DEF Reported, SlotType
    <2> QED  BY <2>1, <2>2, <1>0, <1>FlowKept
  <1>11. CASE UNCHANGED <<launch, job_state, events, complete, complete_job, completed>>
      BY <1>11, <1>0, <1>FlowKept DEF Reported
  <1> QED  BY <1>1, <1>2, <1>3, <1>4, <1>5, <1>6, <1>7, <1>8, <1>9, <1>10, <1>11, <1>FlowWriters

-----------------------------------------------------------------------------
(* Every ended job has its epilog awaited                                  *)

\* A completing job is known to slurmd as ended until its epilog is sent, and
\* the terminate thread waits for the reply; nobody is killed at its limit.
EpilogDue ==
  \A j \in Jobs :
    /\ job_state[j] = "COMPLETING" =>
         \/ terminate[j] = "queued" /\ j \in completed
         \/ terminate[j] = "epilog" /\ epilog[j] = "arrived"
    /\ terminate[j] = "epilog" => epilog[j] \in {"arrived", "queue", "reply"}
    /\ terminate[j] = "replied" => job_state[j] = "DONE"
    /\ terminate[j] # "killed"

\* A job that job_complete ends is in the list of ended jobs of slurmd.
LEMMA EpilogDueStep ==
  ASSUME Safe, timeouts = 0, FlowOK, EpilogDue, CalmStep
  PROVE  EpilogDue'
  \* Who ends jobs and runs their epilogs.
  <1>EpilogDueWriters. \/ UNCHANGED <<job_state, terminate, completed, epilog>>
                       \/ EndJob
                       \/ \E j \in Jobs : submit_batch_job(j) \/ epilog_complete(j) \/
                            EpilogQueuesScheduler(j) \/ EpilogReplies(j) \/ EpilogCounts(j) \/
                            EpilogReadsTotal(j) \/ EpilogWritesTotal(j) \/
                            simulator_rpc_terminate_job(j) \/ TerminateFinishes(j) \/
                            rpc_timelimit(j) \/ CalmStarts(j)
                       \/ job_complete(0)
    <2> USE DEF mgr_vars, sem_vars, helper_vars, slurmd_vars, job_vars, count_vars,
             sched_vars, bf_vars, rpc_vars, slot_vars, complete_vars, cycle_vars,
             run_vars
    <2>1. ASSUME LoopTop \/ generateJob \/ rpc_sim_job \/ rpc_sim_job_uninitialised \/
                 PostSlurmSem \/ WaitSimSem \/ terminate_simulation \/ WaitSlurmSem \/
                 NoJobEnded \/ AllJobsEnded \/ EpilogsFinished \/ AgentWakes \/
                 AgentExits \/ BackfillWakes \/ BackfillLocks \/ BackfillReturns \/
                 CheckAllFinished \/ Stopped
          PROVE  UNCHANGED <<job_state, terminate, completed, epilog>>
        BY <2>1 DEF LoopTop, generateJob, rpc_sim_job, rpc_sim_job_uninitialised,
           PostSlurmSem, WaitSimSem, terminate_simulation, WaitSlurmSem, NoJobEnded,
           SendCycle, AllJobsEnded, EpilogsFinished, AgentWakes, At, Moves, AgentExits,
           BackfillWakes, BackfillLocks, BackfillReturns, CheckAllFinished, Stopped,
           vars
    <2>2. ASSUME NEW j \in Jobs, SubmitQueuesScheduler(j) \/ simulator_rpc_batch_job(j)
                 \/ AddEvent(j)
          PROVE  UNCHANGED <<job_state, terminate, completed, epilog>>
        BY <2>2 DEF SubmitQueuesScheduler, simulator_rpc_batch_job, AddEvent
    <2>3. ASSUME complete_batch_script(0) \/ CompleteReplies(0) \/
                 CompletedJobsArrived(0) \/ EpilogsArrived(0) \/ get_scheduler_cnt(0) \/
                 reset_scheduler_cnt(0) \/ do_backfill(0) \/ BackfillWaited(0) \/
                 CycleReplies(0)
          PROVE  UNCHANGED <<job_state, terminate, completed, epilog>>
        BY <2>3 DEF complete_batch_script, CompleteReplies, CompletedJobsArrived,
           At, Moves, EpilogsArrived, get_scheduler_cnt, reset_scheduler_cnt,
           do_backfill, BackfillWaited, CycleReplies
    <2>4. ASSUME NEW t \in Callers, ScheduleChecks(t) \/ ScheduleBegins(t) \/
                 ScheduleDefers(t) \/ schedule(t) \/ ScheduleReturns(t) \/
                 ScheduleEnds(t)
          PROVE  UNCHANGED <<job_state, terminate, completed, epilog>>
        BY <2>4 DEF ScheduleChecks, At, Moves, ScheduleBegins, NewJobLimit,
           ScheduleDefers, After, schedule, ScheduleReturns, ScheduleEnds
    <2> QED  BY <2>1, <2>2, <2>3, <2>4 DEF CalmStep
  <1> USE DEF mgr_vars, sem_vars, helper_vars, slurmd_vars, job_vars, count_vars,
           sched_vars, bf_vars, rpc_vars, slot_vars, complete_vars, cycle_vars,
           run_vars
  <1>0. /\ JobType /\ SlotType /\ SubmissionOK /\ EpilogsOK
        /\ complete[0] # "none" => complete_job[0] \in Jobs
      BY SafeParts, FirstSlot
  <1>1. CASE EndJob
    <2>1. UNCHANGED <<job_state, terminate, epilog>> /\ completed \subseteq completed'
        BY <1>1 DEF EndJob
    <2> QED  BY <2>1 DEF EpilogDue
  <1>2. ASSUME NEW j \in Jobs, submit_batch_job(j) PROVE EpilogDue'
    <2>1. job_state[j] = "none"
      <3>1. j = trace_head /\ mgr = "submitting" /\ j \in Int
          BY <1>2, <1>0, SMT DEF submit_batch_job, SubmissionOK, Jobs
      <3> QED  BY <3>1, <1>0, SMT DEF SubmissionOK, JobType
    <2>2. /\ UNCHANGED <<terminate, completed, epilog>>
          /\ job_state' \in {job_state, [job_state EXCEPT ![j] = "PENDING"]}
        BY <1>2 DEF submit_batch_job
    <2> QED  BY <2>1, <2>2, <1>0, SMT DEF EpilogDue, JobType
  <1>3. ASSUME NEW j \in Jobs, epilog_complete(j) PROVE EpilogDue'
    <2>1. /\ UNCHANGED <<terminate, completed>> /\ epilog[j] = "arrived"
          /\ epilog' = [epilog EXCEPT ![j] = "queue"]
          /\ job_state' = [job_state EXCEPT ![j] = "DONE"]
        BY <1>3 DEF epilog_complete
    <2> QED  BY <2>1, <1>0 DEF EpilogDue, JobType
  <1>4. ASSUME NEW j \in Jobs, EpilogQueuesScheduler(j) PROVE EpilogDue'
    <2>1. /\ UNCHANGED <<job_state, terminate, completed>> /\ epilog[j] = "queue"
          /\ epilog' = [epilog EXCEPT ![j] = "reply"]
        BY <1>4 DEF EpilogQueuesScheduler
    <2> QED  BY <2>1, <1>0 DEF EpilogDue, JobType
  <1>5. ASSUME NEW j \in Jobs, EpilogReplies(j) PROVE EpilogDue'
    <2>1. /\ UNCHANGED <<job_state, completed>> /\ epilog[j] = "reply"
          /\ epilog' = [epilog EXCEPT ![j] = "count"]
          /\ terminate' = [terminate EXCEPT ![j] = IF terminate[j] = "epilog" THEN "replied" ELSE terminate[j]]
        BY <1>5 DEF EpilogReplies
    <2>2. job_state[j] = "DONE"  BY <2>1, <1>0 DEF EpilogsOK
    <2>3. CASE terminate[j] = "epilog"
      <3>1. terminate' = [terminate EXCEPT ![j] = "replied"]  BY <2>1, <2>3
      <3> QED  BY <2>1, <2>2, <3>1, <1>0, SMT DEF EpilogDue, JobType
    <2>4. CASE terminate[j] # "epilog"
      <3>1. terminate' = terminate  BY <2>1, <2>4, <1>0 DEF JobType
      <3> QED  BY <2>1, <2>2, <2>4, <3>1, <1>0, SMT DEF EpilogDue, JobType
    <2> QED  BY <2>3, <2>4
  <1>6. ASSUME NEW j \in Jobs, EpilogCounts(j) \/ EpilogReadsTotal(j) \/ EpilogWritesTotal(j)
        PROVE  EpilogDue'
    <2>1. /\ UNCHANGED <<job_state, terminate, completed>>
          /\ epilog[j] \in {"count", "read", "write"}
          /\ \E new : epilog' = [epilog EXCEPT ![j] = new]
        BY <1>6 DEF EpilogCounts, EpilogReadsTotal, EpilogWritesTotal
    <2>2. PICK new : epilog' = [epilog EXCEPT ![j] = new]  BY <2>1
    <2>3. terminate[j] # "epilog" /\ job_state[j] # "COMPLETING"
        BY <2>1, <1>0 DEF EpilogDue, EpilogsOK
    <2> QED  BY <2>1, <2>2, <2>3, <1>0 DEF EpilogDue, JobType
  <1>7. ASSUME NEW j \in Jobs, simulator_rpc_terminate_job(j) PROVE EpilogDue'
    <2>1. /\ terminate[j] = "queued" /\ UNCHANGED job_state /\ completed' = completed \ {j}
        BY <1>7 DEF simulator_rpc_terminate_job
    <2>2. job_state[j] = "COMPLETING"  BY <2>1, <1>0 DEF EpilogsOK
    <2>3. j \in completed  BY <2>1, <2>2 DEF EpilogDue
    <2>4. /\ terminate' = [terminate EXCEPT ![j] = "epilog"]
          /\ epilog' = [epilog EXCEPT ![j] = "arrived"]
        BY <1>7, <2>3 DEF simulator_rpc_terminate_job
    <2> QED  BY <2>1, <2>2, <2>4, <1>0 DEF EpilogDue, JobType
  <1>8. ASSUME NEW j \in Jobs, TerminateFinishes(j) PROVE EpilogDue'
    <2>1. /\ terminate[j] = "replied" /\ terminate' = [terminate EXCEPT ![j] = "none"]
          /\ UNCHANGED <<job_state, completed, epilog>>
        BY <1>8 DEF TerminateFinishes
    <2> QED  BY <2>1, <1>0 DEF EpilogDue, JobType
  <1>9. ASSUME NEW j \in Jobs, rpc_timelimit(j) PROVE EpilogDue'
    <2>1. terminate[j] = "killed"  BY <1>9 DEF rpc_timelimit
    <2> QED  BY <2>1 DEF EpilogDue
  <1>10. ASSUME NEW j \in Jobs, CalmStarts(j) PROVE EpilogDue'
    <2>1. /\ job_state[j] = "PENDING" /\ job_state' = [job_state EXCEPT ![j] = "RUNNING"]
          /\ UNCHANGED <<terminate, completed, epilog>>
        BY <1>10 DEF CalmStarts, StartJob, Startable
    <2> QED  BY <2>1, <1>0 DEF EpilogDue, JobType
  <1>11. CASE job_complete(0)
    <2> DEFINE j == complete_job[0]
    <2>1. complete[0] = "lock" /\ UNCHANGED <<completed, epilog>>  BY <1>11 DEF job_complete
    <2>2. j \in Jobs /\ job_state[j] = "RUNNING" /\ j \in completed
        BY <2>1, <1>0 DEF FlowOK, Reported
    <2>3. /\ job_state' = [job_state EXCEPT ![j] = "COMPLETING"]
          /\ terminate' = [terminate EXCEPT ![j] = "queued"]
        BY <1>11, <2>2 DEF job_complete
    <2> HIDE DEF j
    <2> QED  BY <2>1, <2>2, <2>3, <1>0, SMT DEF EpilogDue, JobType
  <1>12. CASE UNCHANGED <<job_state, terminate, completed, epilog>>
      BY <1>12 DEF EpilogDue
  <1> QED  BY <1>1, <1>2, <1>3, <1>4, <1>5, <1>6, <1>7, <1>8, <1>9, <1>10, <1>11, <1>12,
         <1>EpilogDueWriters

\* The jobs whose terminate thread is still to count its epilog down.
Ending == {j \in Jobs : job_state[j] = "COMPLETING" \/ terminate[j] \in {"epilog", "replied"}}

\* waiting_epilog_msgs is the number of these jobs, except that the helper
\* counts a job only when it gets the reply: it may be -1 before.  None is
\* left when the helper asks for the cycle.
EndingOK ==
  /\ waiting_epilog_msgs + One(complete[0] = "reply") = Cardinality(Ending)
  /\ helper \in {"sleep", "cycle"} \/ (helper = "scan" /\ jobs_ended = 0) => Ending = {}

\* A job that is not running to its end any more is in none of these sets.
LEMMA RunningNotEnding ==
  ASSUME Safe, EpilogDue, NEW j \in Jobs, job_state[j] \in {"none", "PENDING", "RUNNING"}
  PROVE  /\ terminate[j] \notin {"queued", "epilog", "replied"}
         /\ epilog[j] = "none"
  <1>1. EpilogsOK /\ JobType  BY SafeParts
  <1>2. epilog[j] = "none"  BY <1>1 DEF EpilogsOK, JobType
  <1> QED  BY <1>1, <1>2 DEF EpilogDue, EpilogsOK

\* The helper and the terminate threads count the same jobs.
LEMMA EndingStep ==
  ASSUME Safe, timeouts = 0, FlowOK, EpilogDue, EndingOK, CalmStep
  PROVE  EndingOK'
  \* Who ends jobs, awaits their epilogs and asks for the cycle.
  <1>EndingWriters. \/ UNCHANGED <<waiting_epilog_msgs, complete, job_state, terminate, helper,
                       jobs_ended>>
                    \/ WaitSlurmSem \/ EndJob \/ NoJobEnded \/ AllJobsEnded \/ EpilogsFinished
                    \/ \E j \in Jobs : submit_batch_job(j) \/ epilog_complete(j) \/
                         EpilogReplies(j) \/ simulator_rpc_terminate_job(j) \/
                         TerminateFinishes(j) \/ rpc_timelimit(j) \/ CalmStarts(j)
                    \/ complete_batch_script(0) \/ job_complete(0) \/ CompleteReplies(0) \/
                       CycleReplies(0)
    <2> USE DEF mgr_vars, sem_vars, helper_vars, slurmd_vars, job_vars, count_vars,
             sched_vars, bf_vars, rpc_vars, slot_vars, complete_vars, cycle_vars,
             run_vars
    <2>1. ASSUME LoopTop \/ generateJob \/ rpc_sim_job \/ rpc_sim_job_uninitialised \/
                 PostSlurmSem \/ WaitSimSem \/ terminate_simulation \/ AgentWakes \/
                 AgentExits \/ BackfillWakes \/ BackfillLocks \/ BackfillReturns \/
                 CheckAllFinished \/ Stopped
          PROVE  UNCHANGED <<waiting_epilog_msgs, complete, job_state, terminate,
                 helper, jobs_ended>>
        BY <2>1 DEF LoopTop, generateJob, rpc_sim_job, rpc_sim_job_uninitialised,
           PostSlurmSem, WaitSimSem, terminate_simulation, AgentWakes, At, Moves,
           AgentExits, BackfillWakes, BackfillLocks, BackfillReturns, CheckAllFinished,
           Stopped, vars
    <2>2. ASSUME NEW j \in Jobs, SubmitQueuesScheduler(j) \/ EpilogQueuesScheduler(j) \/
                 EpilogCounts(j) \/ EpilogReadsTotal(j) \/ EpilogWritesTotal(j) \/
                 simulator_rpc_batch_job(j) \/ AddEvent(j)
          PROVE  UNCHANGED <<waiting_epilog_msgs, complete, job_state, terminate,
                 helper, jobs_ended>>
        BY <2>2 DEF SubmitQueuesScheduler, EpilogQueuesScheduler, EpilogCounts,
           EpilogReadsTotal, EpilogWritesTotal, simulator_rpc_batch_job, AddEvent
    <2>3. ASSUME CompletedJobsArrived(0) \/ EpilogsArrived(0) \/ get_scheduler_cnt(0) \/
                 reset_scheduler_cnt(0) \/ do_backfill(0) \/ BackfillWaited(0)
          PROVE  UNCHANGED <<waiting_epilog_msgs, complete, job_state, terminate,
                 helper, jobs_ended>>
        BY <2>3 DEF CompletedJobsArrived, At, Moves, EpilogsArrived,
           get_scheduler_cnt, reset_scheduler_cnt, do_backfill, BackfillWaited
    <2>4. ASSUME NEW t \in Callers, ScheduleChecks(t) \/ ScheduleBegins(t) \/
                 ScheduleDefers(t) \/ schedule(t) \/ ScheduleReturns(t) \/
                 ScheduleEnds(t)
          PROVE  UNCHANGED <<waiting_epilog_msgs, complete, job_state, terminate,
                 helper, jobs_ended>>
        BY <2>4 DEF ScheduleChecks, At, Moves, ScheduleBegins, NewJobLimit,
           ScheduleDefers, After, schedule, ScheduleReturns, ScheduleEnds
    <2> QED  BY <2>1, <2>2, <2>3, <2>4 DEF CalmStep
  \* A step that leaves the set and the count as they are.
  <1>EndingKept. ASSUME Ending' = Ending,
                        (waiting_epilog_msgs + One(complete[0] = "reply"))' = waiting_epilog_msgs + One(complete[0] = "reply"),
                        (helper \in {"sleep", "cycle"} \/ (helper = "scan" /\ jobs_ended = 0))' => Ending = {}
                 PROVE  EndingOK'
    <2> USE <1>EndingKept
    <2>1. Cardinality(Ending)' = Cardinality(Ending)  OBVIOUS
    <2> QED  BY <2>1 DEF EndingOK
  <1> USE DEF mgr_vars, sem_vars, helper_vars, slurmd_vars, job_vars, count_vars,
           sched_vars, bf_vars, rpc_vars, slot_vars, complete_vars, cycle_vars,
           run_vars
  <1>0. /\ JobType /\ SlotType /\ HelperType /\ SubmissionOK /\ EpilogsOK
        /\ complete[0] # "none" => complete_job[0] \in Jobs
        /\ complete[0] # "none" <=> helper = "complete"
        /\ 0 \in Slots
      BY SafeParts, FirstSlot, CallerFacts
  <1>f. /\ IsFiniteSet(Ending) /\ Cardinality(Ending) \in Nat
        /\ Cardinality(Ending) = 0 => Ending = {}
    <2>1. Ending \in SUBSET Jobs  BY DEF Ending
    <2>2. IsFiniteSet(Ending) /\ Cardinality(Ending) \in Nat  BY <2>1, FiniteJobs
    <2> QED  BY <2>2, FS_EmptySet
  <1>1. CASE WaitSlurmSem
    <2>1. /\ helper = "sleep" /\ helper' = "scan"
          /\ UNCHANGED <<waiting_epilog_msgs, complete, job_state, terminate>>
        BY <1>1 DEF WaitSlurmSem
    <2>2. Ending' = Ending /\ Ending = {}  BY <2>1 DEF Ending, EndingOK
    <2> QED  BY <2>1, <2>2, <1>EndingKept
  <1>2. CASE EndJob
    <2>1. /\ helper = "scan" /\ helper' = "complete"
          /\ complete' = [complete EXCEPT ![0] = "arrived"]
          /\ UNCHANGED <<waiting_epilog_msgs, job_state, terminate>>
        BY <1>2 DEF EndJob
    <2>2. Ending' = Ending  BY <2>1 DEF Ending
    <2>3. complete[0] = "none" /\ complete'[0] = "arrived"  BY <2>1, <1>0 DEF SlotType
    <2> QED  BY <2>1, <2>2, <2>3, <1>EndingKept DEF One
  <1>3. CASE NoJobEnded
    <2>1. /\ helper = "scan" /\ jobs_ended = 0
          /\ UNCHANGED <<waiting_epilog_msgs, complete, job_state, terminate>>
        BY <1>3 DEF NoJobEnded, SendCycle
    <2>2. Ending' = Ending /\ Ending = {}  BY <2>1 DEF Ending, EndingOK
    <2> QED  BY <2>1, <2>2, <1>EndingKept
  <1>4. CASE AllJobsEnded
    <2>1. /\ helper' = "epilogs"
          /\ UNCHANGED <<waiting_epilog_msgs, complete, job_state, terminate>>
        BY <1>4 DEF AllJobsEnded
    <2>2. Ending' = Ending  BY <2>1 DEF Ending
    <2> QED  BY <2>1, <2>2, <1>EndingKept
  <1>5. CASE EpilogsFinished
    <2>1. /\ helper = "epilogs" /\ waiting_epilog_msgs = 0
          /\ UNCHANGED <<waiting_epilog_msgs, complete, job_state, terminate>>
        BY <1>5 DEF EpilogsFinished, SendCycle
    <2>2. Ending' = Ending  BY <2>1 DEF Ending
    <2>3. complete[0] = "none"  BY <2>1, <1>0
    <2>4. Cardinality(Ending) = 0  BY <2>1, <2>3, SMT DEF EndingOK, One
    <2> QED  BY <2>1, <2>2, <2>4, <1>f, <1>EndingKept
  <1>6. ASSUME NEW j \in Jobs, submit_batch_job(j) PROVE EndingOK'
    <2>1. job_state[j] = "none"
      <3>1. j = trace_head /\ mgr = "submitting" /\ j \in Int
          BY <1>6, <1>0, SMT DEF submit_batch_job, SubmissionOK, Jobs
      <3> QED  BY <3>1, <1>0, SMT DEF SubmissionOK, JobType
    <2>2. /\ UNCHANGED <<waiting_epilog_msgs, complete, terminate, helper, jobs_ended>>
          /\ job_state' \in {job_state, [job_state EXCEPT ![j] = "PENDING"]}
        BY <1>6 DEF submit_batch_job
    <2>3. Ending' = Ending  BY <2>1, <2>2, <1>0 DEF Ending, JobType
    <2> QED  BY <2>2, <2>3, <1>EndingKept DEF EndingOK
  <1>7. ASSUME NEW j \in Jobs, epilog_complete(j) PROVE EndingOK'
    <2>1. /\ UNCHANGED <<waiting_epilog_msgs, complete, terminate, helper, jobs_ended>>
          /\ epilog[j] = "arrived"
          /\ job_state' = [job_state EXCEPT ![j] = "DONE"]
        BY <1>7 DEF epilog_complete
    <2>2. job_state[j] = "COMPLETING" /\ terminate[j] = "epilog"
        BY <2>1, <1>0 DEF EpilogsOK, EpilogDue
    <2>3. Ending' = Ending  BY <2>1, <2>2, <1>0 DEF Ending, JobType
    <2> QED  BY <2>1, <2>3, <1>EndingKept DEF EndingOK
  <1>8. ASSUME NEW j \in Jobs, EpilogReplies(j) PROVE EndingOK'
    <2>1. /\ UNCHANGED <<waiting_epilog_msgs, complete, job_state, helper, jobs_ended>>
          /\ terminate' = [terminate EXCEPT ![j] = IF terminate[j] = "epilog" THEN "replied" ELSE terminate[j]]
        BY <1>8 DEF EpilogReplies
    <2>2. /\ \A i \in Jobs : i # j => terminate'[i] = terminate[i]
          /\ terminate'[j] \in {"epilog", "replied"} <=> terminate[j] \in {"epilog", "replied"}
        BY <2>1, <1>0 DEF JobType
    <2>3. Ending' = Ending  BY <2>1, <2>2 DEF Ending
    <2> QED  BY <2>1, <2>3, <1>EndingKept DEF EndingOK
  <1>9. ASSUME NEW j \in Jobs, simulator_rpc_terminate_job(j) PROVE EndingOK'
    <2>1. /\ terminate[j] = "queued"
          /\ UNCHANGED <<waiting_epilog_msgs, complete, job_state, helper, jobs_ended>>
          /\ \A i \in Jobs : i # j => terminate'[i] = terminate[i]
        BY <1>9, <1>0 DEF simulator_rpc_terminate_job, JobType
    <2>2. job_state[j] = "COMPLETING"  BY <2>1, <1>0 DEF EpilogsOK
    <2>3. Ending' = Ending  BY <2>1, <2>2 DEF Ending
    <2> QED  BY <2>1, <2>3, <1>EndingKept DEF EndingOK
  <1>10. ASSUME NEW j \in Jobs, TerminateFinishes(j) PROVE EndingOK'
    <2>1. /\ terminate[j] = "replied" /\ terminate' = [terminate EXCEPT ![j] = "none"]
          /\ waiting_epilog_msgs' = waiting_epilog_msgs - 1
          /\ UNCHANGED <<complete, job_state, helper, jobs_ended>>
        BY <1>10 DEF TerminateFinishes
    <2>2. j \in Ending /\ job_state[j] = "DONE"  BY <2>1 DEF Ending, EpilogDue
    <2>3. Ending' = Ending \ {j}  BY <2>1, <2>2, <1>0 DEF Ending, JobType
    <2>4. Cardinality(Ending)' = Cardinality(Ending) - 1
        BY <2>2, <2>3, <1>f, FS_RemoveElement
    <2> QED  BY <2>1, <2>2, <2>4, <1>f, <1>0, SMT DEF EndingOK, One, HelperType
  <1>11. ASSUME NEW j \in Jobs, rpc_timelimit(j) PROVE EndingOK'
    <2>1. terminate[j] = "killed"  BY <1>11 DEF rpc_timelimit
    <2> QED  BY <2>1 DEF EpilogDue
  <1>12. ASSUME NEW j \in Jobs, CalmStarts(j) PROVE EndingOK'
    <2>1. /\ job_state[j] = "PENDING" /\ job_state' = [job_state EXCEPT ![j] = "RUNNING"]
          /\ UNCHANGED <<waiting_epilog_msgs, complete, terminate, helper, jobs_ended>>
        BY <1>12 DEF CalmStarts, StartJob, Startable
    <2>2. Ending' = Ending  BY <2>1, <1>0 DEF Ending, JobType
    <2> QED  BY <2>1, <2>2, <1>EndingKept DEF EndingOK
  <1>13. CASE complete_batch_script(0)
    <2>1. /\ complete[0] = "arrived" /\ complete' = [complete EXCEPT ![0] = "lock"]
          /\ UNCHANGED <<waiting_epilog_msgs, job_state, terminate, helper, jobs_ended>>
        BY <1>13 DEF complete_batch_script
    <2>2. Ending' = Ending  BY <2>1 DEF Ending
    <2>3. complete'[0] = "lock"  BY <2>1, <1>0 DEF SlotType
    <2> QED  BY <2>1, <2>2, <2>3, <1>EndingKept DEF EndingOK, One
  <1>14. CASE job_complete(0)
    <2> DEFINE j == complete_job[0]
    <2>1. /\ complete[0] = "lock" /\ complete' = [complete EXCEPT ![0] = "reply"]
          /\ UNCHANGED <<waiting_epilog_msgs, helper, jobs_ended>>
        BY <1>14 DEF job_complete
    <2>2. j \in Jobs /\ job_state[j] = "RUNNING"  BY <2>1, <1>0 DEF FlowOK, Reported
    <2>3. /\ job_state' = [job_state EXCEPT ![j] = "COMPLETING"]
          /\ terminate' = [terminate EXCEPT ![j] = "queued"]
        BY <1>14, <2>2 DEF job_complete
    <2> HIDE DEF j
    <2>4. j \notin Ending  BY <2>2, RunningNotEnding DEF Ending
    <2>5. Ending' = Ending \cup {j}  BY <2>2, <2>3, <1>0 DEF Ending, JobType
    <2>6. Cardinality(Ending)' = Cardinality(Ending) + 1
        BY <2>4, <2>5, <1>f, FS_AddElement
    <2>7. complete'[0] = "reply" /\ helper' = "complete"  BY <2>1, <1>0 DEF SlotType
    <2> QED  BY <2>1, <2>6, <2>7, <1>0, <1>f, SMT DEF EndingOK, One, HelperType
  <1>15. CASE CompleteReplies(0)
    <2>1. /\ complete[0] = "reply" /\ complete' = [complete EXCEPT ![0] = "none"]
          /\ waiting_epilog_msgs' = waiting_epilog_msgs + 1 /\ jobs_ended' = jobs_ended + 1
          /\ helper' = "scan" /\ UNCHANGED <<job_state, terminate>>
        BY <1>15 DEF CompleteReplies
    <2>2. Ending' = Ending  BY <2>1 DEF Ending
    <2>3. complete'[0] = "none"  BY <2>1, <1>0 DEF SlotType
    <2> QED  BY <2>1, <2>2, <2>3, <1>0, <1>EndingKept, SMT DEF One, HelperType
  <1>16. CASE CycleReplies(0)
    <2>1. /\ cycle[0] = "reply" /\ UNCHANGED <<waiting_epilog_msgs, complete, job_state, terminate>>
        BY <1>16 DEF CycleReplies
    <2>2. helper = "cycle"  BY <2>1, FirstSlot
    <2>3. Ending' = Ending /\ Ending = {}  BY <2>1, <2>2 DEF Ending, EndingOK
    <2> QED  BY <2>1, <2>3, <1>EndingKept
  <1>17. CASE UNCHANGED <<waiting_epilog_msgs, complete, job_state, terminate, helper, jobs_ended>>
    <2>1. Ending' = Ending  BY <1>17 DEF Ending
    <2> QED  BY <1>17, <2>1, <1>EndingKept DEF EndingOK
  <1> QED  BY <1>1, <1>2, <1>3, <1>4, <1>5, <1>6, <1>7, <1>8, <1>9, <1>10, <1>11, <1>12,
         <1>13, <1>14, <1>15, <1>16, <1>17, <1>EndingWriters

-----------------------------------------------------------------------------
(* The counters of the cycle                                               *)

\* The ended jobs whose epilog is not in arrived_jobs_epilogs yet.
Uncounted == {j \in Jobs : job_state[j] = "COMPLETING" \/ epilog[j] \in {"queue", "reply", "count"}}

\* The helper is busy with the jobs that end in this second.
Reporting == helper \in {"scan", "complete", "epilogs"}

\* Until the cycle handler has seen them, the counters are those of the jobs
\* the helper has reported so far; then they are zero.
CountedOK ==
  /\ total_finished_jobs =
       IF Reporting \/ cycle[0] = "finished"
       THEN jobs_ended + One(complete[0] \in {"lock", "reply"}) ELSE 0
  /\ arrived_jobs_epilogs + Cardinality(Uncounted) =
       IF Reporting \/ cycle[0] \in {"finished", "epilogs"}
       THEN jobs_ended + One(complete[0] = "reply") ELSE 0
  /\ cycle[0] \in {"finished", "epilogs"} => total_jobs_ended[0] = jobs_ended

\* The handlers wait for exactly the jobs and epilogs that were reported.
LEMMA CountedStep ==
  ASSUME Safe, timeouts = 0, FlowOK, EpilogDue, CountedOK, CalmStep
  PROVE  CountedOK'
  \* The scheduler and the rest of the cycle handler leave the counters alone.
  <1>LateCycle. ASSUME SlotType,
                       \/ AgentWakes \/ AgentExits
                       \/ get_scheduler_cnt(0) \/ reset_scheduler_cnt(0) \/ do_backfill(0) \/ BackfillWaited(0)
                       \/ \E t \in Callers : ScheduleChecks(t) \/ ScheduleBegins(t) \/ ScheduleDefers(t)
                                             \/ schedule(t) \/ ScheduleReturns(t) \/ ScheduleEnds(t)
                PROVE  /\ UNCHANGED <<job_state, epilog, total_finished_jobs, arrived_jobs_epilogs, jobs_ended,
                                      complete, total_jobs_ended, helper>>
                       /\ \/ cycle'[0] = cycle[0]
                          \/ cycle[0] \notin {"finished", "epilogs"} /\ cycle'[0] \notin {"finished", "epilogs"}
    <2> USE <1>LateCycle
    <2> USE DEF mgr_vars, sem_vars, helper_vars, slurmd_vars, job_vars, count_vars,
             sched_vars, bf_vars, rpc_vars, slot_vars, complete_vars, cycle_vars,
             run_vars
    <2> DEFINE U == UNCHANGED <<job_state, epilog, total_finished_jobs, arrived_jobs_epilogs, jobs_ended,
                          complete, total_jobs_ended, helper>>
               C == \/ cycle'[0] = cycle[0]
                    \/ cycle[0] \notin {"finished", "epilogs"} /\ cycle'[0] \notin {"finished", "epilogs"}
               Step(t, from, to) == cycle[t] = from /\ cycle' = [cycle EXCEPT ![t] = to]
    <2>1. ASSUME NEW t \in Callers, NEW from, NEW to, Step(t, from, to),
                 from \notin {"finished", "epilogs"}, to \notin {"finished", "epilogs"}
          PROVE  C
      <3>1. CASE t = 0  BY <2>1, <3>1, CallerFacts DEF SlotType
      <3>2. CASE t # 0  BY <2>1, <3>2, CallerFacts DEF SlotType
      <3> QED  BY <3>1, <3>2
    <2> HIDE DEF C
    <2>2. CASE AgentWakes
      <3>1. U /\ Step(Agent, "wait", "call")  BY <2>2 DEF AgentWakes, At, Moves
      <3> QED  BY <3>1, <2>1, CallerFacts, SMT DEF C
    <2>3. CASE AgentExits
      <3>1. U /\ Step(Agent, "clear", "none")  BY <2>3 DEF AgentExits, At, Moves
      <3> QED  BY <3>1, <2>1, CallerFacts, SMT DEF C
    <2>4. CASE get_scheduler_cnt(0)
      <3>1. U /\ \E to \in {"reset", "bf"} : Step(0, "sched", to)
          BY <2>4 DEF get_scheduler_cnt
      <3> QED  BY <3>1, <2>1, CallerFacts DEF C
    <2>5. CASE reset_scheduler_cnt(0)
      <3>1. U /\ Step(0, "reset", "call")  BY <2>5 DEF reset_scheduler_cnt, At, Moves
      <3> QED  BY <3>1, <2>1, CallerFacts, SMT DEF C
    <2>6. CASE do_backfill(0)
      <3>1. U /\ \E to \in {"bf_wait", "reply"} : Step(0, "bf", to)
          BY <2>6 DEF do_backfill, At, Moves
      <3> QED  BY <3>1, <2>1, CallerFacts DEF C
    <2>7. CASE BackfillWaited(0)
      <3>1. U /\ Step(0, "bf_wait", "reply")  BY <2>7 DEF BackfillWaited, At, Moves
      <3> QED  BY <3>1, <2>1, CallerFacts, SMT DEF C
    <2>8. ASSUME NEW t \in Callers, ScheduleChecks(t) PROVE U /\ C
      <3>1. U /\ \E to \in {"defer", "go"} : Step(t, "call", to)
          BY <2>8 DEF ScheduleChecks, At, Moves
      <3> QED  BY <3>1, <2>1
    <2>9. ASSUME NEW t \in Callers, ScheduleBegins(t) PROVE U /\ C
      <3>1. U /\ \E to \in {"lock"} : Step(t, "go", to)
          BY <2>9 DEF ScheduleBegins, Moves
      <3> QED  BY <3>1, <2>1
    <2>10. ASSUME NEW t \in Callers, ScheduleDefers(t) PROVE U /\ C
      <3>1. U /\ cycle[t] = "defer"  BY <2>10 DEF ScheduleDefers
      <3>2. t # 0 => cycle'[0] = cycle[0]
          BY <2>10, CallerFacts DEF ScheduleDefers, SlotType
      <3>3. t = 0 => cycle'[0] = "bf"
          BY <2>10, CallerFacts DEF ScheduleDefers, SlotType, After
      <3> QED  BY <3>1, <3>2, <3>3 DEF C
    <2>11. ASSUME NEW t \in Callers, schedule(t) PROVE U /\ C
      <3>1. U /\ \E to \in {"schedule", "fini"} : Step(t, "lock", to)
          BY <2>11 DEF schedule, At, Moves
      <3> QED  BY <3>1, <2>1
    <2>12. ASSUME NEW t \in Callers, ScheduleReturns(t) PROVE U /\ C
      <3>1. U /\ \E to \in {"fini"} : Step(t, "schedule", to)
          BY <2>12 DEF ScheduleReturns, At, Moves
      <3> QED  BY <3>1, <2>1
    <2>13. ASSUME NEW t \in Callers, ScheduleEnds(t) PROVE U /\ C
      <3>1. U /\ \E to \in {"clear", "bf"} : Step(t, "fini", to)
          BY <2>13 DEF ScheduleEnds, Moves, After
      <3> QED  BY <3>1, <2>1
    <2> QED  BY <2>2, <2>3, <2>4, <2>5, <2>6, <2>7, <2>8, <2>9, <2>10, <2>11, <2>12, <2>13 DEF C
  \* Who counts ended jobs and epilogs.
  <1>CountedWriters. \/ UNCHANGED <<job_state, epilog, complete, helper, jobs_ended,
                        total_finished_jobs, arrived_jobs_epilogs, cycle, total_jobs_ended>>
                     \/ WaitSlurmSem \/ EndJob \/ NoJobEnded \/ AllJobsEnded \/ EpilogsFinished \/
                        AgentWakes \/ AgentExits
                     \/ \E j \in Jobs : submit_batch_job(j) \/ epilog_complete(j) \/
                          EpilogQueuesScheduler(j) \/ EpilogReplies(j) \/ EpilogCounts(j) \/
                          EpilogReadsTotal(j) \/ EpilogWritesTotal(j) \/
                          simulator_rpc_terminate_job(j) \/ rpc_timelimit(j) \/ CalmStarts(j)
                     \/ complete_batch_script(0) \/ job_complete(0) \/ CompleteReplies(0) \/
                        CompletedJobsArrived(0) \/ EpilogsArrived(0) \/ get_scheduler_cnt(0) \/
                        reset_scheduler_cnt(0) \/ do_backfill(0) \/ BackfillWaited(0) \/
                        CycleReplies(0)
                     \/ \E t \in Callers : ScheduleChecks(t) \/ ScheduleBegins(t) \/
                          ScheduleDefers(t) \/ schedule(t) \/ ScheduleReturns(t) \/
                          ScheduleEnds(t)
    <2> USE DEF mgr_vars, sem_vars, helper_vars, slurmd_vars, job_vars, count_vars,
             sched_vars, bf_vars, rpc_vars, slot_vars, complete_vars, cycle_vars,
             run_vars
    <2>1. ASSUME LoopTop \/ generateJob \/ rpc_sim_job \/ rpc_sim_job_uninitialised \/
                 PostSlurmSem \/ WaitSimSem \/ terminate_simulation \/ BackfillWakes \/
                 BackfillLocks \/ BackfillReturns \/ CheckAllFinished \/ Stopped
          PROVE  UNCHANGED <<job_state, epilog, complete, helper, jobs_ended,
                 total_finished_jobs, arrived_jobs_epilogs, cycle, total_jobs_ended>>
        BY <2>1 DEF LoopTop, generateJob, rpc_sim_job, rpc_sim_job_uninitialised,
           PostSlurmSem, WaitSimSem, terminate_simulation, BackfillWakes, BackfillLocks,
           BackfillReturns, CheckAllFinished, Stopped, vars
    <2>2. ASSUME NEW j \in Jobs, SubmitQueuesScheduler(j) \/ TerminateFinishes(j) \/
                 simulator_rpc_batch_job(j) \/ AddEvent(j)
          PROVE  UNCHANGED <<job_state, epilog, complete, helper, jobs_ended,
                 total_finished_jobs, arrived_jobs_epilogs, cycle, total_jobs_ended>>
        BY <2>2 DEF SubmitQueuesScheduler, TerminateFinishes,
           simulator_rpc_batch_job, AddEvent
    <2> QED  BY <2>1, <2>2 DEF CalmStep
  \* A step of neither the helper, the counters nor the first part of a cycle.
  <1>CountedKept. ASSUME Uncounted' = Uncounted,
                         UNCHANGED <<total_finished_jobs, arrived_jobs_epilogs, jobs_ended, complete,
                                     total_jobs_ended, helper>>,
                         \/ cycle'[0] = cycle[0]
                         \/ cycle[0] \notin {"finished", "epilogs"} /\ cycle'[0] \notin {"finished", "epilogs"}
                  PROVE  CountedOK'
    <2> USE <1>CountedKept
    <2>1. Cardinality(Uncounted)' = Cardinality(Uncounted)  OBVIOUS
    <2> QED  BY <2>1 DEF CountedOK, Reporting, One
  <1> USE DEF mgr_vars, sem_vars, helper_vars, slurmd_vars, job_vars, count_vars,
           sched_vars, bf_vars, rpc_vars, slot_vars, complete_vars, cycle_vars,
           run_vars
  <1>0. /\ JobType /\ SlotType /\ HelperType /\ CounterType /\ SubmissionOK /\ EpilogsOK
        /\ complete[0] # "none" => complete_job[0] \in Jobs
        /\ complete[0] # "none" <=> helper = "complete"
        /\ cycle[0] # "none" <=> helper = "cycle"
        /\ 0 \in Slots /\ 0 \in Callers
      BY SafeParts, FirstSlot, CallerFacts
  <1>f. /\ IsFiniteSet(Uncounted) /\ Cardinality(Uncounted) \in Nat
        /\ Cardinality(Uncounted) = 0 => Uncounted = {}
    <2>1. Uncounted \in SUBSET Jobs  BY DEF Uncounted
    <2>2. IsFiniteSet(Uncounted) /\ Cardinality(Uncounted) \in Nat  BY <2>1, FiniteJobs
    <2> QED  BY <2>2, FS_EmptySet
  <1>u. UNCHANGED <<job_state, epilog>> =>
          Uncounted' = Uncounted /\ Cardinality(Uncounted)' = Cardinality(Uncounted)
      BY DEF Uncounted
  <1>1. CASE WaitSlurmSem
    <2>1. /\ helper = "sleep" /\ helper' = "scan" /\ jobs_ended' = 0
          /\ UNCHANGED <<job_state, epilog, complete, cycle, total_jobs_ended,
                         total_finished_jobs, arrived_jobs_epilogs>>
        BY <1>1 DEF WaitSlurmSem
    <2>2. cycle[0] = "none" /\ complete[0] = "none"  BY <2>1, <1>0
    <2> QED  BY <2>1, <2>2, <1>u, SMT DEF CountedOK, Reporting, One
  <1>2. CASE EndJob
    <2>1. /\ helper = "scan" /\ helper' = "complete"
          /\ complete' = [complete EXCEPT ![0] = "arrived"]
          /\ UNCHANGED <<job_state, epilog, jobs_ended, cycle, total_jobs_ended,
                         total_finished_jobs, arrived_jobs_epilogs>>
        BY <1>2 DEF EndJob
    <2>2. complete[0] = "none" /\ complete'[0] = "arrived"  BY <2>1, <1>0 DEF SlotType
    <2> QED  BY <2>1, <2>2, <1>u DEF CountedOK, Reporting, One
  <1>3. CASE NoJobEnded \/ EpilogsFinished
    <2>1. /\ helper \in {"scan", "epilogs"} /\ helper' = "cycle"
          /\ cycle' = [cycle EXCEPT ![0] = "finished"]
          /\ total_jobs_ended' = [total_jobs_ended EXCEPT ![0] = jobs_ended]
          /\ UNCHANGED <<job_state, epilog, complete, jobs_ended,
                         total_finished_jobs, arrived_jobs_epilogs>>
        BY <1>3 DEF NoJobEnded, EpilogsFinished, SendCycle
    <2>2. cycle'[0] = "finished" /\ total_jobs_ended'[0] = jobs_ended
        BY <2>1, <1>0 DEF SlotType
    <2> QED  BY <2>1, <2>2, <1>u DEF CountedOK, Reporting
  <1>4. CASE AllJobsEnded
    <2>1. /\ helper = "scan" /\ helper' = "epilogs"
          /\ UNCHANGED <<job_state, epilog, complete, jobs_ended, cycle, total_jobs_ended,
                         total_finished_jobs, arrived_jobs_epilogs>>
        BY <1>4 DEF AllJobsEnded
    <2> QED  BY <2>1, <1>u DEF CountedOK, Reporting
  <1>5. ASSUME NEW j \in Jobs, submit_batch_job(j) PROVE CountedOK'
    <2>1. job_state[j] = "none"
      <3>1. j = trace_head /\ mgr = "submitting" /\ j \in Int
          BY <1>5, <1>0, SMT DEF submit_batch_job, SubmissionOK, Jobs
      <3> QED  BY <3>1, <1>0, SMT DEF SubmissionOK, JobType
    <2>2. /\ UNCHANGED <<epilog, complete, helper, jobs_ended, cycle, total_jobs_ended,
                         total_finished_jobs, arrived_jobs_epilogs>>
          /\ job_state' \in {job_state, [job_state EXCEPT ![j] = "PENDING"]}
        BY <1>5 DEF submit_batch_job
    <2>3. Uncounted' = Uncounted  BY <2>1, <2>2, <1>0 DEF Uncounted, JobType
    <2> QED  BY <2>2, <2>3, <1>CountedKept
  <1>6. ASSUME NEW j \in Jobs, epilog_complete(j) PROVE CountedOK'
    <2>1. /\ UNCHANGED <<complete, helper, jobs_ended, cycle, total_jobs_ended,
                         total_finished_jobs, arrived_jobs_epilogs>>
          /\ epilog[j] = "arrived" /\ epilog' = [epilog EXCEPT ![j] = "queue"]
          /\ job_state' = [job_state EXCEPT ![j] = "DONE"]
        BY <1>6 DEF epilog_complete
    <2>2. job_state[j] = "COMPLETING"  BY <2>1, <1>0 DEF EpilogsOK
    <2>3. Uncounted' = Uncounted  BY <2>1, <2>2, <1>0 DEF Uncounted, JobType
    <2> QED  BY <2>1, <2>3, <1>CountedKept
  <1>7. ASSUME NEW j \in Jobs, EpilogQueuesScheduler(j) \/ EpilogReplies(j) PROVE CountedOK'
    <2>1. /\ UNCHANGED <<job_state, complete, helper, jobs_ended, cycle, total_jobs_ended,
                         total_finished_jobs, arrived_jobs_epilogs>>
          /\ epilog[j] \in {"queue", "reply"}
          /\ \E new \in {"reply", "count"} : epilog' = [epilog EXCEPT ![j] = new]
        BY <1>7 DEF EpilogQueuesScheduler, EpilogReplies
    <2>2. Uncounted' = Uncounted  BY <2>1, <1>0 DEF Uncounted, JobType
    <2> QED  BY <2>1, <2>2, <1>CountedKept
  <1>8. ASSUME NEW j \in Jobs, EpilogCounts(j) PROVE CountedOK'
    <2>1. /\ UNCHANGED <<job_state, complete, helper, jobs_ended, cycle, total_jobs_ended,
                         total_finished_jobs>>
          /\ epilog[j] = "count" /\ epilog' = [epilog EXCEPT ![j] = "read"]
          /\ arrived_jobs_epilogs' = arrived_jobs_epilogs + 1
        BY <1>8 DEF EpilogCounts
    <2>2. job_state[j] = "DONE" /\ j \in Uncounted  BY <2>1, <1>0 DEF EpilogsOK, Uncounted
    <2>3. Uncounted' = Uncounted \ {j}  BY <2>1, <2>2, <1>0 DEF Uncounted, JobType
    <2>4. Cardinality(Uncounted)' = Cardinality(Uncounted) - 1
        BY <2>2, <2>3, <1>f, FS_RemoveElement
    <2>5. arrived_jobs_epilogs' + Cardinality(Uncounted)' = arrived_jobs_epilogs + Cardinality(Uncounted)
        BY <2>1, <2>4, <1>f, <1>0, SMT DEF CounterType
    <2> QED  BY <2>1, <2>5 DEF CountedOK, Reporting
  <1>9. ASSUME NEW j \in Jobs, EpilogReadsTotal(j) \/ EpilogWritesTotal(j) PROVE CountedOK'
    <2>1. /\ UNCHANGED <<job_state, complete, helper, jobs_ended, cycle, total_jobs_ended,
                         total_finished_jobs, arrived_jobs_epilogs>>
          /\ epilog[j] \in {"read", "write"}
          /\ \E new \in {"write", "none"} : epilog' = [epilog EXCEPT ![j] = new]
        BY <1>9 DEF EpilogReadsTotal, EpilogWritesTotal
    <2>2. Uncounted' = Uncounted  BY <2>1, <1>0 DEF Uncounted, JobType
    <2> QED  BY <2>1, <2>2, <1>CountedKept
  <1>10. ASSUME NEW j \in Jobs, simulator_rpc_terminate_job(j) PROVE CountedOK'
    <2>1. /\ UNCHANGED <<job_state, complete, helper, jobs_ended, cycle, total_jobs_ended,
                         total_finished_jobs, arrived_jobs_epilogs>>
          /\ terminate[j] = "queued"
          /\ epilog' \in {epilog, [epilog EXCEPT ![j] = "arrived"]}
        BY <1>10 DEF simulator_rpc_terminate_job
    <2>2. job_state[j] = "COMPLETING"  BY <2>1, <1>0 DEF EpilogsOK
    <2>3. Uncounted' = Uncounted  BY <2>1, <2>2, <1>0 DEF Uncounted, JobType
    <2> QED  BY <2>1, <2>3, <1>CountedKept
  <1>11. ASSUME NEW j \in Jobs, rpc_timelimit(j) PROVE CountedOK'
    <2>1. terminate[j] = "killed"  BY <1>11 DEF rpc_timelimit
    <2> QED  BY <2>1 DEF EpilogDue
  <1>12. ASSUME NEW j \in Jobs, CalmStarts(j) PROVE CountedOK'
    <2>1. /\ job_state[j] = "PENDING" /\ job_state' = [job_state EXCEPT ![j] = "RUNNING"]
          /\ UNCHANGED <<epilog, complete, helper, jobs_ended, cycle, total_jobs_ended,
                         total_finished_jobs, arrived_jobs_epilogs>>
        BY <1>12 DEF CalmStarts, StartJob, Startable
    <2>2. Uncounted' = Uncounted  BY <2>1, <1>0 DEF Uncounted, JobType
    <2> QED  BY <2>1, <2>2, <1>CountedKept
  <1>13. CASE complete_batch_script(0)
    <2>1. /\ complete[0] = "arrived" /\ complete' = [complete EXCEPT ![0] = "lock"]
          /\ total_finished_jobs' = total_finished_jobs + 1
          /\ UNCHANGED <<job_state, epilog, helper, jobs_ended, cycle, total_jobs_ended,
                         arrived_jobs_epilogs>>
        BY <1>13 DEF complete_batch_script
    <2>2. complete'[0] = "lock" /\ helper = "complete"  BY <2>1, <1>0 DEF SlotType
    <2> QED  BY <2>1, <2>2, <1>u, <1>0, SMT DEF CountedOK, Reporting, One, HelperType
  <1>14. CASE job_complete(0)
    <2> DEFINE j == complete_job[0]
    <2>1. /\ complete[0] = "lock" /\ complete' = [complete EXCEPT ![0] = "reply"]
          /\ UNCHANGED <<epilog, helper, jobs_ended, cycle, total_jobs_ended,
                         total_finished_jobs, arrived_jobs_epilogs>>
        BY <1>14 DEF job_complete
    <2>2. j \in Jobs /\ job_state[j] = "RUNNING"  BY <2>1, <1>0 DEF FlowOK, Reported
    <2>3. job_state' = [job_state EXCEPT ![j] = "COMPLETING"]
        BY <1>14, <2>2 DEF job_complete
    <2> HIDE DEF j
    <2>4. j \notin Uncounted  BY <2>2, RunningNotEnding DEF Uncounted
    <2>5. Uncounted' = Uncounted \cup {j}  BY <2>1, <2>2, <2>3, <1>0 DEF Uncounted, JobType
    <2>6. Cardinality(Uncounted)' = Cardinality(Uncounted) + 1
        BY <2>4, <2>5, <1>f, FS_AddElement
    <2>7. complete'[0] = "reply" /\ helper = "complete"  BY <2>1, <1>0 DEF SlotType
    <2> QED  BY <2>1, <2>6, <2>7, <1>0, <1>f, SMT DEF CountedOK, Reporting, One, HelperType, CounterType
  <1>15. CASE CompleteReplies(0)
    <2>1. /\ complete[0] = "reply" /\ complete' = [complete EXCEPT ![0] = "none"]
          /\ jobs_ended' = jobs_ended + 1 /\ helper' = "scan"
          /\ UNCHANGED <<job_state, epilog, cycle, total_jobs_ended,
                         total_finished_jobs, arrived_jobs_epilogs>>
        BY <1>15 DEF CompleteReplies
    <2>2. complete'[0] = "none" /\ helper = "complete" /\ cycle[0] = "none"
        BY <2>1, <1>0 DEF SlotType
    <2> QED  BY <2>1, <2>2, <1>u, <1>0, SMT DEF CountedOK, Reporting, One, HelperType
  <1>16. CASE CompletedJobsArrived(0)
    <2>1. /\ cycle[0] = "finished" /\ cycle' = [cycle EXCEPT ![0] = "epilogs"]
          /\ total_finished_jobs' = 0
          /\ UNCHANGED <<job_state, epilog, complete, helper, jobs_ended, total_jobs_ended,
                         arrived_jobs_epilogs>>
        BY <1>16 DEF CompletedJobsArrived, At, Moves
    <2>2. cycle'[0] = "epilogs" /\ helper = "cycle"  BY <2>1, <1>0 DEF SlotType
    <2> QED  BY <2>1, <2>2, <1>u DEF CountedOK, Reporting
  <1>17. CASE EpilogsArrived(0)
    <2>1. /\ cycle[0] = "epilogs" /\ cycle' = [cycle EXCEPT ![0] = "sched"]
          /\ arrived_jobs_epilogs = total_jobs_ended[0] /\ arrived_jobs_epilogs' = 0
          /\ UNCHANGED <<job_state, epilog, complete, helper, jobs_ended, total_jobs_ended,
                         total_finished_jobs>>
        BY <1>17 DEF EpilogsArrived, At, Moves
    <2>2. cycle'[0] = "sched" /\ helper = "cycle" /\ complete[0] = "none"
        BY <2>1, <1>0 DEF SlotType
    <2>3. Cardinality(Uncounted) = 0
        BY <2>1, <2>2, <1>f, <1>0, SMT DEF CountedOK, One, HelperType
    <2> QED  BY <2>1, <2>2, <2>3, <1>u, SMTT(20) DEF CountedOK, Reporting
  <1>18. CASE CycleReplies(0)
    <2>1. /\ cycle[0] = "reply" /\ cycle' = [cycle EXCEPT ![0] = "none"] /\ helper' = "sleep"
          /\ UNCHANGED <<job_state, epilog, complete, jobs_ended, total_finished_jobs, arrived_jobs_epilogs>>
        BY <1>18 DEF CycleReplies
    <2>2. cycle'[0] = "none" /\ helper = "cycle"  BY <2>1, <1>0 DEF SlotType
    <2> QED  BY <2>1, <2>2, <1>u DEF CountedOK, Reporting
  <1>19. ASSUME \/ AgentWakes \/ AgentExits
                \/ get_scheduler_cnt(0) \/ reset_scheduler_cnt(0) \/ do_backfill(0) \/ BackfillWaited(0)
                \/ \E t \in Callers : ScheduleChecks(t) \/ ScheduleBegins(t) \/ ScheduleDefers(t)
                                      \/ schedule(t) \/ ScheduleReturns(t) \/ ScheduleEnds(t)
         PROVE  CountedOK'
      BY <1>19, <1>0, <1>u, <1>LateCycle, <1>CountedKept
  <1>20. CASE UNCHANGED <<job_state, epilog, complete, helper, jobs_ended, total_finished_jobs,
                          arrived_jobs_epilogs, cycle, total_jobs_ended>>
      BY <1>20, <1>u, <1>CountedKept
  <1> QED  BY <1>1, <1>2, <1>3, <1>4, <1>5, <1>6, <1>7, <1>8, <1>9, <1>10, <1>11, <1>12,
         <1>13, <1>14, <1>15, <1>16, <1>17, <1>18, <1>19, <1>20, <1>CountedWriters

-----------------------------------------------------------------------------
(* Nothing that is due is left for the scheduler to miss                   *)

\* Every job of the trace runs for a second at least.
RunsTakeTime == \A j \in Jobs : Duration[j] > 0

\* The helper works with the time of this second.
ClockRead == helper # "sleep" => now = current_sim

\* Once the helper has found no other completion that is due, there is none
\* until the clock moves.
DueOK ==
  /\ helper \in {"epilogs", "cycle"} => \A i \in 1..Len(events) : events[i].when > current_sim
  /\ \A j \in Jobs : info[j] # 0

\* The clock stands still while the helper works.
LEMMA ClockStep ==
  ASSUME Safe, timeouts = 0, ClockRead, CalmStep
  PROVE  ClockRead'
  \* Who moves the clock and the helper.
  <1>ClockWriters. \/ UNCHANGED <<helper, now, current_sim>>
                   \/ WaitSimSem \/ WaitSlurmSem \/ EndJob \/ NoJobEnded \/ AllJobsEnded \/
                      EpilogsFinished
                   \/ CompleteReplies(0) \/ CycleReplies(0)
    <2> USE DEF mgr_vars, sem_vars, helper_vars, slurmd_vars, job_vars, count_vars,
             sched_vars, bf_vars, rpc_vars, slot_vars, complete_vars, cycle_vars,
             run_vars
    <2>1. ASSUME LoopTop \/ generateJob \/ rpc_sim_job \/ rpc_sim_job_uninitialised \/
                 PostSlurmSem \/ terminate_simulation \/ AgentWakes \/ AgentExits \/
                 BackfillWakes \/ BackfillLocks \/ BackfillReturns \/ CheckAllFinished
                 \/ Stopped
          PROVE  UNCHANGED <<helper, now, current_sim>>
        BY <2>1 DEF LoopTop, generateJob, rpc_sim_job, rpc_sim_job_uninitialised,
           PostSlurmSem, terminate_simulation, AgentWakes, At, Moves, AgentExits,
           BackfillWakes, BackfillLocks, BackfillReturns, CheckAllFinished, Stopped,
           vars
    <2>2. ASSUME NEW j \in Jobs, submit_batch_job(j) \/ SubmitQueuesScheduler(j) \/
                 epilog_complete(j) \/ EpilogQueuesScheduler(j) \/ EpilogReplies(j) \/
                 EpilogCounts(j) \/ EpilogReadsTotal(j) \/ EpilogWritesTotal(j) \/
                 simulator_rpc_terminate_job(j) \/ TerminateFinishes(j) \/
                 rpc_timelimit(j) \/ simulator_rpc_batch_job(j) \/ AddEvent(j) \/
                 CalmStarts(j)
          PROVE  UNCHANGED <<helper, now, current_sim>>
        BY <2>2 DEF submit_batch_job, SubmitQueuesScheduler, epilog_complete,
           EpilogQueuesScheduler, EpilogReplies, EpilogCounts, EpilogReadsTotal,
           EpilogWritesTotal, simulator_rpc_terminate_job, TerminateFinishes,
           rpc_timelimit, simulator_rpc_batch_job, AddEvent, CalmStarts, StartJob
    <2>3. ASSUME complete_batch_script(0) \/ job_complete(0) \/ CompletedJobsArrived(0)
                 \/ EpilogsArrived(0) \/ get_scheduler_cnt(0) \/ reset_scheduler_cnt(0)
                 \/ do_backfill(0) \/ BackfillWaited(0)
          PROVE  UNCHANGED <<helper, now, current_sim>>
        BY <2>3 DEF complete_batch_script, job_complete, CompletedJobsArrived,
           At, Moves, EpilogsArrived, get_scheduler_cnt, reset_scheduler_cnt,
           do_backfill, BackfillWaited
    <2>4. ASSUME NEW t \in Callers, ScheduleChecks(t) \/ ScheduleBegins(t) \/
                 ScheduleDefers(t) \/ schedule(t) \/ ScheduleReturns(t) \/
                 ScheduleEnds(t)
          PROVE  UNCHANGED <<helper, now, current_sim>>
        BY <2>4 DEF ScheduleChecks, At, Moves, ScheduleBegins, NewJobLimit,
           ScheduleDefers, After, schedule, ScheduleReturns, ScheduleEnds
    <2> QED  BY <2>1, <2>2, <2>3, <2>4 DEF CalmStep
  <1> USE DEF mgr_vars, sem_vars, helper_vars, slurmd_vars, job_vars, count_vars,
           sched_vars, bf_vars, rpc_vars, slot_vars, complete_vars, cycle_vars,
           run_vars
  <1>0. HelperType /\ (helper # "sleep" <=> mgr = "wait" /\ slurm_sem = 0 /\ sim_sem = 0)
      BY SafeParts, FirstSlot
  <1>1. CASE WaitSimSem
    <2>1. helper = "sleep" /\ helper' = helper
        BY <1>1, <1>0, SMT DEF WaitSimSem, HelperType
    <2> QED  BY <2>1 DEF ClockRead
  <1>2. CASE WaitSlurmSem
    <2>1. now' = current_sim /\ current_sim' = current_sim  BY <1>2 DEF WaitSlurmSem
    <2> QED  BY <2>1 DEF ClockRead
  <1>3. CASE EndJob \/ NoJobEnded \/ AllJobsEnded \/ EpilogsFinished \/ CompleteReplies(0) \/ CycleReplies(0)
    <2>1. helper # "sleep" /\ UNCHANGED <<now, current_sim>>
        BY <1>3, SafeParts, FirstSlot DEF EndJob, NoJobEnded, AllJobsEnded, EpilogsFinished, SendCycle,
           CompleteReplies, CycleReplies
    <2> QED  BY <2>1 DEF ClockRead
  <1>4. CASE UNCHANGED <<helper, now, current_sim>>  BY <1>4 DEF ClockRead
  <1> QED  BY <1>1, <1>2, <1>3, <1>4, <1>ClockWriters

\* No completion becomes due while the clock stands still.
LEMMA DueStep ==
  ASSUME Safe, timeouts = 0, ClockRead, DueOK, CalmStep, RunsTakeTime
  PROVE  DueOK'
  \* Who moves the clock, the helper and the completions.
  <1>DueWriters. \/ UNCHANGED <<helper, now, current_sim, events, info>>
                 \/ rpc_sim_job \/ rpc_sim_job_uninitialised \/ WaitSimSem \/ WaitSlurmSem \/
                    EndJob \/ NoJobEnded \/ AllJobsEnded \/ EpilogsFinished
                 \/ \E j \in Jobs : AddEvent(j)
                 \/ CompleteReplies(0) \/ CycleReplies(0)
    <2> USE DEF mgr_vars, sem_vars, helper_vars, slurmd_vars, job_vars, count_vars,
             sched_vars, bf_vars, rpc_vars, slot_vars, complete_vars, cycle_vars,
             run_vars
    <2>1. ASSUME LoopTop \/ generateJob \/ PostSlurmSem \/ terminate_simulation \/
                 AgentWakes \/ AgentExits \/ BackfillWakes \/ BackfillLocks \/
                 BackfillReturns \/ CheckAllFinished \/ Stopped
          PROVE  UNCHANGED <<helper, now, current_sim, events, info>>
        BY <2>1 DEF LoopTop, generateJob, PostSlurmSem, terminate_simulation,
           AgentWakes, At, Moves, AgentExits, BackfillWakes, BackfillLocks,
           BackfillReturns, CheckAllFinished, Stopped, vars
    <2>2. ASSUME NEW j \in Jobs, submit_batch_job(j) \/ SubmitQueuesScheduler(j) \/
                 epilog_complete(j) \/ EpilogQueuesScheduler(j) \/ EpilogReplies(j) \/
                 EpilogCounts(j) \/ EpilogReadsTotal(j) \/ EpilogWritesTotal(j) \/
                 simulator_rpc_terminate_job(j) \/ TerminateFinishes(j) \/
                 rpc_timelimit(j) \/ simulator_rpc_batch_job(j) \/ CalmStarts(j)
          PROVE  UNCHANGED <<helper, now, current_sim, events, info>>
        BY <2>2 DEF submit_batch_job, SubmitQueuesScheduler, epilog_complete,
           EpilogQueuesScheduler, EpilogReplies, EpilogCounts, EpilogReadsTotal,
           EpilogWritesTotal, simulator_rpc_terminate_job, TerminateFinishes,
           rpc_timelimit, simulator_rpc_batch_job, CalmStarts, StartJob
    <2>3. ASSUME complete_batch_script(0) \/ job_complete(0) \/ CompletedJobsArrived(0)
                 \/ EpilogsArrived(0) \/ get_scheduler_cnt(0) \/ reset_scheduler_cnt(0)
                 \/ do_backfill(0) \/ BackfillWaited(0)
          PROVE  UNCHANGED <<helper, now, current_sim, events, info>>
        BY <2>3 DEF complete_batch_script, job_complete, CompletedJobsArrived,
           At, Moves, EpilogsArrived, get_scheduler_cnt, reset_scheduler_cnt,
           do_backfill, BackfillWaited
    <2>4. ASSUME NEW t \in Callers, ScheduleChecks(t) \/ ScheduleBegins(t) \/
                 ScheduleDefers(t) \/ schedule(t) \/ ScheduleReturns(t) \/
                 ScheduleEnds(t)
          PROVE  UNCHANGED <<helper, now, current_sim, events, info>>
        BY <2>4 DEF ScheduleChecks, At, Moves, ScheduleBegins, NewJobLimit,
           ScheduleDefers, After, schedule, ScheduleReturns, ScheduleEnds
    <2> QED  BY <2>1, <2>2, <2>3, <2>4 DEF CalmStep
  \* If the first completion is not due, none is.
  <1>NoneDue. ASSUME EventType, HelperType, EventsOrdered, ~EventDue
              PROVE  \A i \in 1..Len(events) : events[i].when > now
    <2> USE <1>NoneDue
    <2>1. Len(events) \in Nat /\ now \in Nat /\ \A i \in 1..Len(events) : events[i].when \in Nat
      <3>1. Len(events) \in Nat /\ \A i \in 1..Len(events) : events[i] \in Event(Jobs)
          BY SMT DEF EventType
      <3> QED  BY <3>1 DEF Event, HelperType
    <2> SUFFICES ASSUME NEW i \in 1..Len(events) PROVE events[i].when > now
        OBVIOUS
    <2>2. events # <<>> /\ Head(events) = events[1] /\ 1 \in 1..Len(events)
        BY <2>1, SMT DEF EventType
    <2>3. ~(now >= events[1].when)  BY <2>2 DEF EventDue
    <2>4. events[1].when =< events[i].when
      <3>1. CASE i = 1  BY <3>1, <2>1, SMT
      <3>2. CASE i # 1
        <4>1. 1 < i  BY <3>2, <2>1, SMT
        <4> QED  BY <4>1, <2>2 DEF EventsOrdered, IsOrdered
      <3> QED  BY <3>1, <3>2
    <2> QED  BY <2>1, <2>2, <2>3, <2>4, SMT
  <1> USE DEF mgr_vars, sem_vars, helper_vars, slurmd_vars, job_vars, count_vars,
           sched_vars, bf_vars, rpc_vars, slot_vars, complete_vars, cycle_vars,
           run_vars
  <1>0. /\ MgrType /\ HelperType /\ JobType /\ EventType /\ SubmissionOK /\ EventsOrdered
        /\ helper # "sleep" <=> mgr = "wait" /\ slurm_sem = 0 /\ sim_sem = 0
        /\ NJobs \in Nat
      BY SafeParts, FirstSlot, LockstepAssumption DEF Safe
  <1>d. mgr \in {"sim_job", "bad_sim_job"} => trace_head \in Jobs /\ Duration[trace_head] # 0
    <2>1. mgr \in {"sim_job", "bad_sim_job"} => trace_head \in Jobs
        BY <1>0, SMT DEF MgrType, SubmissionOK, Jobs
    <2>2. Duration \in [Jobs -> Nat]  BY LockstepAssumption
    <2> QED  BY <2>1, <2>2, SMT DEF RunsTakeTime
  <1>1. CASE rpc_sim_job
    <2>1. /\ mgr = "sim_job" /\ info' = [info EXCEPT ![trace_head] = Duration[trace_head]]
          /\ UNCHANGED <<helper, now, current_sim, events>>
        BY <1>1 DEF rpc_sim_job
    <2>2. \A j \in Jobs : info'[j] # 0
        BY <2>1, <1>d, <1>0 DEF DueOK, JobType
    <2> QED  BY <2>1, <2>2 DEF DueOK
  <1>2. CASE rpc_sim_job_uninitialised
    <2>1. /\ mgr = "bad_sim_job"
          /\ info' = info \/ \E j \in Jobs : info' = [info EXCEPT ![j] = Duration[trace_head]]
          /\ UNCHANGED <<helper, now, current_sim, events>>
        BY <1>2 DEF rpc_sim_job_uninitialised
    <2>2. \A j \in Jobs : info'[j] # 0
        BY <2>1, <1>d, <1>0 DEF DueOK, JobType
    <2> QED  BY <2>1, <2>2 DEF DueOK
  <1>3. CASE WaitSimSem
    <2>1. /\ helper = "sleep" /\ UNCHANGED <<helper, info>>
        BY <1>3, <1>0, SMT DEF WaitSimSem, HelperType
    <2> QED  BY <2>1 DEF DueOK
  <1>4. CASE WaitSlurmSem
    <2>1. helper' = "scan" /\ now' = current_sim /\ UNCHANGED <<current_sim, events, info>>
        BY <1>4 DEF WaitSlurmSem
    <2> QED  BY <2>1 DEF DueOK
  <1>5. CASE EndJob
    <2>1. helper' = "complete" /\ UNCHANGED info
        BY <1>5 DEF EndJob
    <2> QED  BY <2>1 DEF DueOK
  <1>6. CASE NoJobEnded \/ AllJobsEnded
    <2>1. /\ helper = "scan" /\ ~EventDue /\ helper' \in {"cycle", "epilogs"}
          /\ UNCHANGED <<now, current_sim, events, info>>
        BY <1>6 DEF NoJobEnded, AllJobsEnded, SendCycle
    <2>2. now = current_sim /\ \A i \in 1..Len(events) : events[i].when > now
        BY <2>1, <1>0, <1>NoneDue DEF ClockRead
    <2> QED  BY <2>1, <2>2 DEF DueOK
  <1>7. CASE EpilogsFinished
    <2>1. helper = "epilogs" /\ helper' = "cycle" /\ UNCHANGED <<now, current_sim, events, info>>
        BY <1>7 DEF EpilogsFinished, SendCycle
    <2> QED  BY <2>1 DEF DueOK
  <1>8. ASSUME NEW j \in Jobs, AddEvent(j) PROVE DueOK'
    <2>1. UNCHANGED <<helper, now, current_sim, info>>  BY <1>8 DEF AddEvent
    <2>2. CASE info[j] = -1
      <3>1. events' = events  BY <1>8, <2>2 DEF AddEvent
      <3> QED  BY <2>1, <3>1 DEF DueOK
    <2>3. CASE info[j] # -1
      <3>1. PICK p \in 1..Len(events) + 1 :
              /\ Len(events) \in Nat /\ Len(events') = Len(events) + 1
              /\ events'[p].when = current_sim + info[j]
              /\ \A i \in 1..p - 1 : events'[i] = events[i]
              /\ \A i \in p + 1..Len(events) + 1 : events'[i] = events[i - 1]
          BY <1>8, <2>3, <1>0, AddedAt
      <3>2. events'[p].when > current_sim
        <4>1. info[j] \in Nat /\ info[j] # 0 /\ current_sim \in Nat
            BY <2>3, <1>0 DEF DueOK, JobType, MgrType
        <4> QED  BY <4>1, <3>1, SMT
      <3>3. ASSUME helper \in {"epilogs", "cycle"}, NEW i \in 1..Len(events')
            PROVE  events'[i].when > current_sim
        <4>0. \A k \in 1..Len(events) : events[k].when > current_sim  BY <3>3 DEF DueOK
        <4>1. CASE i = p  BY <4>1, <3>2
        <4>2. CASE i < p  
          <5>1. i \in 1..Len(events) /\ events'[i] = events[i]  BY <4>2, <3>1, SMT
          <5> QED  BY <5>1, <4>0
        <4>3. CASE i > p
          <5>1. i - 1 \in 1..Len(events) /\ events'[i] = events[i - 1]  BY <4>3, <3>1, SMT
          <5> QED  BY <5>1, <4>0
        <4> QED  BY <4>1, <4>2, <4>3, <3>1, SMT
      <3> QED  BY <2>1, <3>3 DEF DueOK
    <2> QED  BY <2>2, <2>3
  <1>9. CASE CompleteReplies(0) \/ CycleReplies(0)
    <2>1. /\ helper # "sleep" /\ helper' \in {helper, "scan", "sleep"}
          /\ UNCHANGED <<now, current_sim, events, info>>
        BY <1>9, SafeParts, FirstSlot DEF CompleteReplies, CycleReplies
    <2> QED  BY <2>1 DEF DueOK
  <1>10. CASE UNCHANGED <<helper, now, current_sim, events, info>>
      BY <1>10 DEF DueOK
  <1> QED  BY <1>1, <1>2, <1>3, <1>4, <1>5, <1>6, <1>7, <1>8, <1>9, <1>10, <1>DueWriters

-----------------------------------------------------------------------------
(* A job runs for its duration                                             *)

\* Every job that time_mgr is done with is known to slurmctld, and slurmd has
\* its duration; only such a job is launched.
SubmittedOK ==
  /\ mgr # "bad_sim_job"
  /\ mgr = "submitting" => Submit[trace_head] =< current_sim
  /\ mgr = "sim_job" => job_state[trace_head] # "none"
  /\ \A j \in Jobs : /\ j < trace_head => info[j] = Duration[j] /\ job_state[j] # "none"
                     /\ launch[j] # "none" => j < trace_head

\* What the list of completions, a report and the end of a job say of time.
RanOK ==
  /\ \A j \in Jobs :
        /\ start_time[j] =< current_sim
        /\ job_state[j] = "COMPLETING" => start_time[j] + Duration[j] =< current_sim
  /\ \A i \in 1..Len(events) :
        start_time[events[i].job] + Duration[events[i].job] =< events[i].when
  /\ Reported => start_time[complete_job[0]] + Duration[complete_job[0]] =< current_sim

\* Jobs are submitted and described in the order of the trace.
LEMMA SubmittedStep ==
  ASSUME Safe, timeouts = 0, SubmittedOK, CalmStep, Rejected = {}
  PROVE  SubmittedOK'
  \* Who submits, describes and launches jobs.
  <1>SubmittedWriters. \/ UNCHANGED <<mgr, trace_head, current_sim, job_state, info, launch>>
                       \/ LoopTop \/ generateJob \/ rpc_sim_job \/ rpc_sim_job_uninitialised \/
                          PostSlurmSem \/ WaitSimSem \/ terminate_simulation
                       \/ \E j \in Jobs : submit_batch_job(j) \/ epilog_complete(j) \/
                            simulator_rpc_batch_job(j) \/ AddEvent(j) \/ CalmStarts(j)
                       \/ job_complete(0)
    <2> USE DEF mgr_vars, sem_vars, helper_vars, slurmd_vars, job_vars, count_vars,
             sched_vars, bf_vars, rpc_vars, slot_vars, complete_vars, cycle_vars,
             run_vars
    <2>1. ASSUME WaitSlurmSem \/ EndJob \/ NoJobEnded \/ AllJobsEnded \/ EpilogsFinished
                 \/ AgentWakes \/ AgentExits \/ BackfillWakes \/ BackfillLocks \/
                 BackfillReturns \/ CheckAllFinished \/ Stopped
          PROVE  UNCHANGED <<mgr, trace_head, current_sim, job_state, info, launch>>
        BY <2>1 DEF WaitSlurmSem, EndJob, NoJobEnded, SendCycle, AllJobsEnded,
           EpilogsFinished, AgentWakes, At, Moves, AgentExits, BackfillWakes,
           BackfillLocks, BackfillReturns, CheckAllFinished, Stopped, vars
    <2>2. ASSUME NEW j \in Jobs, SubmitQueuesScheduler(j) \/ EpilogQueuesScheduler(j) \/
                 EpilogReplies(j) \/ EpilogCounts(j) \/ EpilogReadsTotal(j) \/
                 EpilogWritesTotal(j) \/ simulator_rpc_terminate_job(j) \/
                 TerminateFinishes(j) \/ rpc_timelimit(j)
          PROVE  UNCHANGED <<mgr, trace_head, current_sim, job_state, info, launch>>
        BY <2>2 DEF SubmitQueuesScheduler, EpilogQueuesScheduler, EpilogReplies,
           EpilogCounts, EpilogReadsTotal, EpilogWritesTotal,
           simulator_rpc_terminate_job, TerminateFinishes, rpc_timelimit
    <2>3. ASSUME complete_batch_script(0) \/ CompleteReplies(0) \/
                 CompletedJobsArrived(0) \/ EpilogsArrived(0) \/ get_scheduler_cnt(0) \/
                 reset_scheduler_cnt(0) \/ do_backfill(0) \/ BackfillWaited(0) \/
                 CycleReplies(0)
          PROVE  UNCHANGED <<mgr, trace_head, current_sim, job_state, info, launch>>
        BY <2>3 DEF complete_batch_script, CompleteReplies, CompletedJobsArrived,
           At, Moves, EpilogsArrived, get_scheduler_cnt, reset_scheduler_cnt,
           do_backfill, BackfillWaited, CycleReplies
    <2>4. ASSUME NEW t \in Callers, ScheduleChecks(t) \/ ScheduleBegins(t) \/
                 ScheduleDefers(t) \/ schedule(t) \/ ScheduleReturns(t) \/
                 ScheduleEnds(t)
          PROVE  UNCHANGED <<mgr, trace_head, current_sim, job_state, info, launch>>
        BY <2>4 DEF ScheduleChecks, At, Moves, ScheduleBegins, NewJobLimit,
           ScheduleDefers, After, schedule, ScheduleReturns, ScheduleEnds
    <2> QED  BY <2>1, <2>2, <2>3, <2>4 DEF CalmStep
  <1> USE DEF mgr_vars, sem_vars, helper_vars, slurmd_vars, job_vars, count_vars,
           sched_vars, bf_vars, rpc_vars, slot_vars, complete_vars, cycle_vars,
           run_vars
  <1>0. /\ MgrType /\ JobType /\ SubmissionOK /\ EpilogsOK
        /\ helper # "sleep" <=> mgr = "wait" /\ slurm_sem = 0 /\ sim_sem = 0
        /\ NJobs \in Nat /\ Submit \in [Jobs -> Nat] /\ Duration \in [Jobs -> Nat]
        /\ trace_head \in Int /\ current_sim \in Nat /\ \A j \in Jobs : j \in Int
      BY SafeParts, FirstSlot, LockstepAssumption, SMT DEF MgrType, Jobs
  <1>1. CASE LoopTop \/ PostSlurmSem \/ terminate_simulation
    <2>1. mgr' \in {"loop", "trace", "wait", "exited"} /\ UNCHANGED <<trace_head, job_state, info, launch>>
        BY <1>1 DEF LoopTop, PostSlurmSem, terminate_simulation
    <2> QED  BY <2>1 DEF SubmittedOK
  <1>2. CASE WaitSimSem
    <2>1. mgr' = "loop" /\ UNCHANGED <<trace_head, job_state, info, launch>>
        BY <1>2 DEF WaitSimSem
    <2> QED  BY <2>1 DEF SubmittedOK
  <1>3. CASE generateJob
    <2>1. /\ mgr' = "submitting" /\ JobDue
          /\ UNCHANGED <<trace_head, current_sim, job_state, info, launch>>
        BY <1>3 DEF generateJob
    <2>2. Submit[trace_head] =< current_sim
        BY <2>1, <1>0 DEF JobDue, MgrType, Jobs
    <2> QED  BY <2>1, <2>2 DEF SubmittedOK
  <1>4. CASE rpc_sim_job
    <2>1. /\ mgr = "sim_job" /\ mgr' = "trace" /\ trace_head' = trace_head + 1
          /\ info' = [info EXCEPT ![trace_head] = Duration[trace_head]]
          /\ UNCHANGED <<job_state, launch>>
        BY <1>4 DEF rpc_sim_job
    <2>2. trace_head \in Jobs  BY <2>1, <1>0, SMT DEF SubmissionOK, MgrType, Jobs
    <2>3. ASSUME NEW j \in Jobs, j < trace_head'
          PROVE  info'[j] = Duration[j] /\ job_state'[j] # "none"
      <3>1. CASE j = trace_head  BY <2>1, <2>2, <3>1, <1>0 DEF SubmittedOK, JobType
      <3>2. CASE j # trace_head
        <4>1. j < trace_head  BY <2>1, <2>3, <3>2, <1>0, SMT
        <4> QED  BY <2>1, <3>2, <4>1, <1>0 DEF SubmittedOK, JobType
      <3> QED  BY <3>1, <3>2
    <2>4. \A j \in Jobs : launch'[j] # "none" => j < trace_head'
        BY <2>1, <1>0, SMT DEF SubmittedOK
    <2> QED  BY <2>1, <2>3, <2>4 DEF SubmittedOK
  <1>5. CASE rpc_sim_job_uninitialised
      BY <1>5 DEF rpc_sim_job_uninitialised, SubmittedOK
  <1>6. ASSUME NEW j \in Jobs, submit_batch_job(j) PROVE SubmittedOK'
    <2>1. /\ mgr' = "sim_job" /\ job_state' = [job_state EXCEPT ![j] = "PENDING"]
          /\ UNCHANGED <<trace_head, current_sim, info, launch>>
        BY <1>6 DEF submit_batch_job
    <2>2. j = trace_head  BY <1>6, <1>0 DEF submit_batch_job, SubmissionOK
    <2>3. job_state'[j] = "PENDING" /\ \A i \in Jobs : i # j => job_state'[i] = job_state[i]
        BY <2>1, <1>0 DEF JobType
    <2> QED  BY <2>1, <2>2, <2>3 DEF SubmittedOK
  <1>7. ASSUME NEW j \in Jobs, epilog_complete(j) PROVE SubmittedOK'
    <2>1. /\ job_state' = [job_state EXCEPT ![j] = "DONE"]
          /\ UNCHANGED <<mgr, trace_head, current_sim, info, launch>>
        BY <1>7 DEF epilog_complete
    <2>2. \A i \in Jobs : job_state[i] # "none" => job_state'[i] # "none"
        BY <2>1, <1>0 DEF JobType
    <2>3. mgr = "sim_job" => trace_head \in Jobs  BY <1>0, SMT DEF SubmissionOK, MgrType, Jobs
    <2> QED  BY <2>1, <2>2, <2>3 DEF SubmittedOK
  <1>8. ASSUME NEW j \in Jobs, simulator_rpc_batch_job(j) \/ AddEvent(j) PROVE SubmittedOK'
    <2>1. /\ launch[j] # "none" /\ launch' \in {[launch EXCEPT ![j] = "add"], [launch EXCEPT ![j] = "none"]}
          /\ UNCHANGED <<mgr, trace_head, current_sim, job_state, info>>
        BY <1>8 DEF simulator_rpc_batch_job, AddEvent
    <2>2. \A i \in Jobs : launch'[i] # "none" => launch[i] # "none"
        BY <2>1, <1>0 DEF JobType
    <2> QED  BY <2>1, <2>2 DEF SubmittedOK
  <1>9. ASSUME NEW j \in Jobs, CalmStarts(j) PROVE SubmittedOK'
    <2>1. /\ job_state[j] = "PENDING" /\ job_state' = [job_state EXCEPT ![j] = "RUNNING"]
          /\ launch' = [launch EXCEPT ![j] = "arrived"] /\ helper # "sleep"
          /\ UNCHANGED <<mgr, trace_head, current_sim, info>>
        BY <1>9 DEF CalmStarts, StartJob, Startable
    <2>2. mgr = "wait" /\ j < trace_head
        BY <2>1, <1>0 DEF SubmissionOK
    <2>3. \A i \in Jobs : /\ job_state[i] # "none" => job_state'[i] # "none"
                          /\ i # j => launch'[i] = launch[i]
        BY <2>1, <1>0 DEF JobType
    <2> QED  BY <2>1, <2>2, <2>3 DEF SubmittedOK
  <1>10. CASE job_complete(0)
    <2>1. /\ job_state' \in {job_state, [job_state EXCEPT ![complete_job[0]] = "COMPLETING"]}
          /\ UNCHANGED <<mgr, trace_head, current_sim, info, launch>>
        BY <1>10 DEF job_complete
    <2>2. \A i \in Jobs : job_state[i] # "none" => job_state'[i] # "none"
        BY <2>1, <1>0 DEF JobType
    <2>3. mgr = "sim_job" => trace_head \in Jobs  BY <1>0, SMT DEF SubmissionOK, MgrType, Jobs
    <2> QED  BY <2>1, <2>2, <2>3 DEF SubmittedOK
  <1>11. CASE UNCHANGED <<mgr, trace_head, current_sim, job_state, info, launch>>
      BY <1>11 DEF SubmittedOK
  <1> QED  BY <1>1, <1>2, <1>3, <1>4, <1>5, <1>6, <1>7, <1>8, <1>9, <1>10, <1>11, <1>SubmittedWriters

\* No completion is entered, reported or processed before its time.
LEMMA RanStep ==
  ASSUME Safe, timeouts = 0, FlowOK, ClockRead, SubmittedOK, RanOK, CalmStep
  PROVE  RanOK'
  \* Who moves the clock and starts, enters, reports and ends jobs.
  <1>RanWriters. \/ UNCHANGED <<current_sim, job_state, start_time, events, complete,
                    complete_job>>
                 \/ WaitSimSem \/ EndJob
                 \/ \E j \in Jobs : submit_batch_job(j) \/ epilog_complete(j) \/ AddEvent(j)
                      \/ CalmStarts(j)
                 \/ complete_batch_script(0) \/ job_complete(0) \/ CompleteReplies(0)
    <2> USE DEF mgr_vars, sem_vars, helper_vars, slurmd_vars, job_vars, count_vars,
             sched_vars, bf_vars, rpc_vars, slot_vars, complete_vars, cycle_vars,
             run_vars
    <2>1. ASSUME LoopTop \/ generateJob \/ rpc_sim_job \/ rpc_sim_job_uninitialised \/
                 PostSlurmSem \/ terminate_simulation \/ WaitSlurmSem \/ NoJobEnded \/
                 AllJobsEnded \/ EpilogsFinished \/ AgentWakes \/ AgentExits \/
                 BackfillWakes \/ BackfillLocks \/ BackfillReturns \/ CheckAllFinished
                 \/ Stopped
          PROVE  UNCHANGED <<current_sim, job_state, start_time, events, complete,
                 complete_job>>
        BY <2>1 DEF LoopTop, generateJob, rpc_sim_job, rpc_sim_job_uninitialised,
           PostSlurmSem, terminate_simulation, WaitSlurmSem, NoJobEnded, SendCycle,
           AllJobsEnded, EpilogsFinished, AgentWakes, At, Moves, AgentExits,
           BackfillWakes, BackfillLocks, BackfillReturns, CheckAllFinished, Stopped,
           vars
    <2>2. ASSUME NEW j \in Jobs, SubmitQueuesScheduler(j) \/ EpilogQueuesScheduler(j) \/
                 EpilogReplies(j) \/ EpilogCounts(j) \/ EpilogReadsTotal(j) \/
                 EpilogWritesTotal(j) \/ simulator_rpc_terminate_job(j) \/
                 TerminateFinishes(j) \/ rpc_timelimit(j) \/ simulator_rpc_batch_job(j)
          PROVE  UNCHANGED <<current_sim, job_state, start_time, events, complete,
                 complete_job>>
        BY <2>2 DEF SubmitQueuesScheduler, EpilogQueuesScheduler, EpilogReplies,
           EpilogCounts, EpilogReadsTotal, EpilogWritesTotal,
           simulator_rpc_terminate_job, TerminateFinishes, rpc_timelimit,
           simulator_rpc_batch_job
    <2>3. ASSUME CompletedJobsArrived(0) \/ EpilogsArrived(0) \/ get_scheduler_cnt(0) \/
                 reset_scheduler_cnt(0) \/ do_backfill(0) \/ BackfillWaited(0) \/
                 CycleReplies(0)
          PROVE  UNCHANGED <<current_sim, job_state, start_time, events, complete,
                 complete_job>>
        BY <2>3 DEF CompletedJobsArrived, At, Moves, EpilogsArrived,
           get_scheduler_cnt, reset_scheduler_cnt, do_backfill, BackfillWaited,
           CycleReplies
    <2>4. ASSUME NEW t \in Callers, ScheduleChecks(t) \/ ScheduleBegins(t) \/
                 ScheduleDefers(t) \/ schedule(t) \/ ScheduleReturns(t) \/
                 ScheduleEnds(t)
          PROVE  UNCHANGED <<current_sim, job_state, start_time, events, complete,
                 complete_job>>
        BY <2>4 DEF ScheduleChecks, At, Moves, ScheduleBegins, NewJobLimit,
           ScheduleDefers, After, schedule, ScheduleReturns, ScheduleEnds
    <2> QED  BY <2>1, <2>2, <2>3, <2>4 DEF CalmStep
  \* A step that starts no job and makes no other one end.
  <1>RanKept. ASSUME MgrType, JobType, EventType, UNCHANGED <<start_time, events>>,
                     current_sim' \in {current_sim, current_sim + 1},
                     \A j \in Jobs : job_state'[j] = "COMPLETING" => job_state[j] = "COMPLETING",
                     Reported' => Reported /\ complete_job'[0] = complete_job[0] /\ complete_job[0] \in Jobs
              PROVE  RanOK'
    <2> USE <1>RanKept
    <2>1. /\ current_sim \in Nat /\ start_time \in [Jobs -> Nat] /\ Duration \in [Jobs -> Nat]
          /\ current_sim =< current_sim' /\ current_sim' \in Nat
        BY LockstepAssumption, SMT DEF MgrType, JobType
    <2>2. \A j \in Jobs : start_time[j] \in Nat /\ Duration[j] \in Nat /\ start_time[j] + Duration[j] \in Nat
        BY <2>1, SMT
    <2>3. \A m \in Nat : m =< current_sim => m =< current_sim'
        BY <2>1, SMT
    <2>4. \A j \in Jobs : /\ start_time'[j] =< current_sim'
                          /\ job_state'[j] = "COMPLETING" => start_time'[j] + Duration[j] =< current_sim'
        BY <2>2, <2>3 DEF RanOK
    <2>5. Reported' => start_time'[complete_job'[0]] + Duration[complete_job'[0]] =< current_sim'
        BY <2>2, <2>3 DEF RanOK
    <2>6. \A i \in 1..Len(events') :
             start_time'[events'[i].job] + Duration[events'[i].job] =< events'[i].when
        BY DEF RanOK
    <2> QED  BY <2>4, <2>5, <2>6 DEF RanOK
  <1> USE DEF mgr_vars, sem_vars, helper_vars, slurmd_vars, job_vars, count_vars,
           sched_vars, bf_vars, rpc_vars, slot_vars, complete_vars, cycle_vars,
           run_vars
  <1>0. /\ MgrType /\ JobType /\ EventType /\ SlotType /\ SubmissionOK
        /\ complete[0] # "none" => complete_job[0] \in Jobs
        /\ 0 \in Slots
        /\ current_sim \in Nat /\ Duration \in [Jobs -> Nat]
        /\ \A j \in Jobs : start_time[j] \in Nat /\ Duration[j] \in Nat
      BY SafeParts, FirstSlot, CallerFacts, LockstepAssumption DEF MgrType, JobType
  <1>e. /\ Len(events) \in Nat
        /\ \A i \in 1..Len(events) : events[i].job \in Jobs
    <2>1. Len(events) \in Nat /\ \A i \in 1..Len(events) : events[i] \in Event(Jobs)
        BY <1>0, SMT DEF EventType
    <2> QED  BY <2>1 DEF Event
  <1>1. CASE WaitSimSem
    <2>1. /\ current_sim' = current_sim + 1
          /\ UNCHANGED <<job_state, start_time, events, complete, complete_job>>
        BY <1>1 DEF WaitSimSem
    <2> QED  BY <2>1, <1>0, <1>RanKept DEF Reported
  <1>2. CASE EndJob
    <2>1. /\ helper = "scan" /\ events # <<>> /\ now >= Head(events).when /\ events' = Tail(events)
          /\ UNCHANGED <<current_sim, job_state, start_time>>
          /\ complete_job' = [complete_job EXCEPT ![0] = Head(events).job]
        BY <1>2 DEF EndJob, EventDue
    <2>2. /\ Len(events) > 0 /\ Len(events') = Len(events) - 1
          /\ Head(events) = events[1] /\ events[1].job \in Jobs /\ events[1].when \in Nat
          /\ \A i \in 1..Len(events) - 1 : events'[i] = events[i + 1]
        BY <2>1, <1>0, TailOf, SMT DEF EventType
    <2>3. complete_job'[0] = events[1].job  BY <2>1, <2>2, <1>0 DEF SlotType
    <2>4. start_time[events[1].job] + Duration[events[1].job] =< current_sim
      <3>1. start_time[events[1].job] + Duration[events[1].job] =< events[1].when
          BY <2>2, <1>e, SMT DEF RanOK
      <3>2. events[1].when =< current_sim  BY <2>1, <2>2, <1>0 DEF ClockRead
      <3>3. start_time[events[1].job] \in Nat /\ Duration[events[1].job] \in Nat  BY <2>2, <1>0
      <3> QED  BY <3>1, <3>2, <3>3, <2>2, <1>0, SMTT(20)
    <2>5. \A i \in 1..Len(events') :
             start_time[events'[i].job] + Duration[events'[i].job] =< events'[i].when
      <3>1. \A i \in 1..Len(events') : i + 1 \in 1..Len(events) /\ events'[i] = events[i + 1]
          BY <2>2, <1>e, SMT
      <3> QED  BY <3>1 DEF RanOK
    <2> QED  BY <2>1, <2>3, <2>4, <2>5 DEF RanOK
  <1>3. ASSUME NEW j \in Jobs, submit_batch_job(j) \/ epilog_complete(j) PROVE RanOK'
    <2>1. /\ job_state' \in {job_state, [job_state EXCEPT ![j] = "PENDING"], [job_state EXCEPT ![j] = "DONE"]}
          /\ UNCHANGED <<current_sim, start_time, events, complete, complete_job>>
        BY <1>3 DEF submit_batch_job, epilog_complete
    <2>2. \A i \in Jobs : job_state'[i] = "COMPLETING" => job_state[i] = "COMPLETING"
        BY <2>1, <1>0 DEF JobType
    <2> QED  BY <2>1, <2>2, <1>0, <1>RanKept DEF Reported
  <1>4. ASSUME NEW j \in Jobs, AddEvent(j) PROVE RanOK'
    <2>1. launch[j] = "add" /\ UNCHANGED <<current_sim, job_state, start_time, complete, complete_job>>
        BY <1>4 DEF AddEvent
    <2>2. info[j] = Duration[j] /\ info[j] # -1 /\ start_time[j] =< current_sim
        BY <2>1, <1>0, SMT DEF SubmittedOK, RanOK
    <2>3. PICK p \in 1..Len(events) + 1 :
            /\ Len(events') = Len(events) + 1
            /\ events'[p].job = j /\ events'[p].when = current_sim + info[j]
            /\ \A i \in 1..p - 1 : events'[i] = events[i]
            /\ \A i \in p + 1..Len(events) + 1 : events'[i] = events[i - 1]
        BY <1>4, <2>2, <1>0, AddedAt
    <2>4. start_time[j] + Duration[j] =< events'[p].when
        BY <2>2, <2>3, <1>0, SMTT(20)
    <2>5. ASSUME NEW i \in 1..Len(events')
          PROVE  start_time[events'[i].job] + Duration[events'[i].job] =< events'[i].when
      <3>1. CASE i = p  BY <3>1, <2>3, <2>4
      <3>2. CASE i < p
        <4>1. i \in 1..Len(events) /\ events'[i] = events[i]  BY <3>2, <2>3, <1>e, SMT
        <4> QED  BY <4>1 DEF RanOK
      <3>3. CASE i > p
        <4>1. i - 1 \in 1..Len(events) /\ events'[i] = events[i - 1]  BY <3>3, <2>3, <1>e, SMT
        <4> QED  BY <4>1 DEF RanOK
      <3> QED  BY <3>1, <3>2, <3>3, <2>3, <1>e, SMTT(20)
    <2> QED  BY <2>1, <2>5 DEF RanOK, Reported
  <1>5. ASSUME NEW j \in Jobs, CalmStarts(j) PROVE RanOK'
    <2>1. /\ job_state[j] = "PENDING" /\ job_state' = [job_state EXCEPT ![j] = "RUNNING"]
          /\ start_time' = [start_time EXCEPT ![j] = current_sim]
          /\ UNCHANGED <<current_sim, events, complete, complete_job>>
        BY <1>5 DEF CalmStarts, StartJob, Startable
    <2>2. /\ start_time'[j] = current_sim /\ job_state'[j] = "RUNNING"
          /\ \A i \in Jobs : i # j => start_time'[i] = start_time[i] /\ job_state'[i] = job_state[i]
        BY <2>1, <1>0 DEF JobType
    <2>3. /\ \A i \in 1..Len(events) : events[i].job # j
          /\ Reported => complete_job[0] # j /\ complete_job[0] \in Jobs
        BY <2>1, <1>0 DEF FlowOK, Reported
    <2>4. \A i \in Jobs : /\ start_time'[i] =< current_sim
                          /\ job_state'[i] = "COMPLETING" => start_time'[i] + Duration[i] =< current_sim
        BY <2>2, <1>0, SMT DEF RanOK
    <2>5. \A i \in 1..Len(events) : start_time'[events[i].job] = start_time[events[i].job]
        BY <2>2, <2>3, <1>e
    <2>6. Reported => start_time'[complete_job[0]] = start_time[complete_job[0]]
        BY <2>2, <2>3
    <2>7. \A i \in 1..Len(events) : start_time'[events[i].job] + Duration[events[i].job] =< events[i].when
        BY <2>5 DEF RanOK
    <2>8. Reported' => start_time'[complete_job[0]] + Duration[complete_job[0]] =< current_sim
        BY <2>1, <2>6 DEF RanOK, Reported
    <2> QED  BY <2>1, <2>4, <2>7, <2>8 DEF RanOK
  <1>6. CASE complete_batch_script(0)
    <2>1. /\ complete[0] = "arrived"
          /\ UNCHANGED <<current_sim, job_state, start_time, events, complete_job>>
        BY <1>6 DEF complete_batch_script
    <2> QED  BY <2>1, <1>0, <1>RanKept DEF Reported
  <1>7. CASE job_complete(0)
    <2>1. /\ complete[0] = "lock" /\ complete' = [complete EXCEPT ![0] = "reply"]
          /\ UNCHANGED <<current_sim, start_time, events, complete_job>>
          /\ job_state' \in {job_state, [job_state EXCEPT ![complete_job[0]] = "COMPLETING"]}
        BY <1>7 DEF job_complete
    <2>2. Reported /\ ~Reported' /\ complete_job[0] \in Jobs  BY <2>1, <1>0 DEF Reported, SlotType
    <2>3. start_time[complete_job[0]] + Duration[complete_job[0]] =< current_sim
        BY <2>2 DEF RanOK
    <2>4. \A i \in Jobs : i # complete_job[0] => job_state'[i] = job_state[i]
        BY <2>1, <1>0 DEF JobType
    <2>5. \A i \in Jobs : job_state'[i] = "COMPLETING" => start_time[i] + Duration[i] =< current_sim
        BY <2>3, <2>4 DEF RanOK
    <2> QED  BY <2>1, <2>2, <2>5 DEF RanOK
  <1>8. CASE CompleteReplies(0)
    <2>1. /\ complete' = [complete EXCEPT ![0] = "none"]
          /\ UNCHANGED <<current_sim, job_state, start_time, events>>
        BY <1>8 DEF CompleteReplies
    <2>2. ~Reported'  BY <2>1, <1>0 DEF Reported, SlotType
    <2> QED  BY <2>1, <2>2, <1>0, <1>RanKept
  <1>9. CASE UNCHANGED <<current_sim, job_state, start_time, events, complete, complete_job>>
      BY <1>9, <1>0, <1>RanKept DEF Reported
  <1> QED  BY <1>1, <1>2, <1>3, <1>4, <1>5, <1>6, <1>7, <1>8, <1>9, <1>RanWriters

-----------------------------------------------------------------------------
(* The invariant of simulations without disturbance                        *)

Quiet ==
  Safe /\ timeouts = 0 /\ FlowOK /\ EpilogDue /\ EndingOK /\ CountedOK /\ ClockRead

\* The initial state is quiet.
LEMMA QuietInit == Init => Quiet
  <1> SUFFICES ASSUME Init PROVE Quiet
      OBVIOUS
  <1>1. Safe  BY SafeInit
  <1>2. /\ timeouts = 0 /\ helper = "sleep" /\ events = <<>> /\ Len(events) = 0
        /\ waiting_epilog_msgs = 0 /\ total_finished_jobs = 0 /\ arrived_jobs_epilogs = 0
        /\ job_state = [j \in Jobs |-> "none"] /\ launch = [j \in Jobs |-> "none"]
        /\ terminate = [j \in Jobs |-> "none"] /\ epilog = [j \in Jobs |-> "none"]
        /\ complete[0] = "none" /\ cycle[0] = "none"
      BY CallerFacts DEF Init
  <1>3. FlowOK  BY <1>2, SMT DEF FlowOK, Reported
  <1>4. EpilogDue  BY <1>2 DEF EpilogDue
  <1>5. Ending = {} /\ Uncounted = {}  BY <1>2 DEF Ending, Uncounted
  <1>6. Cardinality(Ending) = 0 /\ Cardinality(Uncounted) = 0  BY <1>5, FS_EmptySet
  <1>7. EndingOK  BY <1>2, <1>5, <1>6, SMT DEF EndingOK, One
  <1>8. CountedOK  BY <1>2, <1>6, SMT DEF CountedOK, Reporting, One
  <1> QED  BY <1>1, <1>2, <1>3, <1>4, <1>7, <1>8 DEF Quiet, ClockRead

\* Every calm step preserves it.
LEMMA QuietStep == Quiet /\ [Next]_vars /\ [Calm]_vars => Quiet'
  <1> SUFFICES ASSUME Quiet, [Next]_vars, [Calm]_vars PROVE Quiet'
      OBVIOUS
  <1>1. Safe'  BY SafeStep DEF Quiet
  <1>2. CASE UNCHANGED vars
    <2>1. UNCHANGED <<timeouts, helper, events, waiting_epilog_msgs, total_finished_jobs, jobs_ended,
                      arrived_jobs_epilogs, job_state, launch, terminate, epilog, complete, complete_job,
                      cycle, completed, total_jobs_ended, now, current_sim>>
        BY <1>2 DEF vars, mgr_vars, sem_vars, helper_vars, slurmd_vars, job_vars, count_vars,
           sched_vars, bf_vars, rpc_vars, slot_vars, complete_vars, cycle_vars
    <2>2. Ending' = Ending /\ Uncounted' = Uncounted  BY <2>1 DEF Ending, Uncounted
    <2>3. FlowOK' /\ EpilogDue'  BY <2>1 DEF Quiet, FlowOK, Reported, EpilogDue
    <2>4. EndingOK'  BY <2>1, <2>2 DEF Quiet, EndingOK
    <2>5. CountedOK'  BY <2>1, <2>2 DEF Quiet, CountedOK, Reporting
    <2> QED  BY <1>1, <2>1, <2>3, <2>4, <2>5 DEF Quiet, ClockRead
  <1>3. CASE Next /\ Calm
    <2>1. CalmStep  BY <1>3, CalmCases DEF Quiet
    <2>2. timeouts' = 0  BY <2>1, CalmTimeouts DEF Quiet
    <2>3. FlowOK' /\ EpilogDue'
        BY <2>1, FlowStep, EpilogDueStep DEF Quiet
    <2>4. EndingOK' /\ CountedOK'
        BY <2>1, EndingStep, CountedStep DEF Quiet
    <2>5. ClockRead'  BY <2>1, ClockStep DEF Quiet
    <2> QED  BY <1>1, <2>2, <2>3, <2>4, <2>5 DEF Quiet
  <1> QED  BY <1>2, <1>3

\* It is invariant.
LEMMA QuietInvariant == Undisturbed => []Quiet
  <1> QED  BY QuietInit, QuietStep, PTL DEF Undisturbed, Spec

\* The counters of ended jobs and of epilogs that _simulator_helper and
\* slurmctld's handlers share are zero whenever the helper is asleep.
THEOREM CountersReset == Undisturbed => []CountersBalanced
  <1>1. Quiet => CountersBalanced
    <2> SUFFICES ASSUME Quiet, helper = "sleep"
                 PROVE  total_finished_jobs = 0 /\ arrived_jobs_epilogs = 0 /\ waiting_epilog_msgs = 0
        BY DEF CountersBalanced
    <2>1. /\ Safe /\ timeouts = 0 /\ EndingOK /\ CountedOK /\ CounterType /\ HelperType
          /\ complete[0] = "none" /\ cycle[0] = "none"
        BY SafeParts, FirstSlot DEF Quiet
    <2>2. Uncounted \in SUBSET Jobs /\ Ending = {}
        BY <2>1 DEF Uncounted, EndingOK
    <2>3. Cardinality(Uncounted) \in Nat /\ Cardinality(Ending) = 0
        BY <2>2, FiniteJobs, FS_EmptySet
    <2>4. total_finished_jobs = 0 /\ arrived_jobs_epilogs + Cardinality(Uncounted) = 0
        BY <2>1 DEF CountedOK, Reporting
    <2>5. waiting_epilog_msgs + 0 = 0
        BY <2>1, <2>3 DEF EndingOK, One
    <2> QED  BY <2>1, <2>3, <2>4, <2>5, SMT DEF CounterType, HelperType
  <1> QED  BY <1>1, QuietInvariant, PTL

\* No completion that is due is left when the helper asks for a cycle.
LEMMA DueInvariant ==
  ASSUME RunsTakeTime
  PROVE  Undisturbed => []DueOK
  <1>1. Init => DueOK
      BY SMT DEF Init, DueOK
  <1>2. Quiet /\ DueOK /\ [Next]_vars /\ [Calm]_vars => DueOK'
    <2> SUFFICES ASSUME Quiet, DueOK, [Next]_vars, [Calm]_vars PROVE DueOK'
        OBVIOUS
    <2>1. CASE UNCHANGED vars
      <3>1. UNCHANGED <<helper, now, current_sim, events, info>>
          BY <2>1 DEF vars, mgr_vars, helper_vars, slurmd_vars
      <3> QED  BY <3>1 DEF DueOK
    <2>2. CASE Next /\ Calm
      <3>1. CalmStep  BY <2>2, CalmCases DEF Quiet
      <3> QED  BY <3>1, DueStep DEF Quiet
    <2> QED  BY <2>1, <2>2
  <1> QED  BY <1>1, <1>2, QuietInvariant, PTL DEF Undisturbed, Spec

\* If every job runs for a second at least, the scheduler of a second sees
\* every node that was freed in it: while schedule() holds the locks no job
\* is completing and no completion is due.
THEOREM CycleSeesEnded ==
  ASSUME RunsTakeTime
  PROVE  Undisturbed => []ScheduleSeesEnded
  <1>1. Quiet /\ DueOK => ScheduleSeesEnded
    <2> SUFFICES ASSUME Quiet, DueOK, NEW t \in Callers, cycle[t] = "schedule"
                 PROVE  /\ \A j \in Jobs : job_state[j] # "COMPLETING"
                        /\ \A i \in 1..Len(events) : events[i].when > current_sim
        BY DEF ScheduleSeesEnded
    <2>1. helper = "cycle"  BY FirstSlot DEF Quiet
    <2>2. Ending = {}  BY <2>1 DEF Quiet, EndingOK
    <2>3. \A j \in Jobs : job_state[j] # "COMPLETING"  BY <2>2 DEF Ending
    <2> QED  BY <2>1, <2>3 DEF DueOK
  <1> QED  BY <1>1, QuietInvariant, DueInvariant, PTL

-----------------------------------------------------------------------------
(* Times                                                                   *)

\* The times of jobs are what they should be if no submission is refused.
LEMMA TimesInvariant ==
  ASSUME Rejected = {}
  PROVE  Undisturbed => [](SubmittedOK /\ RanOK)
  <1>1. Init => SubmittedOK /\ RanOK
    <2> SUFFICES ASSUME Init PROVE SubmittedOK /\ RanOK
        OBVIOUS
    <2>1. /\ mgr = "loop" /\ trace_head = 1 /\ current_sim = 1 /\ events = <<>> /\ Len(events) = 0
          /\ job_state = [j \in Jobs |-> "none"] /\ launch = [j \in Jobs |-> "none"]
          /\ start_time = [j \in Jobs |-> 0] /\ complete[0] = "none"
        BY CallerFacts DEF Init
    <2>2. \A j \in Jobs : ~(j < 1)  BY LockstepAssumption, SMT DEF Jobs
    <2>3. SubmittedOK  BY <2>1, <2>2 DEF SubmittedOK
    <2>4. RanOK  BY <2>1, SMT DEF RanOK, Reported
    <2> QED  BY <2>3, <2>4
  <1>2. Quiet /\ SubmittedOK /\ RanOK /\ [Next]_vars /\ [Calm]_vars => (SubmittedOK /\ RanOK)'
    <2> SUFFICES ASSUME Quiet, SubmittedOK, RanOK, [Next]_vars, [Calm]_vars
                 PROVE  SubmittedOK' /\ RanOK'
        OBVIOUS
    <2>1. CASE UNCHANGED vars
      <3>1. UNCHANGED <<mgr, trace_head, current_sim, job_state, info, launch, start_time, events,
                        complete, complete_job>>
          BY <2>1 DEF vars, mgr_vars, slurmd_vars, job_vars, rpc_vars, slot_vars, complete_vars
      <3> QED  BY <3>1 DEF SubmittedOK, RanOK, Reported
    <2>2. CASE Next /\ Calm
      <3>1. CalmStep  BY <2>2, CalmCases DEF Quiet
      <3> QED  BY <3>1, SubmittedStep, RanStep DEF Quiet
    <2> QED  BY <2>1, <2>2
  <1> QED  BY <1>1, <1>2, QuietInvariant, PTL DEF Undisturbed, Spec

\* If no submission is refused, slurmd knows the duration of every job whose
\* launch it serves: REQUEST_SIM_JOB has been answered before time_mgr lets
\* the daemons go on.
THEOREM DurationKnown ==
  ASSUME Rejected = {}
  PROVE  Undisturbed => []LaunchInfoKnown
  <1>1. SubmittedOK => LaunchInfoKnown
      BY DEF SubmittedOK, LaunchInfoKnown
  <1> QED  BY <1>1, TimesInvariant, PTL

\* Who changes what SimSemantics shows.
LEMMA VisibleWriters ==
  ASSUME CalmStep
  PROVE  \/ UNCHANGED <<mgr, current_sim, job_state, start_time>>
         \/ LoopTop \/ generateJob \/ rpc_sim_job \/ rpc_sim_job_uninitialised \/
            PostSlurmSem \/ WaitSimSem \/ terminate_simulation
         \/ \E j \in Jobs : submit_batch_job(j) \/ epilog_complete(j) \/ CalmStarts(j)
         \/ job_complete(0)
  <1> USE DEF mgr_vars, sem_vars, helper_vars, slurmd_vars, job_vars, count_vars,
           sched_vars, bf_vars, rpc_vars, slot_vars, complete_vars, cycle_vars,
           run_vars
  <1>1. ASSUME WaitSlurmSem \/ EndJob \/ NoJobEnded \/ AllJobsEnded \/ EpilogsFinished
               \/ AgentWakes \/ AgentExits \/ BackfillWakes \/ BackfillLocks \/
               BackfillReturns \/ CheckAllFinished \/ Stopped
        PROVE  UNCHANGED <<mgr, current_sim, job_state, start_time>>
      BY <1>1 DEF WaitSlurmSem, EndJob, NoJobEnded, SendCycle, AllJobsEnded,
         EpilogsFinished, AgentWakes, At, Moves, AgentExits, BackfillWakes,
         BackfillLocks, BackfillReturns, CheckAllFinished, Stopped, vars
  <1>2. ASSUME NEW j \in Jobs, SubmitQueuesScheduler(j) \/ EpilogQueuesScheduler(j) \/
               EpilogReplies(j) \/ EpilogCounts(j) \/ EpilogReadsTotal(j) \/
               EpilogWritesTotal(j) \/ simulator_rpc_terminate_job(j) \/
               TerminateFinishes(j) \/ rpc_timelimit(j) \/ simulator_rpc_batch_job(j)
               \/ AddEvent(j)
        PROVE  UNCHANGED <<mgr, current_sim, job_state, start_time>>
      BY <1>2 DEF SubmitQueuesScheduler, EpilogQueuesScheduler, EpilogReplies,
         EpilogCounts, EpilogReadsTotal, EpilogWritesTotal,
         simulator_rpc_terminate_job, TerminateFinishes, rpc_timelimit,
         simulator_rpc_batch_job, AddEvent
  <1>3. ASSUME complete_batch_script(0) \/ CompleteReplies(0) \/
               CompletedJobsArrived(0) \/ EpilogsArrived(0) \/ get_scheduler_cnt(0) \/
               reset_scheduler_cnt(0) \/ do_backfill(0) \/ BackfillWaited(0) \/
               CycleReplies(0)
        PROVE  UNCHANGED <<mgr, current_sim, job_state, start_time>>
      BY <1>3 DEF complete_batch_script, CompleteReplies, CompletedJobsArrived,
         At, Moves, EpilogsArrived, get_scheduler_cnt, reset_scheduler_cnt,
         do_backfill, BackfillWaited, CycleReplies
  <1>4. ASSUME NEW t \in Callers, ScheduleChecks(t) \/ ScheduleBegins(t) \/
               ScheduleDefers(t) \/ schedule(t) \/ ScheduleReturns(t) \/
               ScheduleEnds(t)
        PROVE  UNCHANGED <<mgr, current_sim, job_state, start_time>>
      BY <1>4 DEF ScheduleChecks, At, Moves, ScheduleBegins, NewJobLimit,
         ScheduleDefers, After, schedule, ScheduleReturns, ScheduleEnds
  <1> QED  BY <1>1, <1>2, <1>3, <1>4 DEF CalmStep

\* job_complete ends the job that was reported.
LEMMA ReportedEnds ==
  ASSUME Safe, timeouts = 0, FlowOK, job_complete(0)
  PROVE  /\ Reported /\ complete_job[0] \in Jobs /\ job_state[complete_job[0]] = "RUNNING"
         /\ job_state' = [job_state EXCEPT ![complete_job[0]] = "COMPLETING"]
         /\ UNCHANGED <<mgr, current_sim, start_time>>
  <1>1. complete[0] = "lock"  BY DEF job_complete
  <1>2. Reported /\ complete_job[0] \in Jobs  BY <1>1, FirstSlot DEF Reported
  <1>3. job_state[complete_job[0]] = "RUNNING"  BY <1>2 DEF FlowOK
  <1> QED  BY <1>2, <1>3 DEF job_complete, mgr_vars

\* If no submission is refused, no job is ended before it has run for its
\* duration: job_complete processes a report no earlier than the time that
\* the thread of slurmd computed for the end.
THEOREM RunsForItsDuration ==
  ASSUME Rejected = {}
  PROVE  Undisturbed => EndNotEarly
  <1> DEFINE Kept == \A j \in Jobs : (job_state[j] = "RUNNING" /\ job_state'[j] # "RUNNING")
                        => current_sim >= start_time[j] + Duration[j]
  <1>1. Quiet /\ RanOK /\ [Next]_vars /\ [Calm]_vars => [Kept]_vars
    <2> SUFFICES ASSUME Quiet, RanOK, Next, Calm,
                        NEW j \in Jobs, job_state[j] = "RUNNING", job_state'[j] # "RUNNING"
                 PROVE  current_sim >= start_time[j] + Duration[j]
        OBVIOUS
    <2>0. Safe /\ timeouts = 0 /\ FlowOK /\ CalmStep /\ JobType /\ EpilogsOK /\ SubmissionOK /\ MgrType
        BY CalmCases, SafeParts DEF Quiet
    <2>t. current_sim \in Nat /\ start_time[j] \in Nat /\ Duration[j] \in Nat
        BY <2>0, LockstepAssumption DEF MgrType, JobType
    <2>1. CASE job_complete(0)
      <3>1. Reported /\ job_state' = [job_state EXCEPT ![complete_job[0]] = "COMPLETING"]
          BY <2>0, <2>1, ReportedEnds
      <3>2. j = complete_job[0]  BY <3>1, <2>0 DEF JobType
      <3> QED  BY <3>1, <3>2, <2>t DEF RanOK
    <2>2. ASSUME NEW i \in Jobs, submit_batch_job(i) PROVE FALSE
      <3>1. job_state[i] = "none"
        <4>1. i = trace_head /\ mgr = "submitting" /\ i \in Int
            BY <2>2, <2>0, SMT DEF submit_batch_job, SubmissionOK, Jobs
        <4> QED  BY <4>1, <2>0, SMT DEF SubmissionOK, JobType
      <3>2. job_state' \in {job_state, [job_state EXCEPT ![i] = "PENDING"]}
          BY <2>2 DEF submit_batch_job
      <3> QED  BY <3>1, <3>2, <2>0 DEF JobType
    <2>3. ASSUME NEW i \in Jobs, epilog_complete(i) PROVE FALSE
      <3>1. job_state[i] = "COMPLETING" /\ job_state' = [job_state EXCEPT ![i] = "DONE"]
          BY <2>3, <2>0 DEF epilog_complete, EpilogsOK
      <3> QED  BY <3>1, <2>0 DEF JobType
    <2>4. ASSUME NEW i \in Jobs, CalmStarts(i) PROVE FALSE
      <3>1. job_state' = [job_state EXCEPT ![i] = "RUNNING"]
          BY <2>4 DEF CalmStarts, StartJob
      <3> QED  BY <3>1, <2>0 DEF JobType
    <2>5. CASE LoopTop \/ generateJob \/ rpc_sim_job \/ rpc_sim_job_uninitialised \/ PostSlurmSem
               \/ WaitSimSem \/ terminate_simulation
        BY <2>5 DEF LoopTop, generateJob, rpc_sim_job, rpc_sim_job_uninitialised, PostSlurmSem,
           WaitSimSem, terminate_simulation, job_vars
    <2> QED  BY <2>0, <2>1, <2>2, <2>3, <2>4, <2>5, VisibleWriters
  <1>2. Undisturbed => [][Kept]_vars
      BY <1>1, QuietInvariant, TimesInvariant, PTL DEF Undisturbed, Spec
  <1> QED  BY <1>2 DEF EndNotEarly

-----------------------------------------------------------------------------
(* Refinement of SimSemantics                                              *)

\* The trace is ordered by submission time.
TraceOrdered == \A i, j \in Jobs : i =< j => Submit[i] =< Submit[j]

\* The phase of a job, as the refinement mapping gives it.
Phases == [j \in Jobs |-> PhaseOf[job_state[j]]]

\* The phases that belong to the states of a job.
LEMMA PhaseFacts ==
  /\ PhaseOf["none"] = "none" /\ PhaseOf["PENDING"] = "pending" /\ PhaseOf["RUNNING"] = "running"
  /\ PhaseOf["COMPLETING"] = "running" /\ PhaseOf["DONE"] = "done"
  BY DEF PhaseOf

\* What a phase says of the state of a job.
LEMMA PhaseSays ==
  ASSUME JobType, NEW j \in Jobs
  PROVE  /\ Phases[j] = PhaseOf[job_state[j]]
         /\ Phases[j] = "none" <=> job_state[j] = "none"
         /\ Phases[j] = "pending" <=> job_state[j] = "PENDING"
         /\ Phases[j] = "running" <=> job_state[j] \in {"RUNNING", "COMPLETING"}
  <1>1. Phases[j] = PhaseOf[job_state[j]]  BY DEF Phases
  <1>2. job_state[j] \in {"none", "PENDING", "RUNNING", "COMPLETING", "DONE"}  BY DEF JobType
  <1> QED  BY <1>1, <1>2, PhaseFacts

\* How the phases follow the state of a job.
LEMMA PhaseUpdated ==
  ASSUME NEW j \in Jobs, \A i \in Jobs : i # j => job_state'[i] = job_state[i]
  PROVE  Phases' = [Phases EXCEPT ![j] = PhaseOf[job_state'[j]]]
  <1>1. /\ Phases' = [i \in Jobs |-> Phases'[i]] /\ Phases = [i \in Jobs |-> Phases[i]]
        /\ Phases'[j] = PhaseOf[job_state'[j]] /\ \A i \in Jobs : i # j => Phases'[i] = Phases[i]
      BY DEF Phases
  <1> QED  BY <1>1

\* The phases when a job is submitted, started, ended and released.
LEMMA PhaseMoves ==
  ASSUME JobType, NEW j \in Jobs
  PROVE  /\ job_state' = [job_state EXCEPT ![j] = "PENDING"] => Phases' = [Phases EXCEPT ![j] = "pending"]
         /\ job_state' = [job_state EXCEPT ![j] = "RUNNING"] => Phases' = [Phases EXCEPT ![j] = "running"]
         /\ job_state' = [job_state EXCEPT ![j] = "COMPLETING"] => Phases' = [Phases EXCEPT ![j] = "running"]
         /\ job_state' = [job_state EXCEPT ![j] = "DONE"] => Phases' = [Phases EXCEPT ![j] = "done"]
  <1>1. ASSUME job_state' = [job_state EXCEPT ![j] = "PENDING"] PROVE Phases' = [Phases EXCEPT ![j] = "pending"]
    <2>1. job_state'[j] = "PENDING" /\ \A i \in Jobs : i # j => job_state'[i] = job_state[i]
        BY <1>1 DEF JobType
    <2>2. Phases' = [Phases EXCEPT ![j] = PhaseOf[job_state'[j]]]  BY <2>1, PhaseUpdated
    <2> QED  BY <2>1, <2>2, PhaseFacts
  <1>2. ASSUME job_state' = [job_state EXCEPT ![j] = "RUNNING"] PROVE Phases' = [Phases EXCEPT ![j] = "running"]
    <2>1. job_state'[j] = "RUNNING" /\ \A i \in Jobs : i # j => job_state'[i] = job_state[i]
        BY <1>2 DEF JobType
    <2>2. Phases' = [Phases EXCEPT ![j] = PhaseOf[job_state'[j]]]  BY <2>1, PhaseUpdated
    <2> QED  BY <2>1, <2>2, PhaseFacts
  <1>3. ASSUME job_state' = [job_state EXCEPT ![j] = "COMPLETING"] PROVE Phases' = [Phases EXCEPT ![j] = "running"]
    <2>1. job_state'[j] = "COMPLETING" /\ \A i \in Jobs : i # j => job_state'[i] = job_state[i]
        BY <1>3 DEF JobType
    <2>2. Phases' = [Phases EXCEPT ![j] = PhaseOf[job_state'[j]]]  BY <2>1, PhaseUpdated
    <2> QED  BY <2>1, <2>2, PhaseFacts
  <1>4. ASSUME job_state' = [job_state EXCEPT ![j] = "DONE"] PROVE Phases' = [Phases EXCEPT ![j] = "done"]
    <2>1. job_state'[j] = "DONE" /\ \A i \in Jobs : i # j => job_state'[i] = job_state[i]
        BY <1>4 DEF JobType
    <2>2. Phases' = [Phases EXCEPT ![j] = PhaseOf[job_state'[j]]]  BY <2>1, PhaseUpdated
    <2> QED  BY <2>1, <2>2, PhaseFacts
  <1> QED  BY <1>1, <1>2, <1>3, <1>4

\* Both modules count in the same way.
LEMMA SameCardinality ==
  ASSUME NEW S
  PROVE  Simulation!Cardinality(S) = Cardinality(S)
  BY DEF Simulation!Cardinality, Cardinality

\* The actions of SimSemantics, in terms of this module.
LEMMA Visible ==
  /\ Simulation!Init <=> /\ current_sim = 1 /\ (IF mgr = "wait" THEN "daemons" ELSE "mgr") = "mgr"
                         /\ Phases = [j \in Jobs |-> "none"] /\ start_time = [j \in Jobs |-> 0]
  /\ UNCHANGED <<current_sim, Phases, start_time>> /\ (mgr' = "wait" <=> mgr = "wait")
       => UNCHANGED Simulation!vars
  /\ (/\ mgr # "wait" /\ mgr' = "wait" /\ UNCHANGED <<current_sim, Phases, start_time>>
      /\ \A j \in Jobs : Submit[j] =< current_sim => Phases[j] # "none") => Simulation!Next
  /\ (/\ mgr = "wait" /\ mgr' # "wait" /\ current_sim' = current_sim + 1
      /\ UNCHANGED <<Phases, start_time>>) => Simulation!Next
  BY DEF Simulation!Init, Simulation!Next, Simulation!vars, Simulation!HandOver, Simulation!Tick,
     Simulation!Jobs, Jobs, Phases

\* Every step is one of SimSemantics, or changes nothing that shows there.
LEMMA RefinesStep ==
  ASSUME Rejected = {}, TraceOrdered
  PROVE  Quiet /\ SubmittedOK /\ RanOK /\ [Next]_vars /\ [Calm]_vars => [Simulation!Next]_(Simulation!vars)
  \* A job gives its node back while the daemons have the turn.
  <1>Finishes. ASSUME Quiet, RanOK, NEW j \in Jobs, epilog_complete(j)
               PROVE  Simulation!Next
    <2> USE <1>Finishes
    <2>0. Safe /\ timeouts = 0 /\ JobType /\ EpilogsOK  BY SafeParts DEF Quiet
    <2>1. /\ job_state[j] = "COMPLETING" /\ job_state' = [job_state EXCEPT ![j] = "DONE"]
          /\ UNCHANGED <<mgr, current_sim, start_time>>
        BY <2>0 DEF epilog_complete, EpilogsOK, mgr_vars
    <2>2. mgr = "wait"
      <3>1. Ending # {}  BY <2>1 DEF Ending
      <3>2. helper # "sleep"  BY <3>1 DEF Quiet, EndingOK
      <3> QED  BY <3>2, <2>0, FirstSlot
    <2>3. start_time[j] + Duration[j] =< current_sim  BY <2>1 DEF RanOK
    <2>4. Phases[j] = "running" /\ Phases' = [Phases EXCEPT ![j] = "done"]
        BY <2>0, <2>1, PhaseSays, PhaseMoves
    <2>5. Simulation!Finish(j)
        BY <2>1, <2>2, <2>3, <2>4 DEF Simulation!Finish, Phases
    <2> QED  BY <2>5 DEF Simulation!Next, Simulation!Jobs, Jobs
  \* A job that is started is the first that waits, and a node is idle.
  <1>Begins. ASSUME Safe, timeouts = 0, NEW j \in Jobs, CalmStarts(j)
             PROVE  Simulation!Next
    <2> USE <1>Begins
    <2>0. JobType  BY SafeParts
    <2>1. /\ mgr = "wait" /\ mgr' = mgr /\ Startable(j) /\ UNCHANGED current_sim
          /\ job_state' = [job_state EXCEPT ![j] = "RUNNING"]
          /\ start_time' = [start_time EXCEPT ![j] = current_sim]
      <3>1. mgr = "wait"  BY FirstSlot DEF CalmStarts
      <3> QED  BY <3>1 DEF CalmStarts, StartJob, mgr_vars
    <2>2. Jobs = 1..NJobs /\ NJobs \in Nat /\ Simulation!Jobs = Jobs
        BY LockstepAssumption DEF Jobs, Simulation!Jobs
    <2>3. Simulation!Running = {i \in Jobs : job_state[i] \in {"RUNNING", "COMPLETING"}}
      <3>1. Simulation!Running = {i \in Jobs : Phases[i] = "running"}
          BY <2>2 DEF Simulation!Running, Phases
      <3> QED  BY <3>1, <2>0, PhaseSays
    <2>4. Simulation!Cardinality(Simulation!Running) < Nodes
      <3>1. Cardinality(Simulation!Running) < Nodes
          BY <2>1, <2>3 DEF Startable, IdleNode
      <3> QED  BY <3>1, SameCardinality
    <2>5. ASSUME NEW i \in 1..j - 1 PROVE Phases[i] # "pending"
      <3>1. i \in Jobs /\ ~(j =< i)  BY <2>2, SMT
      <3>2. job_state[i] # "PENDING"  BY <3>1, <2>1 DEF Startable
      <3> QED  BY <3>1, <3>2, <2>0, PhaseSays
    <2>6. Phases[j] = "pending" /\ Phases' = [Phases EXCEPT ![j] = "running"]
        BY <2>0, <2>1, PhaseSays, PhaseMoves DEF Startable
    <2>7. Simulation!Start(j)
        BY <2>1, <2>4, <2>5, <2>6 DEF Simulation!Start, Phases
    <2> QED  BY <2>2, <2>7 DEF Simulation!Next
  \* A submission is the one that is next in the trace, and its time has come.
  <1>Submits. ASSUME MgrType, JobType, SubmissionOK, SubmittedOK, NEW j \in Jobs, submit_batch_job(j)
              PROVE  Simulation!Next
    <2> USE <1>Submits
    <2>1. /\ j = trace_head /\ mgr = "submitting" /\ mgr' = "sim_job"
          /\ job_state' = [job_state EXCEPT ![j] = "PENDING"] /\ UNCHANGED <<current_sim, start_time>>
        BY DEF submit_batch_job, SubmissionOK
    <2>2. j \in Int /\ NJobs \in Nat /\ Jobs = 1..NJobs  BY LockstepAssumption, SMT DEF Jobs
    <2>3. job_state[j] = "none"  BY <2>1, <2>2, SMT DEF SubmissionOK
    <2>4. Submit[j] =< current_sim  BY <2>1 DEF SubmittedOK
    <2>5. ASSUME NEW i \in 1..j - 1 PROVE Phases[i] # "none"
      <3>1. i \in Jobs /\ i < trace_head  BY <2>1, <2>2, SMT
      <3> QED  BY <3>1, PhaseSays DEF SubmittedOK
    <2>6. Phases[j] = "none" /\ Phases' = [Phases EXCEPT ![j] = "pending"]
        BY <2>1, <2>3, PhaseSays, PhaseMoves
    <2>7. Simulation!SubmitJob(j)
        BY <2>1, <2>4, <2>5, <2>6 DEF Simulation!SubmitJob, Phases
    <2> QED  BY <2>2, <2>7 DEF Simulation!Next, Simulation!Jobs
  \* time_mgr hands over when no job that is due is left.
  <1>HandsOver. ASSUME MgrType, JobType, SubmittedOK, PostSlurmSem
                PROVE  Simulation!Next
    <2> USE <1>HandsOver
    <2>1. /\ mgr # "wait" /\ mgr' = "wait" /\ ~JobDue /\ UNCHANGED <<current_sim, job_state, start_time>>
        BY DEF PostSlurmSem, job_vars
    <2>2. UNCHANGED Phases  BY <2>1 DEF Phases
    <2>3. /\ NJobs \in Nat /\ trace_head \in 1..NJobs + 1 /\ current_sim \in Nat
          /\ Submit \in [Jobs -> Nat]
        BY LockstepAssumption DEF MgrType
    <2>4. ASSUME NEW j \in Jobs, Submit[j] =< current_sim PROVE Phases[j] # "none"
      <3>1. j < trace_head
        <4> SUFFICES ASSUME ~(j < trace_head) PROVE FALSE
            OBVIOUS
        <4>1. trace_head \in Jobs /\ trace_head =< j /\ trace_head =< NJobs  BY <2>3, SMT DEF Jobs
        <4>2. Submit[trace_head] =< Submit[j]  BY <4>1 DEF TraceOrdered
        <4>3. ~(current_sim >= Submit[trace_head])  BY <4>1, <2>1 DEF JobDue
        <4>4. Submit[trace_head] \in Nat /\ Submit[j] \in Nat  BY <4>1, <2>3
        <4> QED  BY <4>2, <4>3, <4>4, <2>3, <2>4, SMT
      <3>2. job_state[j] # "none"  BY <3>1 DEF SubmittedOK
      <3> QED  BY <3>2, PhaseSays
    <2> QED  BY <2>1, <2>2, <2>4, Visible
  <1> SUFFICES ASSUME Quiet, SubmittedOK, RanOK, [Next]_vars, [Calm]_vars
               PROVE  Simulation!Next \/ UNCHANGED Simulation!vars
      OBVIOUS
  <1> USE DEF mgr_vars, sem_vars, helper_vars, slurmd_vars, job_vars, count_vars,
           sched_vars, bf_vars, rpc_vars, slot_vars, complete_vars, cycle_vars,
           run_vars
  <1>0. Safe /\ timeouts = 0 /\ FlowOK /\ MgrType /\ JobType /\ SubmissionOK
      BY SafeParts DEF Quiet
  <1>s. ASSUME UNCHANGED <<current_sim, job_state, start_time>>, mgr' = "wait" <=> mgr = "wait"
        PROVE  UNCHANGED Simulation!vars
    <2>1. UNCHANGED Phases  BY <1>s DEF Phases
    <2> QED  BY <1>s, <2>1, Visible
  <1>1. CASE UNCHANGED vars
    <2>1. UNCHANGED <<current_sim, job_state, start_time, mgr>>  BY <1>1 DEF vars
    <2> QED  BY <2>1, <1>s
  <1>2. CASE Next /\ Calm
    <2>0. CalmStep  BY <1>0, <1>2, CalmCases
    <2>1. CASE LoopTop \/ generateJob \/ rpc_sim_job \/ rpc_sim_job_uninitialised \/ terminate_simulation
      <3>1. UNCHANGED <<current_sim, job_state, start_time>> /\ mgr' # "wait" /\ mgr # "wait"
          BY <2>1 DEF LoopTop, generateJob, rpc_sim_job, rpc_sim_job_uninitialised, terminate_simulation
      <3> QED  BY <3>1, <1>s
    <2>2. CASE PostSlurmSem  BY <2>2, <1>0, <1>HandsOver
    <2>3. CASE WaitSimSem
      <3>1. /\ mgr = "wait" /\ mgr' = "loop" /\ current_sim' = current_sim + 1
            /\ UNCHANGED <<job_state, start_time>>
          BY <2>3 DEF WaitSimSem
      <3>2. UNCHANGED Phases  BY <3>1 DEF Phases
      <3> QED  BY <3>1, <3>2, Visible
    <2>4. ASSUME NEW j \in Jobs, submit_batch_job(j) PROVE Simulation!Next  BY <2>4, <1>0, <1>Submits
    <2>5. ASSUME NEW j \in Jobs, epilog_complete(j) PROVE Simulation!Next  BY <2>5, <1>Finishes
    <2>6. ASSUME NEW j \in Jobs, CalmStarts(j) PROVE Simulation!Next  BY <2>6, <1>0, <1>Begins
    <2>7. CASE job_complete(0)
      <3>1. /\ complete_job[0] \in Jobs /\ job_state[complete_job[0]] = "RUNNING"
            /\ job_state' = [job_state EXCEPT ![complete_job[0]] = "COMPLETING"]
            /\ UNCHANGED <<mgr, current_sim, start_time>>
          BY <1>0, <2>7, ReportedEnds
      <3>2. Phases' = [Phases EXCEPT ![complete_job[0]] = "running"] /\ Phases[complete_job[0]] = "running"
          BY <3>1, <1>0, PhaseSays, PhaseMoves
      <3>3. Phases' = Phases
        <4>1. Phases = [j \in Jobs |-> Phases[j]]  BY DEF Phases
        <4> QED  BY <3>1, <3>2, <4>1
      <3> QED  BY <3>1, <3>3, Visible
    <2>8. CASE UNCHANGED <<mgr, current_sim, job_state, start_time>>  BY <2>8, <1>s
    <2> QED  BY <2>0, <2>1, <2>2, <2>3, <2>4, <2>5, <2>6, <2>7, <2>8, VisibleWriters
  <1> QED  BY <1>1, <1>2

\* The three programs implement SimSemantics, for every trace that is ordered
\* by submission time and of which no job is refused: while slurmd and
\* slurmctld have the turn jobs finish and start with the clock standing
\* still, and otherwise jobs are submitted and the clock moves.
THEOREM ProgramsImplement ==
  ASSUME Rejected = {}, TraceOrdered
  PROVE  Undisturbed => Implements
  <1>1. Init => Simulation!Init
    <2> SUFFICES ASSUME Init PROVE Simulation!Init
        OBVIOUS
    <2>1. /\ current_sim = 1 /\ mgr = "loop" /\ start_time = [j \in Jobs |-> 0]
          /\ job_state = [j \in Jobs |-> "none"]
        BY DEF Init
    <2>2. Phases = [j \in Jobs |-> "none"]  BY <2>1, PhaseFacts DEF Phases
    <2> QED  BY <2>1, <2>2, Visible
  <1> QED
      BY <1>1, RefinesStep, QuietInvariant, TimesInvariant, PTL
      DEF Undisturbed, Spec, Implements, Simulation!Spec
=============================================================================
