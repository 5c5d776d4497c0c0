---------------------------- MODULE SimLockstep ----------------------------
(***************************************************************************)
(* One simulated second after another: how sim_mgr, the simulated slurmd   *)
(* and slurmctld hand the simulation over to each other.                   *)
(*                                                                         *)
(*   time_mgr (sim_mgr)   submits the jobs that are due, posts slurm_sem,  *)
(*                        waits for sim_sem, advances the clock;           *)
(*   _simulator_helper    (slurmd) waits for slurm_sem, reports the jobs   *)
(*                        that end in this second to slurmctld, waits for  *)
(*                        their epilogs, asks slurmctld for a scheduling   *)
(*                        cycle and posts sim_sem;                         *)
(*   slurmctld            runs a thread per RPC, the backfill agent and    *)
(*                        the background thread; slurmd runs a thread per  *)
(*                        RPC as well.                                     *)
(*                                                                         *)
(* Every RPC is a thread of the callee; a caller that waits for the reply  *)
(* has no step until the callee has replied.  What a thread does between   *)
(* taking and releasing a mutex or the slurmctld locks is one step, except *)
(* for the scheduler, which keeps the locks while it waits for slurmd.     *)
(* Jobs are numbered in the order of the trace and take one node each.     *)
(***************************************************************************)
EXTENDS SimEvents, FiniteSets

CONSTANTS
  NJobs,             \* records of the workload trace
  Submit, Duration,  \* per job: submission time, run time
  Limit,             \* per job: time limit (wclimit)
  Rejected,          \* the jobs slurmctld refuses at submission
  Nodes,             \* number of nodes of the simulated cluster
  SimEndPoint,       \* sim_end_point, 0 when none was given
  BackfillInterval,  \* backfill_interval
  CompleteWait,      \* is CompleteWait configured?
  QueueDepth,        \* default_queue_depth
  SendTries,         \* attempts of the helper to send a message (6 in the code)
  MaxTimeouts,       \* bound: messages of the helper that time out
  MaxClock           \* bound: last simulated second

Jobs  == 1..NJobs
Slots == 0..MaxTimeouts

\* The threads that call schedule(): those of MESSAGE_SIM_HELPER_CYCLE and
\* _sched_agent, of which there is one at most.
Agent   == -1
Callers == Slots \cup {Agent}

ASSUME LockstepAssumption ==
  /\ NJobs \in Nat /\ Nodes \in Nat /\ SimEndPoint \in Nat
  /\ BackfillInterval \in Nat /\ MaxTimeouts \in Nat /\ MaxClock \in Nat
  /\ SendTries \in Nat \ {0}
  /\ CompleteWait \in BOOLEAN
  /\ Submit \in [Jobs -> Nat] /\ Duration \in [Jobs -> Nat] /\ Limit \in [Jobs -> Nat]
  /\ Rejected \subseteq Jobs
  /\ QueueDepth \in Nat /\ NJobs =< QueueDepth + 1

VARIABLES
  \* sim_mgr and the memory and semaphores it shares with the daemons
  mgr,          \* program counter of time_mgr
  trace_head,   \* next job of the trace
  time_end,     \* the end of the simulation was noticed
  current_sim,  \* the simulated clock
  trace_recs_end_sim,
  slurm_sem, sim_sem,
  \* slurmd
  helper,       \* program counter of _simulator_helper
  now, jobs_ended, tries,   \* its local variables
  waiting_epilog_msgs,
  events,       \* head_simulator_event
  completed,    \* head_sim_completed_jobs: ended jobs not yet terminated
  info,         \* head_simulator_event_info: the duration known for a job, or -1
  \* slurmctld
  job_state, start_time,
  total_finished_jobs, arrived_jobs_epilogs, total_epilog_complete_jobs,
  job_sched_cnt,
  last_helper_backfill_time,
  mutex_bf, mutex_bf_done, backfill,
  \* RPC threads.  submit, terminate, epilog and launch are per job;
  \* complete and cycle per message the helper has given up waiting for
  submit, terminate, epilog, launch,
  total_read,   \* register of the epilog thread in total_epilog_complete_jobs++
  complete, complete_job,
  cycle, total_jobs_ended, current_time,
  sched_running, sched_job_limit,
  job_depth,    \* jobs that _sched_agent may still test
  timeouts      \* messages of the helper that have timed out so far

mgr_vars    == <<mgr, trace_head, time_end, current_sim>>
sem_vars    == <<slurm_sem, sim_sem>>
helper_vars == <<helper, now, jobs_ended, tries>>
slurmd_vars == <<waiting_epilog_msgs, events, completed, info>>
job_vars    == <<job_state, start_time>>
count_vars  == <<total_finished_jobs, arrived_jobs_epilogs, total_epilog_complete_jobs, trace_recs_end_sim>>
sched_vars  == <<job_sched_cnt, last_helper_backfill_time>>
bf_vars     == <<mutex_bf, mutex_bf_done, backfill>>
rpc_vars    == <<submit, terminate, epilog, total_read, launch>>
complete_vars == <<complete, complete_job>>
run_vars    == <<sched_running, sched_job_limit>>
cycle_vars  == <<cycle, total_jobs_ended, current_time, run_vars>>
slot_vars   == <<complete_vars, cycle_vars, timeouts, job_depth>>
vars == <<mgr_vars, sem_vars, helper_vars, slurmd_vars, job_vars, count_vars,
          sched_vars, bf_vars, rpc_vars, slot_vars>>

TypeOK ==
  /\ mgr \in {"loop", "trace", "submitting", "sim_job", "bad_sim_job", "wait", "exited"}
  /\ trace_head \in 1..NJobs + 1
  /\ time_end \in BOOLEAN
  /\ current_sim \in Nat /\ now \in Nat
  /\ trace_recs_end_sim \in {NJobs, -1}
  /\ slurm_sem \in Nat /\ sim_sem \in Nat /\ mutex_bf \in Nat /\ mutex_bf_done \in Nat
  /\ helper \in {"sleep", "scan", "complete", "epilogs", "cycle", "dead"}
  /\ jobs_ended \in Nat /\ tries \in Nat
  /\ waiting_epilog_msgs \in Int
  /\ events \in Seq(Event(Jobs))
  /\ completed \subseteq Jobs
  /\ info \in [Jobs -> Nat \cup {-1}]
  /\ job_state \in [Jobs -> {"none", "PENDING", "RUNNING", "COMPLETING", "DONE"}]
  /\ start_time \in [Jobs -> Nat]
  /\ total_finished_jobs \in Nat /\ arrived_jobs_epilogs \in Nat
  /\ total_epilog_complete_jobs \in Nat /\ total_read \in [Jobs -> Nat]
  /\ job_sched_cnt \in Nat /\ last_helper_backfill_time \in Nat
  /\ backfill \in {"sleep", "lock", "run"}
  /\ submit \in [Jobs -> {"none", "arrived", "queue"}]
  /\ terminate \in [Jobs -> {"none", "queued", "killed", "epilog", "replied"}]
  /\ epilog \in [Jobs -> {"none", "arrived", "queue", "reply", "count", "read", "write"}]
  /\ launch \in [Jobs -> {"none", "arrived", "add"}]
  /\ complete \in [Slots -> {"none", "arrived", "lock", "reply"}]
  /\ complete_job \in [Slots -> Jobs \cup {0}]
  /\ cycle \in [Callers -> {"none", "finished", "epilogs", "sched", "reset", "wait", "call", "go",
                            "defer", "lock", "schedule", "fini", "clear", "bf", "bf_wait", "reply"}]
  /\ sched_running \in BOOLEAN /\ sched_job_limit \in Int /\ job_depth \in Int
  /\ total_jobs_ended \in [Slots -> Nat] /\ current_time \in [Slots -> Nat]
  /\ timeouts \in Slots

\* The daemons are up and slurmd has registered.  The clock starts at
\* sim_start_point, which is never 0.
Init ==
  /\ mgr = "loop" /\ trace_head = 1 /\ time_end = FALSE /\ current_sim = 1
  /\ trace_recs_end_sim = NJobs
  /\ slurm_sem = 0 /\ sim_sem = 0
  /\ helper = "sleep" /\ now = 0 /\ jobs_ended = 0 /\ tries = 0
  /\ waiting_epilog_msgs = 0 /\ events = <<>> /\ completed = {}
  /\ info = [j \in Jobs |-> -1]
  /\ job_state = [j \in Jobs |-> "none"] /\ start_time = [j \in Jobs |-> 0]
  /\ total_finished_jobs = 0 /\ arrived_jobs_epilogs = 0
  /\ total_epilog_complete_jobs = 0 /\ total_read = [j \in Jobs |-> 0]
  /\ job_sched_cnt = 0 /\ last_helper_backfill_time = 0
  /\ mutex_bf = 0 /\ mutex_bf_done = 0 /\ backfill = "sleep"
  /\ submit = [j \in Jobs |-> "none"] /\ terminate = [j \in Jobs |-> "none"]
  /\ epilog = [j \in Jobs |-> "none"] /\ launch = [j \in Jobs |-> "none"]
  /\ complete = [k \in Slots |-> "none"] /\ complete_job = [k \in Slots |-> 0]
  /\ cycle = [t \in Callers |-> "none"]
  /\ sched_running = FALSE /\ sched_job_limit = -1 /\ job_depth = 0
  /\ total_jobs_ended = [k \in Slots |-> 0] /\ current_time = [k \in Slots |-> 0]
  /\ timeouts = 0

-----------------------------------------------------------------------------
(* sim_mgr: time_mgr and generateJob                                       *)

EndReached == \/ SimEndPoint # 0 /\ SimEndPoint =< current_sim
              \/ trace_recs_end_sim = -1

\* Top of the loop; at MaxClock no further second is simulated.
LoopTop ==
  /\ mgr = "loop"
  /\ time_end' = (time_end \/ EndReached)
  /\ mgr' = IF current_sim < MaxClock THEN "trace" ELSE "loop"
  /\ UNCHANGED <<trace_head, current_sim, sem_vars, helper_vars, slurmd_vars, job_vars,
                 count_vars, sched_vars, bf_vars, rpc_vars, slot_vars>>

\* More than 20 real seconds after time_end was set.
terminate_simulation ==
  /\ mgr = "loop" /\ time_end
  /\ mgr' = "exited"
  /\ UNCHANGED <<trace_head, time_end, current_sim, sem_vars, helper_vars, slurmd_vars,
                 job_vars, count_vars, sched_vars, bf_vars, rpc_vars, slot_vars>>

JobDue == trace_head =< NJobs /\ current_sim >= Submit[trace_head]

\* generateJob calls slurm_submit_batch_job ...
generateJob ==
  /\ mgr = "trace" /\ JobDue
  /\ mgr' = "submitting"
  /\ submit' = [submit EXCEPT ![trace_head] = "arrived"]
  /\ UNCHANGED <<trace_head, time_end, current_sim, sem_vars, helper_vars, slurmd_vars,
                 job_vars, count_vars, sched_vars, bf_vars, terminate, epilog, total_read,
                 launch, slot_vars>>

\* ... and tells slurmd the duration: _rpc_sim_job puts the entry in front
\* of the list or updates the front, so the latest duration is the one found.
rpc_sim_job ==
  /\ mgr = "sim_job"
  /\ mgr' = "trace" /\ trace_head' = trace_head + 1
  /\ info' = [info EXCEPT ![trace_head] = Duration[trace_head]]
  /\ UNCHANGED <<time_end, current_sim, sem_vars, helper_vars, waiting_epilog_msgs, events,
                 completed, job_vars, count_vars, sched_vars, bf_vars, rpc_vars, slot_vars>>

\* After a refused submission the reply was never filled in: the job id in
\* the message is whatever the stack held, the id of a job included.
rpc_sim_job_uninitialised ==
  /\ mgr = "bad_sim_job"
  /\ mgr' = "trace" /\ trace_head' = trace_head + 1
  /\ \/ UNCHANGED info
     \/ \E j \in Jobs : info' = [info EXCEPT ![j] = Duration[trace_head]]
  /\ UNCHANGED <<time_end, current_sim, sem_vars, helper_vars, waiting_epilog_msgs, events,
                 completed, job_vars, count_vars, sched_vars, bf_vars, rpc_vars, slot_vars>>

\* Mutant of PostSlurmSem: time_mgr goes on without waiting.
PostSlurmSemNoWait ==
  /\ mgr = "trace" /\ ~JobDue
  /\ mgr' = "loop" /\ slurm_sem' = slurm_sem + 1
  /\ UNCHANGED <<trace_head, time_end, current_sim, sim_sem, helper_vars, slurmd_vars,
                 job_vars, count_vars, sched_vars, bf_vars, rpc_vars, slot_vars>>

PostSlurmSem ==
  /\ mgr = "trace" /\ ~JobDue
  /\ mgr' = "wait"
  /\ slurm_sem' = slurm_sem + 1
  /\ UNCHANGED <<trace_head, time_end, current_sim, sim_sem, helper_vars, slurmd_vars,
                 job_vars, count_vars, sched_vars, bf_vars, rpc_vars, slot_vars>>

WaitSimSem ==
  /\ mgr = "wait" /\ sim_sem > 0
  /\ sim_sem' = sim_sem - 1
  /\ current_sim' = current_sim + 1
  /\ mgr' = "loop"
  /\ UNCHANGED <<trace_head, time_end, slurm_sem, helper_vars, slurmd_vars, job_vars,
                 count_vars, sched_vars, bf_vars, rpc_vars, slot_vars>>

time_mgr == LoopTop \/ generateJob \/ rpc_sim_job \/ rpc_sim_job_uninitialised
            \/ PostSlurmSem \/ WaitSimSem

-----------------------------------------------------------------------------
(* slurmd: _simulator_helper                                               *)

WaitSlurmSem ==
  /\ helper = "sleep" /\ slurm_sem > 0
  /\ slurm_sem' = slurm_sem - 1
  /\ helper' = "scan" /\ jobs_ended' = 0 /\ now' = current_sim
  /\ UNCHANGED <<mgr_vars, sim_sem, tries, slurmd_vars, job_vars, count_vars, sched_vars,
                 bf_vars, rpc_vars, slot_vars>>

EventDue == events # <<>> /\ now >= Head(events).when

\* The mutex is released while the message is sent.
EndJob ==
  /\ helper = "scan" /\ EventDue
  /\ events' = Tail(events)
  /\ completed' = completed \cup {Head(events).job}
  /\ helper' = "complete" /\ tries' = 1
  /\ complete' = [complete EXCEPT ![timeouts] = "arrived"]
  /\ complete_job' = [complete_job EXCEPT ![timeouts] = Head(events).job]
  /\ UNCHANGED <<mgr_vars, sem_vars, now, jobs_ended, waiting_epilog_msgs, info, job_vars,
                 count_vars, sched_vars, bf_vars, rpc_vars, cycle_vars, timeouts, job_depth>>

\* Mutant of SendCycle: sim_sem is posted before the cycle has been run.
SendCycleAsync ==
  /\ helper' = "sleep" /\ sim_sem' = sim_sem + 1
  /\ cycle' = [cycle EXCEPT ![timeouts] = "finished"]
  /\ total_jobs_ended' = [total_jobs_ended EXCEPT ![timeouts] = jobs_ended]
  /\ UNCHANGED <<current_time, run_vars>>
  /\ UNCHANGED <<mgr_vars, slurm_sem, now, jobs_ended, tries, slurmd_vars, job_vars, count_vars,
                 sched_vars, bf_vars, rpc_vars, complete_vars, timeouts, job_depth>>

SendCycle ==
  /\ helper' = "cycle" /\ tries' = 1
  /\ cycle' = [cycle EXCEPT ![timeouts] = "finished"]
  /\ total_jobs_ended' = [total_jobs_ended EXCEPT ![timeouts] = jobs_ended]
  /\ UNCHANGED <<current_time, run_vars>>
  /\ UNCHANGED <<mgr_vars, sem_vars, now, jobs_ended, slurmd_vars, job_vars, count_vars,
                 sched_vars, bf_vars, rpc_vars, complete_vars, timeouts, job_depth>>

NoJobEnded == helper = "scan" /\ ~EventDue /\ jobs_ended = 0 /\ SendCycle

AllJobsEnded ==
  /\ helper = "scan" /\ ~EventDue /\ jobs_ended > 0
  /\ helper' = "epilogs"
  /\ UNCHANGED <<mgr_vars, sem_vars, now, jobs_ended, tries, slurmd_vars, job_vars, count_vars,
                 sched_vars, bf_vars, rpc_vars, slot_vars>>

EpilogsFinished == helper = "epilogs" /\ waiting_epilog_msgs = 0 /\ SendCycle

simulator_helper == WaitSlurmSem \/ EndJob \/ NoJobEnded \/ AllJobsEnded \/ EpilogsFinished

\* slurm_send_recv_controller_rc_msg fails: either slurmctld never got the
\* message, or its thread goes on and nobody reads the reply.
Expired(at, fresh) == {at} \cup (IF at = fresh THEN {"none"} ELSE {})

MessageTimesOut ==
  /\ helper \in {"complete", "cycle"}
  /\ timeouts < MaxTimeouts
  /\ timeouts' = timeouts + 1
  /\ UNCHANGED <<mgr_vars, slurm_sem, now, jobs_ended, slurmd_vars, job_vars, count_vars,
                 sched_vars, bf_vars, rpc_vars, job_depth>>

RetryComplete ==
  /\ MessageTimesOut
  /\ helper = "complete" /\ tries < SendTries
  /\ tries' = tries + 1
  /\ \E old \in Expired(complete[timeouts], "arrived") :
       complete' = [complete EXCEPT ![timeouts] = old, ![timeouts + 1] = "arrived"]
  /\ complete_job' = [complete_job EXCEPT ![timeouts + 1] = complete_job[timeouts]]
  /\ UNCHANGED <<helper, sim_sem, cycle_vars>>

\* The thread exits and sim_sem is never posted again.
GiveUpComplete ==
  /\ MessageTimesOut
  /\ helper = "complete" /\ tries = SendTries
  /\ helper' = "dead"
  /\ \E old \in Expired(complete[timeouts], "arrived") :
       complete' = [complete EXCEPT ![timeouts] = old]
  /\ UNCHANGED <<tries, sim_sem, complete_job, cycle_vars>>

RetryCycle ==
  /\ MessageTimesOut
  /\ helper = "cycle" /\ tries < SendTries
  /\ tries' = tries + 1
  /\ \E old \in Expired(cycle[timeouts], "finished") :
       cycle' = [cycle EXCEPT ![timeouts] = old, ![timeouts + 1] = "finished"]
  /\ total_jobs_ended' = [total_jobs_ended EXCEPT ![timeouts + 1] = jobs_ended]
  /\ UNCHANGED <<helper, sim_sem, complete_vars, current_time, run_vars>>

\* The return code is ignored.
GiveUpCycle ==
  /\ MessageTimesOut
  /\ helper = "cycle" /\ tries = SendTries
  /\ helper' = "sleep" /\ sim_sem' = sim_sem + 1
  /\ \E old \in Expired(cycle[timeouts], "finished") :
       cycle' = [cycle EXCEPT ![timeouts] = old]
  /\ UNCHANGED <<tries, complete_vars, total_jobs_ended, current_time, run_vars>>

-----------------------------------------------------------------------------
(* RPC threads of slurmctld                                                *)

\* The scheduler and the backfill agent keep the job write lock while they
\* start jobs; every other critical section is a single step.
LockFree == backfill # "run" /\ \A t \in Callers : cycle[t] # "schedule"

\* The id is sent back before the scheduler is asked to run.
submit_batch_job(j) ==
  /\ submit[j] = "arrived" /\ LockFree
  /\ IF j \in Rejected
     THEN /\ submit' = [submit EXCEPT ![j] = "none"]
          /\ mgr' = "bad_sim_job"
          /\ UNCHANGED job_state
     ELSE /\ submit' = [submit EXCEPT ![j] = "queue"]
          /\ mgr' = "sim_job"
          /\ job_state' = [job_state EXCEPT ![j] = "PENDING"]
  /\ UNCHANGED <<trace_head, time_end, current_sim, sem_vars, helper_vars, slurmd_vars,
                 start_time, count_vars, sched_vars, bf_vars, terminate, epilog, total_read,
                 launch, slot_vars>>

SubmitQueuesScheduler(j) ==
  /\ submit[j] = "queue"
  /\ submit' = [submit EXCEPT ![j] = "none"]
  /\ job_sched_cnt' = job_sched_cnt + 1
  /\ UNCHANGED <<mgr_vars, sem_vars, helper_vars, slurmd_vars, job_vars, count_vars,
                 last_helper_backfill_time, bf_vars, terminate, epilog, total_read, launch,
                 slot_vars>>

\* _slurm_rpc_complete_batch_script counts every message that arrives.
complete_batch_script(k) ==
  /\ complete[k] = "arrived"
  /\ complete' = [complete EXCEPT ![k] = "lock"]
  /\ total_finished_jobs' = total_finished_jobs + 1
  /\ UNCHANGED <<mgr_vars, sem_vars, helper_vars, slurmd_vars, job_vars, arrived_jobs_epilogs,
                 total_epilog_complete_jobs, trace_recs_end_sim, sched_vars, bf_vars, rpc_vars,
                 complete_job, cycle_vars, timeouts, job_depth>>

\* A job that is finished or already completing is left alone; a running
\* one loses its nodes, and the agent is given a terminate request.
job_complete(k) ==
  /\ complete[k] = "lock" /\ LockFree
  /\ complete' = [complete EXCEPT ![k] = "reply"]
  /\ LET j == complete_job[k] IN
       IF job_state[j] = "RUNNING"
       THEN /\ job_state' = [job_state EXCEPT ![j] = "COMPLETING"]
            /\ terminate' = [terminate EXCEPT ![j] = "queued"]
       ELSE UNCHANGED <<job_state, terminate>>
  /\ UNCHANGED <<mgr_vars, sem_vars, helper_vars, slurmd_vars, start_time, count_vars,
                 sched_vars, bf_vars, submit, epilog, total_read, launch, complete_job,
                 cycle_vars, timeouts, job_depth>>

\* Any of the return codes job_complete gives counts as success.
CompleteReplies(k) ==
  /\ complete[k] = "reply"
  /\ complete' = [complete EXCEPT ![k] = "none"]
  /\ complete_job' = [complete_job EXCEPT ![k] = 0]
  /\ IF k = timeouts
     THEN /\ helper' = "scan"
          /\ waiting_epilog_msgs' = waiting_epilog_msgs + 1
          /\ jobs_ended' = jobs_ended + 1
     ELSE UNCHANGED <<helper, waiting_epilog_msgs, jobs_ended>>
  /\ UNCHANGED <<mgr_vars, sem_vars, now, tries, events, completed, info, job_vars, count_vars,
                 sched_vars, bf_vars, rpc_vars, cycle_vars, timeouts, job_depth>>

\* Mutant of epilog_complete: the job keeps its node.
epilog_completeKeepsNode(j) ==
  /\ epilog[j] = "arrived" /\ LockFree
  /\ epilog' = [epilog EXCEPT ![j] = "queue"]
  /\ UNCHANGED <<mgr_vars, sem_vars, helper_vars, slurmd_vars, job_vars, count_vars,
                 sched_vars, bf_vars, submit, terminate, total_read, launch, slot_vars>>

epilog_complete(j) ==
  /\ epilog[j] = "arrived" /\ LockFree
  /\ epilog' = [epilog EXCEPT ![j] = "queue"]
  /\ job_state' = [job_state EXCEPT ![j] = "DONE"]
  /\ UNCHANGED <<mgr_vars, sem_vars, helper_vars, slurmd_vars, start_time, count_vars,
                 sched_vars, bf_vars, submit, terminate, total_read, launch, slot_vars>>

EpilogQueuesScheduler(j) ==
  /\ epilog[j] = "queue"
  /\ epilog' = [epilog EXCEPT ![j] = "reply"]
  /\ job_sched_cnt' = job_sched_cnt + 1
  /\ UNCHANGED <<mgr_vars, sem_vars, helper_vars, slurmd_vars, job_vars, count_vars,
                 last_helper_backfill_time, bf_vars, submit, terminate, total_read, launch,
                 slot_vars>>

\* Only the terminate thread of an ended job waits for the reply.
EpilogReplies(j) ==
  /\ epilog[j] = "reply"
  /\ epilog' = [epilog EXCEPT ![j] = "count"]
  /\ terminate' = [terminate EXCEPT ![j] = IF @ = "epilog" THEN "replied" ELSE @]
  /\ UNCHANGED <<mgr_vars, sem_vars, helper_vars, slurmd_vars, job_vars, count_vars,
                 sched_vars, bf_vars, submit, total_read, launch, slot_vars>>

EpilogCounts(j) ==
  /\ epilog[j] = "count"
  /\ epilog' = [epilog EXCEPT ![j] = "read"]
  /\ arrived_jobs_epilogs' = arrived_jobs_epilogs + 1
  /\ UNCHANGED <<mgr_vars, sem_vars, helper_vars, slurmd_vars, job_vars, total_finished_jobs,
                 total_epilog_complete_jobs, trace_recs_end_sim, sched_vars, bf_vars, submit,
                 terminate, total_read, launch, slot_vars>>

\* total_epilog_complete_jobs++ is not protected by any lock.
EpilogReadsTotal(j) ==
  /\ epilog[j] = "read"
  /\ epilog' = [epilog EXCEPT ![j] = "write"]
  /\ total_read' = [total_read EXCEPT ![j] = total_epilog_complete_jobs]
  /\ UNCHANGED <<mgr_vars, sem_vars, helper_vars, slurmd_vars, job_vars, count_vars,
                 sched_vars, bf_vars, submit, terminate, launch, slot_vars>>

EpilogWritesTotal(j) ==
  /\ epilog[j] = "write"
  /\ epilog' = [epilog EXCEPT ![j] = "none"]
  /\ total_epilog_complete_jobs' = total_read[j] + 1
  /\ total_read' = [total_read EXCEPT ![j] = 0]
  /\ UNCHANGED <<mgr_vars, sem_vars, helper_vars, slurmd_vars, job_vars, total_finished_jobs,
                 arrived_jobs_epilogs, trace_recs_end_sim, sched_vars, bf_vars, submit,
                 terminate, launch, slot_vars>>

-----------------------------------------------------------------------------
(* RPC threads of slurmd                                                   *)

\* The terminate request is answered first and then waits for nobody but
\* the epilog.  A job that is not in the list of ended jobs gets no epilog.
simulator_rpc_terminate_job(j) ==
  /\ terminate[j] = "queued"
  /\ completed' = completed \ {j}
  /\ IF j \in completed
     THEN /\ terminate' = [terminate EXCEPT ![j] = "epilog"]
          /\ epilog' = [epilog EXCEPT ![j] = "arrived"]
     ELSE terminate' = [terminate EXCEPT ![j] = "none"] /\ UNCHANGED epilog
  /\ UNCHANGED <<mgr_vars, sem_vars, helper_vars, waiting_epilog_msgs, events, info, job_vars,
                 count_vars, sched_vars, bf_vars, submit, total_read, launch, slot_vars>>

TerminateFinishes(j) ==
  /\ terminate[j] = "replied"
  /\ terminate' = [terminate EXCEPT ![j] = "none"]
  /\ waiting_epilog_msgs' = waiting_epilog_msgs - 1
  /\ UNCHANGED <<mgr_vars, sem_vars, helper_vars, events, completed, info, job_vars, count_vars,
                 sched_vars, bf_vars, submit, epilog, total_read, launch, slot_vars>>

\* REQUEST_KILL_TIMELIMIT is served by the code of the real slurmd: the job
\* has no step to kill, the epilog message is sent and no reply awaited.
rpc_timelimit(j) ==
  /\ terminate[j] = "killed"
  /\ terminate' = [terminate EXCEPT ![j] = "none"]
  /\ epilog' = [epilog EXCEPT ![j] = "arrived"]
  /\ UNCHANGED <<mgr_vars, sem_vars, helper_vars, slurmd_vars, job_vars, count_vars,
                 sched_vars, bf_vars, submit, total_read, launch, slot_vars>>

\* The launch request is answered before the completion is entered.
simulator_rpc_batch_job(j) ==
  /\ launch[j] = "arrived"
  /\ launch' = [launch EXCEPT ![j] = "add"]
  /\ UNCHANGED <<mgr_vars, sem_vars, helper_vars, slurmd_vars, job_vars, count_vars,
                 sched_vars, bf_vars, submit, terminate, epilog, total_read, slot_vars>>

\* Mutant of AddEvent: the job is taken to run from its submission on.
AddEventFromSubmit(j) ==
  /\ launch[j] = "add"
  /\ launch' = [launch EXCEPT ![j] = "none"]
  /\ events' = simulator_add_future_event(events, [job |-> j, when |-> Submit[j] + info[j]])
  /\ UNCHANGED <<mgr_vars, sem_vars, helper_vars, waiting_epilog_msgs, completed, info, job_vars,
                 count_vars, sched_vars, bf_vars, submit, terminate, epilog, total_read, slot_vars>>

AddEvent(j) ==
  /\ launch[j] = "add"
  /\ launch' = [launch EXCEPT ![j] = "none"]
  /\ events' = IF info[j] = -1 THEN events
               ELSE simulator_add_future_event(events, [job |-> j, when |-> current_sim + info[j]])
  /\ UNCHANGED <<mgr_vars, sem_vars, helper_vars, waiting_epilog_msgs, completed, info, job_vars,
                 count_vars, sched_vars, bf_vars, submit, terminate, epilog, total_read, slot_vars>>

-----------------------------------------------------------------------------
(* slurmctld: _slurm_rpc_sim_helper_cycle, the scheduler, backfill         *)

IdleNode == Cardinality({j \in Jobs : job_state[j] \in {"RUNNING", "COMPLETING"}}) < Nodes

\* Jobs are started in order until a request fails; with one node per job
\* the first failure means that no node is left.
Startable(j) ==
  /\ job_state[j] = "PENDING" /\ IdleNode
  /\ \A i \in Jobs : job_state[i] = "PENDING" => j =< i

\* launch_job sends the launch request and waits for the answer of slurmd.
Launching == \E j \in Jobs : launch[j] = "arrived"

StartJob(j) ==
  /\ Startable(j) /\ ~Launching
  /\ job_state' = [job_state EXCEPT ![j] = "RUNNING"]
  /\ start_time' = [start_time EXCEPT ![j] = current_sim]
  /\ launch' = [launch EXCEPT ![j] = "arrived"]
  /\ UNCHANGED <<mgr_vars, sem_vars, helper_vars, slurmd_vars, count_vars, sched_vars, bf_vars,
                 submit, terminate, epilog, total_read, complete_vars, cycle_vars, timeouts>>

NothingToStart == ~Launching /\ \A j \in Jobs : ~Startable(j)

\* A thread goes from one point of the handler to the next.
Moves(t, from, to) ==
  /\ cycle[t] = from /\ cycle' = [cycle EXCEPT ![t] = to]
  /\ UNCHANGED <<total_jobs_ended, current_time>>

At(t, from, to) == Moves(t, from, to) /\ UNCHANGED run_vars

CompletedJobsArrived(k) ==
  /\ At(k, "finished", "epilogs")
  /\ total_finished_jobs = total_jobs_ended[k]
  /\ total_finished_jobs' = 0
  /\ UNCHANGED <<mgr_vars, sem_vars, helper_vars, slurmd_vars, job_vars, arrived_jobs_epilogs,
                 total_epilog_complete_jobs, trace_recs_end_sim, sched_vars, bf_vars, rpc_vars,
                 complete_vars, timeouts, job_depth>>

\* Mutant of EpilogsArrived: the counter is not reset for the next cycle.
EpilogsArrivedNoReset(k) ==
  /\ At(k, "epilogs", "sched")
  /\ arrived_jobs_epilogs >= total_jobs_ended[k]
  /\ UNCHANGED <<mgr_vars, sem_vars, helper_vars, slurmd_vars, job_vars, count_vars, sched_vars,
                 bf_vars, rpc_vars, complete_vars, timeouts, job_depth>>

EpilogsArrived(k) ==
  /\ At(k, "epilogs", "sched")
  /\ arrived_jobs_epilogs = total_jobs_ended[k]
  /\ arrived_jobs_epilogs' = 0
  /\ UNCHANGED <<mgr_vars, sem_vars, helper_vars, slurmd_vars, job_vars, total_finished_jobs,
                 total_epilog_complete_jobs, trace_recs_end_sim, sched_vars, bf_vars, rpc_vars,
                 complete_vars, timeouts, job_depth>>

get_scheduler_cnt(k) ==
  /\ cycle[k] = "sched"
  /\ cycle' = [cycle EXCEPT ![k] = IF job_sched_cnt > 0 THEN "reset" ELSE "bf"]
  /\ current_time' = [current_time EXCEPT ![k] = current_sim]
  /\ UNCHANGED <<total_jobs_ended, run_vars>>
  /\ UNCHANGED <<mgr_vars, sem_vars, helper_vars, slurmd_vars, job_vars, count_vars, sched_vars,
                 bf_vars, rpc_vars, complete_vars, timeouts, job_depth>>

\* Mutant of reset_scheduler_cnt: the request stays.
reset_scheduler_cntKeeps(k) ==
  /\ At(k, "reset", "call")
  /\ UNCHANGED <<mgr_vars, sem_vars, helper_vars, slurmd_vars, job_vars, count_vars, sched_vars,
                 bf_vars, rpc_vars, complete_vars, timeouts, job_depth>>

reset_scheduler_cnt(k) ==
  /\ At(k, "reset", "call")
  /\ job_sched_cnt' = 0
  /\ UNCHANGED <<mgr_vars, sem_vars, helper_vars, slurmd_vars, job_vars, count_vars,
                 last_helper_backfill_time, bf_vars, rpc_vars, complete_vars, timeouts, job_depth>>

\* schedule().  Simulated microseconds pass with every call of gettimeofday,
\* so delta_t is too small only when the scheduler is running; reading the
\* time and reading sched_running are taken as one step.
ScheduleChecks(t) ==
  /\ At(t, "call", IF sched_running THEN "defer" ELSE "go")
  /\ UNCHANGED <<mgr_vars, sem_vars, helper_vars, slurmd_vars, job_vars, count_vars, sched_vars,
                 bf_vars, rpc_vars, complete_vars, timeouts, job_depth>>

\* _sched_agent asks for a depth of 1, the cycle for the default depth.
NewJobLimit(t) ==
  IF sched_job_limit = 0 \/ t # Agent THEN 0
  ELSE IF sched_job_limit = -1 THEN 1 ELSE sched_job_limit + 1

\* Limit n lets n + 1 jobs be tested; the default depth is never reached.
ScheduleBegins(t) ==
  /\ Moves(t, "go", "lock")
  /\ sched_running' = TRUE /\ sched_job_limit' = -1
  /\ job_depth' = IF t # Agent THEN job_depth
                  ELSE IF NewJobLimit(t) = 0 THEN QueueDepth + 1 ELSE NewJobLimit(t) + 1
  /\ UNCHANGED <<mgr_vars, sem_vars, helper_vars, slurmd_vars, job_vars, count_vars, sched_vars,
                 bf_vars, rpc_vars, complete_vars, timeouts>>

After(t) == IF t = Agent THEN "clear" ELSE "bf"

ScheduleDefers(t) ==
  /\ cycle[t] = "defer"
  /\ cycle' = [cycle EXCEPT ![t] = After(t), ![Agent] = IF @ = "none" THEN "wait" ELSE @]
  /\ sched_job_limit' = NewJobLimit(t)
  /\ UNCHANGED <<total_jobs_ended, current_time, sched_running>>
  /\ UNCHANGED <<mgr_vars, sem_vars, helper_vars, slurmd_vars, job_vars, count_vars, sched_vars,
                 bf_vars, rpc_vars, complete_vars, timeouts, job_depth>>

\* _schedule() takes the locks; with CompleteWait it returns at once while
\* some job has been completing for less than that time.
schedule(t) ==
  /\ LockFree
  /\ \/ At(t, "lock", "schedule")
     \/ /\ CompleteWait /\ \E j \in Jobs : job_state[j] = "COMPLETING"
        /\ At(t, "lock", "fini")
  /\ UNCHANGED <<mgr_vars, sem_vars, helper_vars, slurmd_vars, job_vars, count_vars, sched_vars,
                 bf_vars, rpc_vars, complete_vars, timeouts, job_depth>>

DepthLeft(t) == t = Agent => job_depth > 0

ScheduleStarts(t, j) ==
  /\ cycle[t] = "schedule" /\ DepthLeft(t) /\ StartJob(j)
  /\ job_depth' = IF t = Agent THEN job_depth - 1 ELSE job_depth

ScheduleReturns(t) ==
  /\ At(t, "schedule", "fini")
  /\ NothingToStart \/ (~DepthLeft(t) /\ ~Launching)
  /\ UNCHANGED <<mgr_vars, sem_vars, helper_vars, slurmd_vars, job_vars, count_vars, sched_vars,
                 bf_vars, rpc_vars, complete_vars, timeouts, job_depth>>

ScheduleEnds(t) ==
  /\ Moves(t, "fini", After(t))
  /\ sched_running' = FALSE /\ UNCHANGED sched_job_limit
  /\ UNCHANGED <<mgr_vars, sem_vars, helper_vars, slurmd_vars, job_vars, count_vars, sched_vars,
                 bf_vars, rpc_vars, complete_vars, timeouts, job_depth>>

Scheduler(t) ==
  \/ ScheduleChecks(t) \/ ScheduleBegins(t) \/ ScheduleDefers(t) \/ schedule(t)
  \/ (\E j \in Jobs : ScheduleStarts(t, j)) \/ ScheduleReturns(t) \/ ScheduleEnds(t)

\* _sched_agent waits until the scheduler is not running, calls schedule(1)
\* and clears sched_pend_thread.
AgentWakes ==
  /\ At(Agent, "wait", "call") /\ ~sched_running
  /\ UNCHANGED <<mgr_vars, sem_vars, helper_vars, slurmd_vars, job_vars, count_vars, sched_vars,
                 bf_vars, rpc_vars, complete_vars, timeouts, job_depth>>

AgentExits ==
  /\ At(Agent, "clear", "none")
  /\ UNCHANGED <<mgr_vars, sem_vars, helper_vars, slurmd_vars, job_vars, count_vars, sched_vars,
                 bf_vars, rpc_vars, complete_vars, timeouts, job_depth>>

sched_agent == AgentWakes \/ Scheduler(Agent) \/ AgentExits

BackfillDue(k) ==
  \/ last_helper_backfill_time = 0
  \/ current_time[k] - last_helper_backfill_time > BackfillInterval

\* Mutant of do_backfill: the requests are reset after scheduling.
do_backfillResets(k) ==
  /\ \/ /\ BackfillDue(k) /\ At(k, "bf", "bf_wait")
        /\ mutex_bf' = mutex_bf + 1
     \/ /\ ~BackfillDue(k) /\ At(k, "bf", "reply")
        /\ UNCHANGED mutex_bf
  /\ job_sched_cnt' = 0
  /\ UNCHANGED <<mgr_vars, sem_vars, helper_vars, slurmd_vars, job_vars, count_vars,
                 last_helper_backfill_time, mutex_bf_done, backfill, rpc_vars, complete_vars, timeouts, job_depth>>

do_backfill(k) ==
  /\ \/ /\ BackfillDue(k) /\ At(k, "bf", "bf_wait")
        /\ mutex_bf' = mutex_bf + 1
     \/ /\ ~BackfillDue(k) /\ At(k, "bf", "reply")
        /\ UNCHANGED mutex_bf
  /\ UNCHANGED <<mgr_vars, sem_vars, helper_vars, slurmd_vars, job_vars, count_vars, sched_vars,
                 mutex_bf_done, backfill, rpc_vars, complete_vars, timeouts, job_depth>>

BackfillWaited(k) ==
  /\ mutex_bf_done > 0 /\ At(k, "bf_wait", "reply")
  /\ mutex_bf_done' = mutex_bf_done - 1
  /\ last_helper_backfill_time' = current_time[k]
  /\ UNCHANGED <<mgr_vars, sem_vars, helper_vars, slurmd_vars, job_vars, count_vars,
                 job_sched_cnt, mutex_bf, backfill, rpc_vars, complete_vars, timeouts, job_depth>>

\* The helper gets its reply and posts sim_sem.
CycleReplies(k) ==
  /\ cycle[k] = "reply"
  /\ cycle' = [cycle EXCEPT ![k] = "none"]
  /\ total_jobs_ended' = [total_jobs_ended EXCEPT ![k] = 0]
  /\ current_time' = [current_time EXCEPT ![k] = 0]
  /\ UNCHANGED run_vars
  /\ IF k = timeouts THEN helper' = "sleep" /\ sim_sem' = sim_sem + 1
                     ELSE UNCHANGED <<helper, sim_sem>>
  /\ UNCHANGED <<mgr_vars, slurm_sem, now, jobs_ended, tries, slurmd_vars, job_vars, count_vars,
                 sched_vars, bf_vars, rpc_vars, complete_vars, timeouts, job_depth>>

sim_helper_cycle(k) ==
  \/ CompletedJobsArrived(k) \/ EpilogsArrived(k) \/ get_scheduler_cnt(k)
  \/ reset_scheduler_cnt(k) \/ Scheduler(k) \/ do_backfill(k) \/ BackfillWaited(k)
  \/ CycleReplies(k)

\* backfill_agent.  It skips the attempt when jobs are completing, RPCs are
\* pending, no front end is up or nothing changed since the last attempt.
BackfillWakes ==
  /\ backfill = "sleep" /\ mutex_bf > 0
  /\ mutex_bf' = mutex_bf - 1
  /\ \/ backfill' = "lock" /\ UNCHANGED mutex_bf_done
     \/ mutex_bf_done' = mutex_bf_done + 1 /\ UNCHANGED backfill
  /\ UNCHANGED <<mgr_vars, sem_vars, helper_vars, slurmd_vars, job_vars, count_vars, sched_vars,
                 rpc_vars, slot_vars>>

BackfillLocks ==
  /\ backfill = "lock" /\ LockFree
  /\ backfill' = "run"
  /\ UNCHANGED <<mgr_vars, sem_vars, helper_vars, slurmd_vars, job_vars, count_vars, sched_vars,
                 mutex_bf, mutex_bf_done, rpc_vars, slot_vars>>

\* An attempt may end early, at one of the bf_max_* limits.
BackfillStarts(j) == backfill = "run" /\ StartJob(j) /\ UNCHANGED job_depth

\* Mutant of BackfillReturns: the attempt is repeated, nothing is posted.
BackfillRepeats ==
  /\ backfill = "run" /\ ~Launching
  /\ backfill' = "lock"
  /\ UNCHANGED <<mgr_vars, sem_vars, helper_vars, slurmd_vars, job_vars, count_vars, sched_vars,
                 mutex_bf, mutex_bf_done, rpc_vars, slot_vars>>

BackfillReturns ==
  /\ backfill = "run" /\ ~Launching
  /\ backfill' = "sleep" /\ mutex_bf_done' = mutex_bf_done + 1
  /\ UNCHANGED <<mgr_vars, sem_vars, helper_vars, slurmd_vars, job_vars, count_vars, sched_vars,
                 mutex_bf, rpc_vars, slot_vars>>

backfill_agent == BackfillWakes \/ BackfillLocks \/ (\E j \in Jobs : BackfillStarts(j))
                  \/ BackfillReturns

-----------------------------------------------------------------------------
(* slurmctld: _slurmctld_background                                        *)

TimedOut(j) == job_state[j] = "RUNNING" /\ start_time[j] + Limit[j] =< current_sim

\* Every job over its limit is set completing, and the agent is given a
\* kill request for it.
job_time_limit ==
  /\ LockFree /\ \E j \in Jobs : TimedOut(j)
  /\ job_state' = [j \in Jobs |-> IF TimedOut(j) THEN "COMPLETING" ELSE job_state[j]]
  /\ terminate' = [j \in Jobs |-> IF TimedOut(j) THEN "killed" ELSE terminate[j]]
  /\ UNCHANGED <<mgr_vars, sem_vars, helper_vars, slurmd_vars, start_time, count_vars,
                 sched_vars, bf_vars, submit, epilog, total_read, launch, slot_vars>>

\* Mutant of CheckAllFinished: one job too early.
CheckAllButOneFinished ==
  /\ total_epilog_complete_jobs + 1 = NJobs
  /\ trace_recs_end_sim' = -1
  /\ UNCHANGED <<mgr_vars, sem_vars, helper_vars, slurmd_vars, job_vars, total_finished_jobs,
                 arrived_jobs_epilogs, total_epilog_complete_jobs, sched_vars, bf_vars, rpc_vars,
                 slot_vars>>

\* total_log_jobs is the number of records of the trace.
CheckAllFinished ==
  /\ total_epilog_complete_jobs = NJobs
  /\ trace_recs_end_sim' = -1
  /\ UNCHANGED <<mgr_vars, sem_vars, helper_vars, slurmd_vars, job_vars, total_finished_jobs,
                 arrived_jobs_epilogs, total_epilog_complete_jobs, sched_vars, bf_vars, rpc_vars,
                 slot_vars>>

-----------------------------------------------------------------------------
(* The steps of the threads that belong to a job. *)
JobThreads(j) ==
  \/ submit_batch_job(j) \/ SubmitQueuesScheduler(j)
  \/ epilog_complete(j) \/ EpilogQueuesScheduler(j) \/ EpilogReplies(j) \/ EpilogCounts(j)
  \/ EpilogReadsTotal(j) \/ EpilogWritesTotal(j)
  \/ simulator_rpc_terminate_job(j) \/ TerminateFinishes(j) \/ rpc_timelimit(j)
  \/ simulator_rpc_batch_job(j) \/ AddEvent(j)

CompleteThread(k) == complete_batch_script(k) \/ job_complete(k) \/ CompleteReplies(k)

Timeout == RetryComplete \/ GiveUpComplete \/ RetryCycle \/ GiveUpCycle

\* sim_mgr has exited and takes the daemons down with it.
Stopped == mgr = "exited" /\ UNCHANGED vars

Next ==
  \/ time_mgr \/ terminate_simulation
  \/ simulator_helper \/ Timeout
  \/ \E j \in Jobs : JobThreads(j)
  \/ \E k \in Slots : CompleteThread(k) \/ sim_helper_cycle(k)
  \/ sched_agent \/ backfill_agent \/ job_time_limit \/ CheckAllFinished
  \/ Stopped

Spec == Init /\ [][Next]_vars

\* Every thread is scheduled again and again.  Each turn of time_mgr takes
\* real time, so 20 real seconds after the end was noticed pass in the end.
Fairness ==
  /\ WF_vars(time_mgr) /\ SF_vars(terminate_simulation)
  /\ WF_vars(simulator_helper) /\ WF_vars(sched_agent) /\ WF_vars(backfill_agent)
  /\ WF_vars(CheckAllFinished)
  /\ \A j \in Jobs : WF_vars(JobThreads(j))
  /\ \A k \in Slots : WF_vars(CompleteThread(k)) /\ WF_vars(sim_helper_cycle(k))

FairSpec == Spec /\ Fairness

-----------------------------------------------------------------------------
(* Safety                                                                  *)

One(b) == IF b THEN 1 ELSE 0

\* There is one token: time_mgr has it while it is not waiting for sim_sem,
\* _simulator_helper from its sem_wait(slurm_sem) to its sem_post(sim_sem),
\* and in between it is in one of the two semaphores.  Retries, abandoned
\* messages and the death of the helper thread do not duplicate it.
OneToken == One(mgr # "wait") + slurm_sem + One(helper # "sleep") + sim_sem = 1

\* As long as no message timed out, no completion or cycle request is being
\* served and the backfill agent is idle whenever the helper is asleep: the
\* clock never advances and no job is submitted under a running scheduler.
Lockstep ==
  (timeouts = 0 /\ helper = "sleep") =>
    /\ \A k \in Slots : complete[k] = "none"
    /\ \A t \in Callers : cycle[t] = "none"
    /\ backfill = "sleep" /\ mutex_bf = 0 /\ mutex_bf_done = 0

\* A request to the scheduler that will still be acted on: it is counted,
\* about to be counted, or taken up by a caller of schedule() that has not
\* yet released the locks; or the scheduler has been held back by a
\* completing job whose epilog will ask again.
RequestPending ==
  \/ job_sched_cnt > 0
  \/ \E j \in Jobs : submit[j] = "queue" \/ epilog[j] = "queue"
  \/ \E t \in Callers : cycle[t] \in {"wait", "call", "go", "defer", "lock", "schedule"}
  \/ CompleteWait /\ \E j \in Jobs : job_state[j] = "COMPLETING"

\* A call that schedule() does not execute is not lost either: with a node
\* idle and a job waiting there is a request pending, timeouts or not.  The
\* code says of such a call "We don't want to run now, but also don't want to
\* defer this forever, so spawn a thread to run later".
DeferralsKept == (IdleNode /\ \E j \in Jobs : job_state[j] = "PENDING") => RequestPending

\* As long as no message timed out, a node that is idle while a job waits is
\* never forgotten: reset_scheduler_cnt comes before schedule(), and
\* queue_job_scheduler after every submission and every epilog.
WorkConserving == timeouts = 0 => DeferralsKept

\* The scheduler of a second sees every node that was freed in it: when it
\* runs, no job is completing and no completion that was due is left.
ScheduleSeesEnded ==
  (\E t \in Callers : cycle[t] = "schedule") =>
    /\ \A j \in Jobs : job_state[j] # "COMPLETING"
    /\ \A i \in 1..Len(events) : events[i].when > current_sim

\* The counters of ended jobs and of epilogs, shared by slurmd's and
\* slurmctld's threads, are back at zero when a second is over.
CountersBalanced ==
  helper = "sleep" => /\ total_finished_jobs = 0 /\ arrived_jobs_epilogs = 0
                      /\ waiting_epilog_msgs = 0

\* _simulator_helper only looks at the head of the list of completions.
EventsOrdered == IsOrdered(events)

\* slurmd knows the duration of a job when it is asked to launch it: the
\* answer to the submission and REQUEST_SIM_JOB precede the next cycle.
LaunchInfoKnown == \A j \in Jobs : launch[j] # "none" => info[j] = Duration[j]

\* slurmctld tells sim_mgr to end the simulation only when every job of the
\* trace has run and has released its node.
EndSignalSound == trace_recs_end_sim = -1 => \A j \in Jobs : job_state[j] = "DONE"

\* A job is not ended before it has run for its duration, although its end
\* is computed by a thread of slurmd that the launch does not wait for.
EndNotEarly ==
  [][\A j \in Jobs : (job_state[j] = "RUNNING" /\ job_state'[j] # "RUNNING")
        => current_sim >= start_time[j] + Duration[j]]_vars

-----------------------------------------------------------------------------
(* Liveness                                                                *)

\* Every simulated second comes to an end: the waits of time_mgr, of the
\* helper, of the cycle handler and of the backfill agent all return.
SecondCompletes == (mgr = "wait") ~> (mgr = "loop")

\* A request to the scheduler is served in this second or in the next one.
RequestsServed ==
  (job_sched_cnt > 0 /\ current_sim + 1 < MaxClock) ~> (job_sched_cnt = 0 \/ mgr = "exited")

\* Once all jobs of the trace are finished, slurmctld tells sim_mgr so.
EndSignalled == (\A j \in Jobs : job_state[j] = "DONE") ~> (trace_recs_end_sim = -1)

-----------------------------------------------------------------------------
(* Refinement of SimSemantics                                              *)

PhaseOf == [none |-> "none", PENDING |-> "pending", RUNNING |-> "running",
            COMPLETING |-> "running", DONE |-> "done"]

Simulation == INSTANCE SimSemantics WITH
  clock <- current_sim,
  turn <- IF mgr = "wait" THEN "daemons" ELSE "mgr",
  phase <- [j \in Jobs |-> PhaseOf[job_state[j]]],
  started <- start_time

\* With no time limits hit, no submission refused, no message timing out and
\* a trace ordered by submission time, the three programs together behave as
\* SimSemantics says: between sem_post(slurm_sem) and sem_wait(sim_sem) jobs
\* finish and start, outside of it they are submitted and the clock moves.
Implements == Simulation!Spec

=============================================================================
