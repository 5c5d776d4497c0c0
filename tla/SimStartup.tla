----------------------------- MODULE SimStartup -----------------------------
(***************************************************************************)
(* How sim_mgr, slurmctld and slurmd find each other: the shared memory    *)
(* segment and the semaphore they start with, which outlive the processes, *)
(* the number of trace records that passes from sim_mgr to slurmctld, and  *)
(* the registration of slurmd.  What happens in a simulated second is the  *)
(* subject of SimLockstep; here a job just finishes.                       *)
(***************************************************************************)
EXTENDS Integers

CONSTANT NJobs   \* records of the trace

VARIABLES
  launch_daemons,   \* sim_mgr forks the daemons; otherwise they are started by hand
  end_point, \* sim_end_point against the clock: "none" (0), "ahead", "reached"
  mgr,       \* "semaphores", "trace", "fork", "waitpid", "memset", "register", "loop",
             \* "last" (time_end is set), "ended"
  slurmctld, \* "off", "starting", "up"
  slurmd,    \* "off", "starting", "daemon", "notify", "add", "up"
  trace_recs_end_sim, slurmd_registered,   \* in shared memory
  signalsem,        \* does the named semaphore exist?
  registered_read,  \* register of slurmd in *slurmd_registered += 1
  total_log_jobs, total_epilog_complete_jobs   \* globals of slurmctld

vars == <<launch_daemons, end_point, mgr, slurmctld, slurmd, trace_recs_end_sim,
          slurmd_registered, signalsem, registered_read, total_log_jobs,
          total_epilog_complete_jobs>>

TypeOK ==
  /\ launch_daemons \in BOOLEAN
  /\ end_point \in {"none", "ahead", "reached"}
  /\ mgr \in {"semaphores", "trace", "fork", "waitpid", "memset", "register", "loop", "last", "ended"}
  /\ slurmctld \in {"off", "starting", "up"}
  /\ slurmd \in {"off", "starting", "daemon", "notify", "add", "up"}
  /\ trace_recs_end_sim \in {-1, 0, NJobs} /\ total_log_jobs \in {-1, 0, NJobs}
  /\ slurmd_registered \in 0..2 /\ registered_read \in 0..1
  /\ signalsem \in BOOLEAN
  /\ total_epilog_complete_jobs \in Nat

\* shm_open and sem_open keep what an earlier run has left behind.
Init ==
  /\ launch_daemons \in BOOLEAN /\ end_point \in {"none", "ahead", "reached"}
  /\ mgr = "semaphores" /\ slurmctld = "off" /\ slurmd = "off"
  /\ trace_recs_end_sim \in {0, -1} /\ slurmd_registered \in {0, 1} /\ signalsem \in BOOLEAN
  /\ registered_read = 0 /\ total_log_jobs = 0 /\ total_epilog_complete_jobs = 0

-----------------------------------------------------------------------------
(* sim_mgr                                                                 *)

open_semaphores ==
  /\ mgr = "semaphores" /\ mgr' = "trace"
  /\ signalsem' = TRUE
  /\ UNCHANGED <<launch_daemons, end_point, slurmctld, slurmd, trace_recs_end_sim,
                 slurmd_registered, registered_read, total_log_jobs, total_epilog_complete_jobs>>

init_job_trace ==
  /\ mgr = "trace" /\ mgr' = IF launch_daemons THEN "fork" ELSE "memset"
  /\ trace_recs_end_sim' = NJobs
  /\ UNCHANGED <<launch_daemons, end_point, slurmctld, slurmd, slurmd_registered, signalsem,
                 registered_read, total_log_jobs, total_epilog_complete_jobs>>

\* Mutant of fork_daemons: the exit of the daemons' parents is not awaited.
fork_daemonsNoWait ==
  /\ mgr = "fork" /\ mgr' = "memset"
  /\ slurmctld' = "starting" /\ slurmd' = "starting"
  /\ UNCHANGED <<launch_daemons, end_point, trace_recs_end_sim, slurmd_registered, signalsem,
                 registered_read, total_log_jobs, total_epilog_complete_jobs>>

fork_daemons ==
  /\ mgr = "fork" /\ mgr' = "waitpid"
  /\ slurmctld' = "starting" /\ slurmd' = "starting"
  /\ UNCHANGED <<launch_daemons, end_point, trace_recs_end_sim, slurmd_registered, signalsem,
                 registered_read, total_log_jobs, total_epilog_complete_jobs>>

\* The forked process of a daemon exits when it becomes a daemon.
waitpid ==
  /\ mgr = "waitpid" /\ mgr' = "memset"
  /\ slurmctld # "starting" /\ slurmd # "starting"
  /\ UNCHANGED <<launch_daemons, end_point, slurmctld, slurmd, trace_recs_end_sim,
                 slurmd_registered, signalsem, registered_read, total_log_jobs,
                 total_epilog_complete_jobs>>

\* Mutant of ClearSharedMemory: the memory is taken as it is found.
KeepSharedMemory ==
  /\ mgr = "memset" /\ mgr' = "register"
  /\ UNCHANGED <<launch_daemons, end_point, slurmctld, slurmd, trace_recs_end_sim,
                 slurmd_registered, signalsem, registered_read, total_log_jobs,
                 total_epilog_complete_jobs>>

\* time_mgr starts with a memset of the whole segment.
ClearSharedMemory ==
  /\ mgr = "memset" /\ mgr' = "register"
  /\ trace_recs_end_sim' = 0 /\ slurmd_registered' = 0
  /\ UNCHANGED <<launch_daemons, end_point, slurmctld, slurmd, signalsem, registered_read,
                 total_log_jobs, total_epilog_complete_jobs>>

\* Mutant of RegistrationSeen: sim_mgr waits for two registrations.
RegistrationsSeen ==
  /\ mgr = "register" /\ slurmd_registered > 1
  /\ mgr' = "loop"
  /\ UNCHANGED <<launch_daemons, end_point, slurmctld, slurmd, trace_recs_end_sim,
                 slurmd_registered, signalsem, registered_read, total_log_jobs,
                 total_epilog_complete_jobs>>

RegistrationSeen ==
  /\ mgr = "register" /\ slurmd_registered >= 1
  /\ mgr' = "loop"
  /\ UNCHANGED <<launch_daemons, end_point, slurmctld, slurmd, trace_recs_end_sim,
                 slurmd_registered, signalsem, registered_read, total_log_jobs,
                 total_epilog_complete_jobs>>

\* The loop goes on: jobs are submitted and finish for 20 more real seconds.
EndNoticed ==
  /\ mgr = "loop" /\ (end_point = "reached" \/ trace_recs_end_sim = -1)
  /\ mgr' = "last"
  /\ UNCHANGED <<launch_daemons, end_point, slurmctld, slurmd, trace_recs_end_sim,
                 slurmd_registered, signalsem, registered_read, total_log_jobs,
                 total_epilog_complete_jobs>>

terminate_simulation ==
  /\ mgr = "last" /\ mgr' = "ended"
  /\ UNCHANGED <<launch_daemons, end_point, slurmctld, slurmd, trace_recs_end_sim,
                 slurmd_registered, signalsem, registered_read, total_log_jobs,
                 total_epilog_complete_jobs>>

\* The second comes in which current_sim is at sim_end_point.
EndPointReached ==
  /\ mgr \in {"loop", "last"} /\ end_point = "ahead"
  /\ end_point' = "reached"
  /\ UNCHANGED <<launch_daemons, mgr, slurmctld, slurmd, trace_recs_end_sim, slurmd_registered,
                 signalsem, registered_read, total_log_jobs, total_epilog_complete_jobs>>

sim_mgr == open_semaphores \/ init_job_trace \/ fork_daemons \/ waitpid \/ ClearSharedMemory
           \/ RegistrationSeen \/ EndNoticed \/ terminate_simulation \/ EndPointReached

-----------------------------------------------------------------------------
(* The daemons                                                             *)

\* Without launch_daemons the user starts them, at any time.
StartSlurmctld ==
  /\ ~launch_daemons /\ slurmctld = "off" /\ slurmctld' = "starting"
  /\ UNCHANGED <<launch_daemons, end_point, mgr, slurmd, trace_recs_end_sim, slurmd_registered,
                 signalsem, registered_read, total_log_jobs, total_epilog_complete_jobs>>

StartSlurmd ==
  /\ ~launch_daemons /\ slurmd = "off" /\ slurmd' = "starting"
  /\ UNCHANGED <<launch_daemons, end_point, mgr, slurmctld, trace_recs_end_sim, slurmd_registered,
                 signalsem, registered_read, total_log_jobs, total_epilog_complete_jobs>>

\* main of slurmctld copies the number of jobs, then becomes a daemon.
ReadTotal ==
  /\ slurmctld = "starting" /\ slurmctld' = "up"
  /\ total_log_jobs' = trace_recs_end_sim
  /\ UNCHANGED <<launch_daemons, end_point, mgr, slurmd, trace_recs_end_sim, slurmd_registered,
                 signalsem, registered_read, total_epilog_complete_jobs>>

CheckAllFinished ==
  /\ slurmctld = "up" /\ total_epilog_complete_jobs = total_log_jobs
  /\ trace_recs_end_sim' = -1
  /\ UNCHANGED <<launch_daemons, end_point, mgr, slurmctld, slurmd, slurmd_registered, signalsem,
                 registered_read, total_log_jobs, total_epilog_complete_jobs>>

\* total_epilog_complete_jobs++ of one of several threads, outside of any lock:
\* what is added to may be a value that other threads have raised since.
JobFinishes ==
  /\ mgr \in {"loop", "last"} /\ slurmctld = "up"
  /\ total_epilog_complete_jobs' \in 1..total_epilog_complete_jobs + 1
  /\ UNCHANGED <<launch_daemons, end_point, mgr, slurmctld, slurmd, trace_recs_end_sim,
                 slurmd_registered, signalsem, registered_read, total_log_jobs>>

SlurmdDaemonizes ==
  /\ slurmd = "starting" /\ slurmd' = "daemon"
  /\ UNCHANGED <<launch_daemons, end_point, mgr, slurmctld, trace_recs_end_sim, slurmd_registered,
                 signalsem, registered_read, total_log_jobs, total_epilog_complete_jobs>>

\* The registration message is sent until slurmctld answers.
registration_engine ==
  /\ slurmd = "daemon" /\ slurmctld = "up"
  /\ slurmd' = "notify"
  /\ UNCHANGED <<launch_daemons, end_point, mgr, slurmctld, trace_recs_end_sim, slurmd_registered,
                 signalsem, registered_read, total_log_jobs, total_epilog_complete_jobs>>

\* The semaphore excludes other daemons, not the memset of sim_mgr.
notify_sim_mgr ==
  /\ slurmd = "notify" /\ signalsem
  /\ slurmd' = "add" /\ registered_read' = slurmd_registered
  /\ UNCHANGED <<launch_daemons, end_point, mgr, slurmctld, trace_recs_end_sim, slurmd_registered,
                 signalsem, total_log_jobs, total_epilog_complete_jobs>>

sim_perform_slurmd_register ==
  /\ slurmd = "add" /\ slurmd' = "up"
  /\ slurmd_registered' = registered_read + 1 /\ registered_read' = 0
  /\ UNCHANGED <<launch_daemons, end_point, mgr, slurmctld, trace_recs_end_sim, signalsem,
                 total_log_jobs, total_epilog_complete_jobs>>

slurmd_main == SlurmdDaemonizes \/ registration_engine \/ notify_sim_mgr
               \/ sim_perform_slurmd_register

Stopped == mgr = "ended" /\ UNCHANGED vars

StartOrEnd == \/ sim_mgr \/ StartSlurmctld \/ StartSlurmd \/ ReadTotal \/ CheckAllFinished
              \/ slurmd_main \/ Stopped

Next == StartOrEnd \/ JobFinishes

-----------------------------------------------------------------------------

\* The simulation begins only after slurmd has registered in this run: a
\* registration an earlier run left in the shared memory does not count.
SlurmdPresent == mgr \in {"loop", "last", "ended"} => slurmd = "up"

\* A registration that comes after the memory was cleared lets time_mgr go.
RegistrationNoticed ==
  (slurmd = "notify" /\ mgr = "register") ~> (mgr \in {"loop", "last", "ended"})
=============================================================================
