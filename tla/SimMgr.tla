------------------------------- MODULE SimMgr -------------------------------
(***************************************************************************)
(* sim_mgr as a whole: the start-up of SimStartup and, once time_mgr is in *)
(* its loop, generateJob, which fills the table of JobIdPairs.  A job      *)
(* finishes, once, after it was submitted.                                 *)
(***************************************************************************)
EXTENDS JobIdPairs

VARIABLES
  launch_daemons, end_point, mgr, slurmctld, slurmd, trace_recs_end_sim, slurmd_registered,
  signalsem, registered_read, total_log_jobs, total_epilog_complete_jobs,
  finished   \* jobs of the trace whose epilog slurmctld has counted

Startup == INSTANCE SimStartup WITH NJobs <- Cardinality(TraceIds)

startup_vars == <<launch_daemons, end_point, mgr, slurmctld, slurmd, trace_recs_end_sim,
                  slurmd_registered, signalsem, registered_read, total_log_jobs,
                  total_epilog_complete_jobs>>
sim_vars == <<vars, startup_vars, finished>>

time_mgr ==
  /\ mgr \in {"loop", "last"} /\ \E t \in TraceIds, r \in RealIds : generateJob(t, r)
  /\ UNCHANGED <<startup_vars, finished>>

\* slurmd sends the epilog of a job when it takes the job off its list of
\* ended jobs, so a job has one.
epilog_complete(t) ==
  /\ real[t] # NoVal /\ t \notin finished
  /\ finished' = finished \cup {t}
  /\ Startup!JobFinishes
  /\ UNCHANGED vars

start_and_end ==
  /\ Startup!StartOrEnd
  /\ UNCHANGED <<vars, finished>>

SimInit == Init /\ Startup!Init /\ finished = {}
SimNext == time_mgr \/ start_and_end \/ \E t \in TraceIds : epilog_complete(t)

(* Every process runs on; nobody has to start a daemon, and the next job   *)
(* is submitted when it is due.                                            *)
SimSpec ==
  /\ SimInit /\ [][SimNext]_sim_vars
  /\ WF_sim_vars(Startup!sim_mgr /\ UNCHANGED <<vars, finished>>)
  /\ WF_sim_vars(Startup!ReadTotal /\ UNCHANGED <<vars, finished>>)
  /\ WF_sim_vars(Startup!slurmd_main /\ UNCHANGED <<vars, finished>>)

-----------------------------------------------------------------------------
SimTypeOK == TypeOK /\ Startup!TypeOK /\ finished \subseteq TraceIds

(* The simulation begins only after slurmd has registered in this run: a   *)
(* registration an earlier run left in the shared memory does not count.   *)
SlurmdPresent == Startup!SlurmdPresent

(* Before its end point, if it has one, sim_mgr ends the simulation only   *)
(* when every job of the trace has been submitted and has finished         *)
(* (trace_recs_end_sim holds "the total number of jobs in the log; once    *)
(* they are all finished controller will set it to -1").                   *)
EndNotPremature ==
  mgr \in {"last", "ended"} /\ end_point # "reached" => finished = TraceIds

(* It does so if it forks the daemons itself: main waits for the parents   *)
(* of the daemons, and with them for slurmctld's copy of the total, before *)
(* the memset of time_mgr; and increments of the unprotected counter may   *)
(* be lost, but none is made up.                                           *)
EndComplete == launch_daemons => EndNotPremature

(* A registration that comes after the memory was cleared lets time_mgr go.*)
RegistrationNoticed == Startup!RegistrationNoticed
=============================================================================
