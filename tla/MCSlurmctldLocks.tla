-------------------------- MODULE MCSlurmctldLocks --------------------------
(* Three threads using lock_levels found in slurmctld.  *)
EXTENDS SlurmctldLocks, TLC

CONSTANTS t1, t2, t3

MCThreads3 == {t1, t2, t3}

Lv(c, j, n, p, f) == 0 :> c @@ 1 :> j @@ 2 :> n @@ 3 :> p @@ 4 :> f

(* config_write_lock of _reconfigure_slurm (controller.c:847), job_write_lock *)
(* of _slurm_rpc_step_complete (proc_req.c:3753) and job_read_lock of         *)
(* _slurmctld_background (controller.c:1742).  With these a thread can starve *)
(* on the jobs while it has the configuration read-locked.                    *)
MCRequests ==
  { Lv(WRITE_LOCK, WRITE_LOCK, WRITE_LOCK, WRITE_LOCK, NO_LOCK),
    Lv(NO_LOCK, WRITE_LOCK, WRITE_LOCK, NO_LOCK, NO_LOCK),
    Lv(READ_LOCK, READ_LOCK, NO_LOCK, NO_LOCK, NO_LOCK) }
=============================================================================
