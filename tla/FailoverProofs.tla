--------------------------- MODULE FailoverProofs ---------------------------
(***************************************************************************)
(* Who is in control, and what becomes of the jobs when that changes, for  *)
(* any number of jobs, restarts and faults.                                *)
(***************************************************************************)
EXTENDS Failover, FiniteSetTheorems, TLAPS

\* The prover of a leaf that names none.
USE Zenon

\* The backup is in control or about to be.
BackupActive == mode["backup"] \in {"loading", "up", "stopping", "saving"}

\* Unless something happened that the protocol does not guard against: a
\* primary in control has a fresh heartbeat, which keeps the backup from
\* taking over; the backup is active only while the primary is down or has
\* just asked for control; and nobody replaced job_state since the backup
\* took over.
ControlInv ==
  excused \/
    /\ Controls("primary") => heartbeat
    /\ BackupActive => mode["primary"] \in {"down", "asking", "waiting"}
    /\ BackupActive => last_file_write_time["backup"] # "other"
    /\ ~alarm

\* Unless, besides, a controller was killed: a controller has every job, its
\* last dump has them too, and they are in the file when the dump is over and
\* while nobody is in control.
HandoverInv ==
  excused \/ crashed \/
    /\ \A c \in Ctlds : Controls(c) => job_list[c] = accepted
    /\ \A c \in Ctlds : mode[c] = "saving" /\ dumping[c] => buffer[c] = accepted
    /\ \A c \in Ctlds : mode[c] = "saving" /\ ~dumping[c] => file.jobs = accepted
    /\ (\A c \in Ctlds : ~Controls(c)) => file.jobs = accepted

FailoverInv == TypeOK /\ ControlInv /\ HandoverInv

-----------------------------------------------------------------------------
\* The steps one by one; those of a controller are taken by either slurmctld.
LEMMA StepCases ==
  ASSUME Next
  PROVE  \/ \E c \in Ctlds : \/ submit(c) \/ dump_check(c) \/ dump_write(c) \/ exit(c)
                             \/ load(c) \/ crash(c) \/ stop(c)
         \/ _ping_controller \/ take_over \/ run_backup \/ _shutdown_primary_controller
         \/ start \/ ask \/ waited \/ reassert \/ _heartbeat_thread \/ timeout
         \/ heartbeat_error \/ hang \/ recover \/ start_backup
  BY DEF Next, primary_step, backup_step, controller, Ctlds

\* The number of the next job is one of Jobs as long as the bound allows it.
LEMMA NextJob ==
  ASSUME TypeOK, Cardinality(accepted) < MaxSubmits
  PROVE  Cardinality(accepted) + 1 \in Jobs
  <1>1. IsFiniteSet(Jobs)
      BY FailoverAssumption, FS_Interval, SMT DEF FailoverAssumption, Jobs
  <1>2. Cardinality(accepted) \in Nat
      BY <1>1, FS_Subset, FS_CardinalityType DEF TypeOK
  <1> QED  BY <1>2, FailoverAssumption, SMT DEF FailoverAssumption, Jobs

\* Every step keeps the types; a dump goes on only in a controller.
LEMMA TypeStep == TypeOK /\ Next => TypeOK'
  <1> SUFFICES ASSUME TypeOK, Next PROVE TypeOK'
      OBVIOUS
  <1> USE DEF Ctlds, Controls, runs, data_vars, flag_vars, time_vars, ghost_vars, TypeOK, Modes, File
  <1>1. ASSUME NEW c \in Ctlds, submit(c) PROVE TypeOK'
      BY <1>1, NextJob, SMT DEF submit
  <1>2. ASSUME NEW c \in Ctlds, dump_check(c) PROVE TypeOK'
    <2>1. CASE bad_time(c) /\ c = "backup"
        BY <1>2, <2>1, SMT DEF dump_check
    <2>2. CASE ~(bad_time(c) /\ c = "backup")
      <3>1. /\ dumping' = [dumping EXCEPT ![c] = TRUE]
            /\ buffer' = [buffer EXCEPT ![c] = job_list[c]]
            /\ UNCHANGED <<hung, net, time_vars, flag_vars, job_list, file, alarm,
                           last_file_write_time, excused, accepted, crashed>>
          BY <1>2, <2>2 DEF dump_check
      <3>2. /\ mode' = [mode EXCEPT ![c] = IF @ = "stopping" THEN "saving" ELSE @]
            /\ mode[c] \in {"up", "stopping"}
          BY <1>2, <2>2 DEF dump_check
      <3>3. mode' \in [Ctlds -> Modes] /\ \A d \in Ctlds : dumping'[d] => Controls(d)'
          BY <3>1, <3>2
      <3>4. buffer' \in [Ctlds -> SUBSET Jobs] /\ dumping' \in [Ctlds -> BOOLEAN]
          BY <3>1
      <3> QED  BY <3>1, <3>3, <3>4, SMT
    <2> QED  BY <2>1, <2>2
  <1>3. ASSUME NEW c \in Ctlds, dump_write(c) PROVE TypeOK'
      BY <1>3, SMT DEF dump_write
  <1>4. ASSUME NEW c \in Ctlds, exit(c) PROVE TypeOK'
      BY <1>4, SMT DEF exit, finish
  <1>5. ASSUME NEW c \in Ctlds, load(c) PROVE TypeOK'
      BY <1>5 DEF load
  <1>6. ASSUME NEW c \in Ctlds, crash(c) PROVE TypeOK'
      BY <1>6 DEF crash, Fault
  <1>7. ASSUME NEW c \in Ctlds, stop(c) PROVE TypeOK'
      BY <1>7, SMT DEF stop, Fault
  <1>8. CASE _ping_controller
      BY <1>8 DEF _ping_controller, answers
  <1>9. CASE take_over
      BY <1>9 DEF take_over, backup_slurmctld_restart, answers, silent
  <1>10. CASE run_backup
      BY <1>10 DEF run_backup, finish
  <1>11. CASE _shutdown_primary_controller
      BY <1>11 DEF _shutdown_primary_controller, answers
  <1>12. CASE start
      BY <1>12, SMT DEF start
  <1>13. CASE ask
    <2>1. /\ UNCHANGED <<hung, net, heartbeat, takeover, job_list, dumping, buffer, file,
                         last_file_write_time, alarm, accepted, crashed>>
          /\ mode["primary"] = "asking"
        BY <1>13 DEF ask
    <2>2. response' \in BOOLEAN /\ resume_backup' \in BOOLEAN /\ excused' \in BOOLEAN
        BY <1>13 DEF ask, REQUEST_CONTROL, resuming
    <2>3. /\ mode' \in [Ctlds -> Modes]
          /\ Controls("backup") => Controls("backup")'
        BY <1>13 DEF ask, relinquish
    <2>4. \A c \in Ctlds : dumping'[c] => Controls(c)'
        BY <2>1, <2>3
    <2> QED  BY <2>1, <2>2, <2>3, <2>4
  <1>14. CASE waited
      BY <1>14 DEF waited
  <1>15. CASE reassert
      BY <1>15 DEF reassert, REQUEST_CONTROL, relinquish, resuming
  <1>16. CASE _heartbeat_thread
      BY <1>16 DEF _heartbeat_thread, beats
  <1>17. CASE timeout
    <2>1. /\ UNCHANGED <<mode, hung, net, takeover, resume_backup, job_list, dumping, buffer, file,
                         last_file_write_time, alarm, accepted, crashed>>
          /\ heartbeat' \in BOOLEAN /\ response' \in BOOLEAN /\ excused' \in BOOLEAN
        BY <1>17 DEF timeout
    <2> QED  BY <2>1
  <1>18. CASE hang
    <2>1. /\ UNCHANGED <<mode, heartbeat, response, takeover, resume_backup, job_list, dumping,
                         buffer, file, last_file_write_time, alarm, excused, accepted, crashed>>
          /\ hung' \in BOOLEAN /\ net' \in BOOLEAN
        BY <1>18 DEF hang
    <2> QED  BY <2>1
  <1>19. CASE recover
    <2>1. /\ UNCHANGED <<mode, heartbeat, response, takeover, resume_backup, job_list, dumping,
                         buffer, file, last_file_write_time, alarm, excused, accepted, crashed>>
          /\ hung' \in BOOLEAN /\ net' \in BOOLEAN
        BY <1>19 DEF recover
    <2> QED  BY <2>1
  <1>20. CASE heartbeat_error
      BY <1>20 DEF heartbeat_error, beats, Fault
  <1>21. CASE start_backup
      BY <1>21 DEF start_backup
  <1> QED  BY StepCases, <1>1, <1>2, <1>3, <1>4, <1>5, <1>6, <1>7, <1>8, <1>9, <1>10,
            <1>11, <1>12, <1>13, <1>14, <1>15, <1>16, <1>17, <1>18, <1>19, <1>20, <1>21

\* Every step keeps ControlInv.
LEMMA ControlStep == TypeOK /\ ControlInv /\ Next => ControlInv'
  <1> SUFFICES ASSUME TypeOK, ControlInv, Next PROVE ControlInv'
      OBVIOUS
  <1> USE DEF Ctlds, Controls, runs, data_vars, flag_vars, time_vars, ghost_vars, TypeOK, Modes, ControlInv, BackupActive, bad_time, File
  <1>1. ASSUME NEW c \in Ctlds, submit(c) PROVE ControlInv'
      BY <1>1 DEF submit
  <1>2. ASSUME NEW c \in Ctlds, dump_check(c) PROVE ControlInv'
      BY <1>2 DEF dump_check
  <1>3. ASSUME NEW c \in Ctlds, dump_write(c) PROVE ControlInv'
      BY <1>3 DEF dump_write
  <1>4. ASSUME NEW c \in Ctlds, exit(c) PROVE ControlInv'
      BY <1>4 DEF exit, finish
  <1>5. ASSUME NEW c \in Ctlds, load(c) PROVE ControlInv'
      BY <1>5 DEF load
  <1>6. ASSUME NEW c \in Ctlds, crash(c) PROVE ControlInv'
      BY <1>6 DEF crash, Fault
  <1>7. ASSUME NEW c \in Ctlds, stop(c) PROVE ControlInv'
      BY <1>7 DEF stop, Fault
  <1>8. CASE _ping_controller
      BY <1>8 DEF _ping_controller, answers
  <1>9. CASE take_over
      BY <1>9 DEF take_over, backup_slurmctld_restart, answers, silent
  <1>10. CASE run_backup
      BY <1>10 DEF run_backup, finish
  <1>11. CASE _shutdown_primary_controller
      BY <1>11 DEF _shutdown_primary_controller, answers
  <1>12. CASE start
      BY <1>12 DEF start
  <1>13. CASE ask
    <2>1. CASE excused
        BY <1>13, <2>1 DEF ask
    <2>2. CASE ~excused /\ mode'["primary"] = "waiting"
        BY <1>13, <2>2 DEF ask, relinquish
    <2>3. CASE ~excused /\ mode'["primary"] = "loading"
        BY <1>13, <2>3 DEF ask
    <2> QED  BY <1>13, <2>1, <2>2, <2>3 DEF ask
  <1>14. CASE waited
      BY <1>14 DEF waited
  <1>15. CASE reassert
      BY <1>15 DEF reassert, REQUEST_CONTROL, relinquish, resuming
  <1>16. CASE _heartbeat_thread
      BY <1>16 DEF _heartbeat_thread, beats
  <1>17. CASE timeout
      BY <1>17 DEF timeout, beats, answers
  <1>18. CASE hang
      BY <1>18 DEF hang, Fault
  <1>19. CASE recover
      BY <1>19 DEF recover
  <1>20. CASE heartbeat_error
      BY <1>20 DEF heartbeat_error, beats, Fault
  <1>21. CASE start_backup
      BY <1>21 DEF start_backup
  <1> QED  BY StepCases, <1>1, <1>2, <1>3, <1>4, <1>5, <1>6, <1>7, <1>8, <1>9, <1>10,
            <1>11, <1>12, <1>13, <1>14, <1>15, <1>16, <1>17, <1>18, <1>19, <1>20, <1>21

\* Every step keeps HandoverInv.
LEMMA HandoverStep == TypeOK /\ ControlInv /\ HandoverInv /\ Next => HandoverInv'
  <1> SUFFICES ASSUME TypeOK, ControlInv, HandoverInv, Next PROVE HandoverInv'
      OBVIOUS
  <1> USE DEF Ctlds, Controls, runs, data_vars, flag_vars, time_vars, ghost_vars, TypeOK, Modes, ControlInv, HandoverInv, BackupActive, bad_time, File
  <1>1. ASSUME NEW c \in Ctlds, submit(c) PROVE HandoverInv'
      BY <1>1 DEF submit
  <1>2. ASSUME NEW c \in Ctlds, dump_check(c) PROVE HandoverInv'
      BY <1>2, SMT DEF dump_check
  <1>3. ASSUME NEW c \in Ctlds, dump_write(c) PROVE HandoverInv'
      BY <1>3 DEF dump_write
  <1>4. ASSUME NEW c \in Ctlds, exit(c) PROVE HandoverInv'
      BY <1>4 DEF exit, finish
  <1>5. ASSUME NEW c \in Ctlds, load(c) PROVE HandoverInv'
      BY <1>5 DEF load
  <1>6. ASSUME NEW c \in Ctlds, crash(c) PROVE HandoverInv'
      BY <1>6 DEF crash, Fault
  <1>7. ASSUME NEW c \in Ctlds, stop(c) PROVE HandoverInv'
      BY <1>7 DEF stop, Fault
  <1>8. CASE _ping_controller
      BY <1>8 DEF _ping_controller, answers
  <1>9. CASE take_over
      BY <1>9 DEF take_over, backup_slurmctld_restart, answers, silent
  <1>10. CASE run_backup
      BY <1>10 DEF run_backup, finish
  <1>11. CASE _shutdown_primary_controller
      BY <1>11 DEF _shutdown_primary_controller, answers
  <1>12. CASE start
      BY <1>12 DEF start
  <1>13. CASE ask
      BY <1>13, SMT DEF ask, REQUEST_CONTROL, relinquish, resuming
  <1>14. CASE waited
      BY <1>14 DEF waited
  <1>15. CASE reassert
      BY <1>15 DEF reassert, REQUEST_CONTROL, relinquish, resuming
  <1>16. CASE _heartbeat_thread
      BY <1>16 DEF _heartbeat_thread, beats
  <1>17. CASE timeout
      BY <1>17 DEF timeout, beats, answers
  <1>18. CASE hang
      BY <1>18 DEF hang, Fault
  <1>19. CASE recover
      BY <1>19 DEF recover
  <1>20. CASE heartbeat_error
      BY <1>20 DEF heartbeat_error, beats, Fault
  <1>21. CASE start_backup
      BY <1>21 DEF start_backup
  <1> QED  BY StepCases, <1>1, <1>2, <1>3, <1>4, <1>5, <1>6, <1>7, <1>8, <1>9, <1>10,
            <1>11, <1>12, <1>13, <1>14, <1>15, <1>16, <1>17, <1>18, <1>19, <1>20, <1>21

\* FailoverInv is an invariant of the two slurmctlds.
LEMMA FailoverInvariant == Spec => []FailoverInv
  <1>1. Init => FailoverInv
    <2> SUFFICES ASSUME Init PROVE FailoverInv
        OBVIOUS
    <2>1. TypeOK
        BY DEF Init, TypeOK, Ctlds, Modes, Controls, NoFile
    <2>2. ControlInv /\ HandoverInv
        BY DEF Init, ControlInv, HandoverInv, Ctlds, Controls, BackupActive, NoFile
    <2> QED  BY <2>1, <2>2 DEF FailoverInv
  <1>2. FailoverInv /\ [Next]_vars => FailoverInv'
    <2> SUFFICES ASSUME FailoverInv, [Next]_vars PROVE FailoverInv'
        OBVIOUS
    <2>1. CASE Next
        BY <2>1, TypeStep, ControlStep, HandoverStep DEF FailoverInv
    <2>2. CASE UNCHANGED vars
        BY <2>2, SMT DEF FailoverInv, TypeOK, ControlInv, HandoverInv, Controls, BackupActive,
                    vars, data_vars, flag_vars, time_vars, ghost_vars
    <2> QED  BY <2>1, <2>2
  <1> QED  BY <1>1, <1>2, PTL DEF Spec

\* Type correctness; in particular a dump is only going on in a slurmctld
\* that is in control.
THEOREM TypeCorrect == Spec => []TypeOK
  <1>1. FailoverInv => TypeOK  BY DEF FailoverInv
  <1> QED  BY <1>1, FailoverInvariant, PTL

\* Never two slurmctlds in control, unless a primary hung or was starting too
\* long, or a person commanded a takeover, for any number of faults.
THEOREM SingleControl == Spec => []OneController
  <1>1. FailoverInv => OneController
      BY DEF FailoverInv, ControlInv, OneController, BackupActive, Controls
  <1> QED  BY <1>1, FailoverInvariant, PTL

\* The check of the time stamp of job_state shuts no healthy backup down.
THEOREM AlarmJustified == Spec => []NoFalseAlarm
  <1>1. FailoverInv => NoFalseAlarm
      BY DEF FailoverInv, ControlInv, NoFalseAlarm
  <1> QED  BY <1>1, FailoverInvariant, PTL

\* No job is lost in any sequence of orderly changes of control.
THEOREM NoJobLost == Spec => []JobsHandedOver
  <1>1. FailoverInv => JobsHandedOver
      BY DEF FailoverInv, HandoverInv, JobsHandedOver
  <1> QED  BY <1>1, FailoverInvariant, PTL
=============================================================================
