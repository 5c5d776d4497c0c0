------------------------------ MODULE Failover ------------------------------
(***************************************************************************)
(* The primary and the backup slurmctld: who is in control.  The backup    *)
(* pings the primary and reads the heartbeat file (src/slurmctld/backup.c, *)
(* heartbeat.c); the primary asks the backup to give control back when it  *)
(* starts and from time to time (controller.c); a dump of the job state    *)
(* checks the time stamp of the file for traces of a second controller     *)
(* (job_mgr.c).                                                            *)
(*                                                                         *)
(* A job is a number.  Of the times only this is kept: whether the last    *)
(* answer of the primary and the last heartbeat are older than             *)
(* SlurmctldTimeout, and whether the time a controller remembers having    *)
(* written is the one in the file.  The file is replaced in one step;      *)
(* module StateSave takes that step apart.                                 *)
(***************************************************************************)
EXTENDS Integers, FiniteSets

CONSTANTS
  MaxSubmits,    \* bound: jobs submitted
  MaxStarts,     \* bound: starts of a slurmctld after the first two
  MaxFaults      \* bound: crashes, hangs, failures of the network and of the heartbeat file

ASSUME FailoverAssumption == MaxSubmits \in Nat /\ MaxStarts \in Nat /\ MaxFaults \in Nat

Jobs == 1 .. MaxSubmits
Ctlds == {"primary", "backup"}

VARIABLES
  mode,           \* what each slurmctld is doing
  hung,           \* the primary makes no progress
  net,            \* the two hosts can reach each other
  heartbeat,      \* the last heartbeat is younger than SlurmctldTimeout
  response,       \* last_controller_response is
  takeover, resume_backup,
  job_list,       \* of each slurmctld
  dumping, buffer,
  file,           \* the jobs in job_state; a set, or NoFile
  last_file_write_time,   \* "zero", that of the file, or "other"
  alarm,          \* the backup has seen a second controller and shut down
  excused,        \* something happened that the protocol does not guard against
  accepted, crashed,
  starts, faults

data_vars == <<job_list, dumping, buffer, file, last_file_write_time>>
flag_vars == <<takeover, resume_backup>>
time_vars == <<heartbeat, response>>
ghost_vars == <<alarm, excused, accepted, crashed>>
vars == <<mode, hung, net, time_vars, flag_vars, data_vars, ghost_vars, starts, faults>>

NoFile == [there |-> FALSE, jobs |-> {}]
File(j) == [there |-> TRUE, jobs |-> j]

Controls(c) == mode[c] \in {"up", "stopping", "saving"}

(* Mutant: the heart of the backup still beats on standby.                 *)
beatsOn(c) == Controls(c) \/ mode[c] = "standby"

(* The heart of a controller beats from when it is in control until it has *)
(* saved its state.                                                        *)
beats(c) == Controls(c) /\ (c = "primary" => ~hung)
runs(c) == c = "primary" => ~hung

Init ==
  /\ mode = [c \in Ctlds |-> IF c = "primary" THEN "loading" ELSE "standby"]
  /\ hung = FALSE /\ net = TRUE /\ heartbeat = TRUE /\ response = TRUE
  /\ takeover = FALSE /\ resume_backup = FALSE
  /\ job_list = [c \in Ctlds |-> {}] /\ buffer = [c \in Ctlds |-> {}]
  /\ dumping = [c \in Ctlds |-> FALSE] /\ file = NoFile
  /\ last_file_write_time = [c \in Ctlds |-> "zero"]
  /\ alarm = FALSE /\ excused = FALSE /\ accepted = {} /\ crashed = FALSE
  /\ starts = 0 /\ faults = 0

-----------------------------------------------------------------------------
(* A controller: it takes jobs and dumps them, and ends after a last dump. *)
submit(c) ==
  /\ mode[c] = "up" /\ runs(c) /\ Cardinality(accepted) < MaxSubmits
  /\ LET id == Cardinality(accepted) + 1
     IN job_list' = [job_list EXCEPT ![c] = @ \cup {id}] /\ accepted' = accepted \cup {id}
  /\ UNCHANGED <<mode, hung, net, time_vars, flag_vars, dumping, buffer, file,
                 last_file_write_time, alarm, excused, crashed, starts, faults>>

(* The time of the file is not the one this slurmctld wrote.               *)
bad_time(c) == file.there /\ last_file_write_time[c] = "other"

(* The last dump of a controller that is stopping is the one that          *)
(* save_all_state() has asked for.                                         *)
dump_check(c) ==
  /\ mode[c] \in {"up", "stopping"} /\ runs(c) /\ ~dumping[c]
  /\ \/ /\ bad_time(c) /\ c = "backup"
        /\ mode' = [mode EXCEPT ![c] = "dead"] /\ alarm' = TRUE
        /\ UNCHANGED <<dumping, buffer>>
     \/ /\ ~(bad_time(c) /\ c = "backup")
        /\ dumping' = [dumping EXCEPT ![c] = TRUE]
        /\ buffer' = [buffer EXCEPT ![c] = job_list[c]]
        /\ mode' = [mode EXCEPT ![c] = IF @ = "stopping" THEN "saving" ELSE @]
        /\ UNCHANGED alarm
  /\ UNCHANGED <<hung, net, time_vars, flag_vars, job_list, file, last_file_write_time,
                 excused, accepted, crashed, starts, faults>>

dump_write(c) ==
  /\ dumping[c] /\ runs(c) /\ dumping' = [dumping EXCEPT ![c] = FALSE]
  /\ file' = File(buffer[c]) /\ buffer' = [buffer EXCEPT ![c] = {}]
  /\ last_file_write_time' =
       [d \in Ctlds |-> IF d = c THEN "file"
                        ELSE IF last_file_write_time[d] = "zero" THEN "zero" ELSE "other"]
  /\ UNCHANGED <<mode, hung, net, time_vars, flag_vars, job_list, ghost_vars, starts, faults>>

(* Mutant: it ends without the last dump.                                  *)
finishUnsaved(c, to) ==
  /\ mode[c] = "stopping" /\ ~dumping[c] /\ runs(c)
  /\ mode' = [mode EXCEPT ![c] = to] /\ job_list' = [job_list EXCEPT ![c] = {}]
  /\ UNCHANGED <<hung, net, dumping, buffer, file, ghost_vars, faults>>

(* The threads joined, the heartbeat is stopped last.                      *)
finish(c, to) ==
  /\ mode[c] = "saving" /\ ~dumping[c] /\ runs(c)
  /\ mode' = [mode EXCEPT ![c] = to] /\ job_list' = [job_list EXCEPT ![c] = {}]
  /\ UNCHANGED <<hung, net, dumping, buffer, file, ghost_vars, faults>>

(* The primary exits, whoever asked it to stop; the backup does when it    *)
(* was not told to give control back.                                      *)
exit(c) ==
  /\ finish(c, IF c = "primary" THEN "down" ELSE "dead") /\ (c = "backup" => ~resume_backup)
  /\ last_file_write_time' = [last_file_write_time EXCEPT ![c] = "zero"]
  /\ UNCHANGED <<time_vars, flag_vars, starts>>

(* The backup, told to by REQUEST_CONTROL, goes back to standby.           *)
run_backup ==
  /\ finish("backup", "standby") /\ resume_backup
  /\ response' = TRUE /\ takeover' = FALSE /\ resume_backup' = FALSE
  /\ UNCHANGED <<heartbeat, last_file_write_time, starts>>

-----------------------------------------------------------------------------
(* The backup on standby.                                                  *)
answers == net /\ mode["primary"] = "up" /\ ~hung

_ping_controller ==
  /\ mode["backup"] = "standby" /\ answers /\ ~response /\ response' = TRUE
  /\ UNCHANGED <<mode, hung, net, heartbeat, flag_vars, data_vars, ghost_vars, starts, faults>>

(* Mutant: the time of the last write is kept from the last time.          *)
backup_slurmctld_restartNot ==
  UNCHANGED last_file_write_time

backup_slurmctld_restart ==
  last_file_write_time' = [last_file_write_time EXCEPT !["backup"] = "zero"]

(* Mutant: the heartbeat is not looked at.                                 *)
silentPings == ~response

(* use_time is the later of the last heartbeat and the last answer.        *)
silent == ~response /\ ~heartbeat

(* A ping fails and the primary has been silent for too long, or the       *)
(* backup has been told to take over.  Not guarded against: a primary that *)
(* is still starting, and a command to take over.                          *)
take_over ==
  /\ mode["backup"] = "standby" /\ ~answers /\ (takeover \/ silent)
  /\ mode' = [mode EXCEPT !["backup"] = "loading"]
  /\ backup_slurmctld_restart
  /\ excused' = (excused \/ (mode["primary"] # "down" /\ (takeover \/ ~Controls("primary"))))
  /\ UNCHANGED <<hung, net, time_vars, flag_vars, job_list, dumping, buffer, file, alarm,
                 accepted, crashed, starts, faults>>

load(c) ==
  /\ mode[c] = "loading" /\ runs(c)
  /\ mode' = [mode EXCEPT ![c] = "up"] /\ job_list' = [job_list EXCEPT ![c] = file.jobs]
  /\ heartbeat' = TRUE
  /\ UNCHANGED <<hung, net, response, flag_vars, dumping, buffer, file, last_file_write_time,
                 ghost_vars, starts, faults>>

(* REQUEST_TAKEOVER: the primary is asked to stop; whether it could be     *)
(* asked makes no difference.                                              *)
_shutdown_primary_controller ==
  /\ mode["backup"] = "standby" /\ ~takeover /\ takeover' = TRUE
  /\ mode' = IF answers THEN [mode EXCEPT !["primary"] = "stopping"] ELSE mode
  /\ faults < MaxFaults /\ faults' = faults + 1
  /\ UNCHANGED <<hung, net, time_vars, resume_backup, data_vars, ghost_vars, starts>>

-----------------------------------------------------------------------------
(* The primary asks for control.  A backup on standby answers that it has  *)
(* none, one in control begins to stop, one that is loading or stopping    *)
(* does not answer.                                                        *)
REQUEST_CONTROL ==
  /\ net
  /\ \/ mode["backup"] = "standby" /\ response' = TRUE
     \/ mode["backup"] = "up" /\ UNCHANGED response

relinquish == IF mode["backup"] = "up" THEN "stopping" ELSE mode["backup"]
resuming == resume_backup \/ mode["backup"] = "up"

start ==
  /\ mode["primary"] = "down" /\ starts < MaxStarts /\ starts' = starts + 1
  /\ mode' = [mode EXCEPT !["primary"] = "asking"]
  /\ UNCHANGED <<hung, net, time_vars, flag_vars, data_vars, ghost_vars, faults>>

(* When it starts it goes on even if it could not ask.                     *)
ask ==
  /\ mode["primary"] = "asking" /\ ~hung
  /\ \/ /\ REQUEST_CONTROL
        /\ mode' = [mode EXCEPT !["primary"] = "waiting", !["backup"] = relinquish]
        /\ resume_backup' = resuming /\ UNCHANGED excused
     \/ /\ ~net \/ mode["backup"] \in {"loading", "stopping", "saving", "dead"}
        /\ mode' = [mode EXCEPT !["primary"] = "loading"]
        /\ excused' = (excused \/ mode["backup"] \notin {"standby", "dead"})
        /\ UNCHANGED <<response, resume_backup>>
  /\ UNCHANGED <<hung, net, heartbeat, takeover, data_vars, alarm, accepted, crashed, starts,
                 faults>>

(* It waits for two seconds; not guarded against: a backup that needs      *)
(* longer to save its state.                                               *)
waited ==
  /\ mode["primary"] = "waiting" /\ ~hung
  /\ mode' = [mode EXCEPT !["primary"] = "loading"]
  /\ excused' = (excused \/ mode["backup"] \notin {"standby", "dead"})
  /\ UNCHANGED <<hung, net, time_vars, flag_vars, data_vars, alarm, accepted, crashed, starts,
                 faults>>

(* Mutant: only the backup on standby is reminded.                         *)
reassertStandby ==
  /\ mode["primary"] = "up" /\ ~hung /\ REQUEST_CONTROL /\ mode["backup"] = "standby"
  /\ UNCHANGED <<mode, hung, net, heartbeat, flag_vars, data_vars, ghost_vars, starts, faults>>

(* "Reassert this machine as the primary controller."                      *)
reassert ==
  /\ mode["primary"] = "up" /\ ~hung /\ REQUEST_CONTROL
  /\ mode' = [mode EXCEPT !["backup"] = relinquish] /\ resume_backup' = resuming
  /\ UNCHANGED <<hung, net, heartbeat, takeover, data_vars, ghost_vars, starts, faults>>

-----------------------------------------------------------------------------
(* Time: SlurmctldTimeout passes without a heartbeat, or without an answer.*)
(* Not guarded against: a primary in control that hangs for that long.     *)
_heartbeat_thread ==
  /\ ~heartbeat /\ (\E c \in Ctlds : beats(c)) /\ heartbeat' = TRUE
  /\ UNCHANGED <<mode, hung, net, response, flag_vars, data_vars, ghost_vars, starts, faults>>

timeout ==
  /\ \/ heartbeat /\ ~(\E c \in Ctlds : beats(c)) /\ heartbeat' = FALSE /\ UNCHANGED response
        /\ excused' = (excused \/ (hung /\ Controls("primary")))
     \/ response /\ mode["backup"] = "standby" /\ ~answers /\ response' = FALSE
        /\ UNCHANGED <<heartbeat, excused>>
  /\ UNCHANGED <<mode, hung, net, flag_vars, data_vars, alarm, accepted, crashed, starts, faults>>

-----------------------------------------------------------------------------
(* What goes wrong, and what people do.                                    *)
Fault == faults < MaxFaults /\ faults' = faults + 1

(* The heartbeat file cannot be written, or linked, until the last beat in *)
(* it is too old; not guarded against while the primary is in control.     *)
heartbeat_error ==
  /\ heartbeat /\ (\E c \in Ctlds : beats(c)) /\ heartbeat' = FALSE
  /\ excused' = (excused \/ Controls("primary"))
  /\ Fault
  /\ UNCHANGED <<mode, hung, net, response, flag_vars, data_vars, alarm, accepted, crashed, starts>>

hang ==
  /\ \/ ~hung /\ mode["primary"] # "down" /\ hung' = TRUE /\ UNCHANGED net
     \/ net /\ net' = FALSE /\ UNCHANGED hung
  /\ Fault
  /\ UNCHANGED <<mode, time_vars, flag_vars, data_vars, ghost_vars, starts>>

recover ==
  /\ \/ hung /\ hung' = FALSE /\ UNCHANGED net
     \/ ~net /\ net' = TRUE /\ UNCHANGED hung
  /\ UNCHANGED <<mode, time_vars, flag_vars, data_vars, ghost_vars, starts, faults>>

crash(c) ==
  /\ mode[c] \notin {"down", "dead"} /\ Fault
  /\ mode' = [mode EXCEPT ![c] = IF c = "primary" THEN "down" ELSE "dead"]
  /\ crashed' = (crashed \/ Controls(c))
  /\ hung' = (hung /\ c # "primary")
  /\ job_list' = [job_list EXCEPT ![c] = {}] /\ buffer' = [buffer EXCEPT ![c] = {}]
  /\ dumping' = [dumping EXCEPT ![c] = FALSE]
  /\ last_file_write_time' = [last_file_write_time EXCEPT ![c] = "zero"]
  /\ UNCHANGED <<net, time_vars, flag_vars, file, alarm, excused, accepted, starts>>

stop(c) ==
  /\ mode[c] = "up" /\ runs(c) /\ mode' = [mode EXCEPT ![c] = "stopping"]
  /\ Fault
  /\ UNCHANGED <<hung, net, time_vars, flag_vars, data_vars, ghost_vars, starts>>

start_backup ==
  /\ mode["backup"] = "dead" /\ starts < MaxStarts /\ starts' = starts + 1
  /\ mode' = [mode EXCEPT !["backup"] = "standby"]
  /\ job_list' = [job_list EXCEPT !["backup"] = {}]
  /\ last_file_write_time' = [last_file_write_time EXCEPT !["backup"] = "zero"]
  /\ response' = TRUE /\ takeover' = FALSE /\ resume_backup' = FALSE /\ alarm' = FALSE
  /\ UNCHANGED <<hung, net, heartbeat, dumping, buffer, file, excused, accepted, crashed, faults>>

controller(c) == load(c) \/ dump_check(c) \/ dump_write(c)
primary_step == ask \/ waited \/ exit("primary") \/ controller("primary")
backup_step == take_over \/ _ping_controller \/ run_backup \/ exit("backup") \/ controller("backup")

Next ==
  \/ primary_step \/ backup_step \/ reassert \/ _shutdown_primary_controller
  \/ _heartbeat_thread \/ timeout \/ start \/ start_backup
  \/ heartbeat_error \/ hang \/ recover
  \/ \E c \in Ctlds : submit(c) \/ crash(c) \/ stop(c)

Spec == Init /\ [][Next]_vars

(* A slurmctld that does not hang makes progress, and time passes.  The    *)
(* dumps of a controller in control are repeated for ever, so that what it *)
(* does besides is fair on its own.                                        *)
FairSpec ==
  /\ Spec
  /\ WF_vars(primary_step /\ mode'["primary"] # mode["primary"])
  /\ WF_vars(backup_step /\ mode'["backup"] # mode["backup"])
  /\ WF_vars(dump_write("primary")) /\ WF_vars(dump_write("backup"))
  /\ SF_vars(reassert /\ mode["backup"] = "up") /\ WF_vars(timeout) /\ WF_vars(_heartbeat_thread)

-----------------------------------------------------------------------------
Modes == {"down", "asking", "waiting", "standby", "loading", "up", "stopping", "saving", "dead"}

TypeOK ==
  /\ mode \in [Ctlds -> Modes]
  /\ hung \in BOOLEAN /\ net \in BOOLEAN /\ heartbeat \in BOOLEAN /\ response \in BOOLEAN
  /\ takeover \in BOOLEAN /\ resume_backup \in BOOLEAN
  /\ alarm \in BOOLEAN /\ excused \in BOOLEAN /\ crashed \in BOOLEAN
  /\ job_list \in [Ctlds -> SUBSET Jobs] /\ buffer \in [Ctlds -> SUBSET Jobs]
  /\ dumping \in [Ctlds -> BOOLEAN] /\ \A c \in Ctlds : dumping[c] => Controls(c)
  /\ file \in [there : BOOLEAN, jobs : SUBSET Jobs] /\ accepted \subseteq Jobs
  /\ last_file_write_time \in [Ctlds -> {"zero", "file", "other"}]

(* Two slurmctlds are never in control at the same time, even when the     *)
(* network between them fails, unless something happens that the protocol  *)
(* does not guard against.                                                 *)
OneController ==
  Controls("primary") /\ mode["backup"] \in {"loading", "up", "stopping", "saving"} => excused

(* Through every orderly change of control no job is lost: the slurmctld   *)
(* in control has all of them, and when there is none the file has.        *)
JobsHandedOver ==
  ~excused /\ ~crashed =>
    /\ \A c \in Ctlds : Controls(c) => job_list[c] = accepted
    /\ (\A c \in Ctlds : ~Controls(c)) => file.jobs = accepted

(* The backup shuts itself down only if there was a second controller.     *)
NoFalseAlarm == alarm => excused

(* When the primary runs and reaches the backup, the backup gives control  *)
(* back for good, whatever happened before.                                *)
BackupYields ==
  <>[](mode["primary"] = "up" /\ net /\ ~hung) => <>[]~Controls("backup")

(* When the primary stays down, a backup that stays alive takes control.   *)
TakesOver ==
  <>[](mode["primary"] = "down" /\ mode["backup"] # "dead") => <>[](mode["backup"] = "up")
=============================================================================
