------------------------------ MODULE StateSave ------------------------------
(***************************************************************************)
(* How slurmctld keeps its jobs across restarts: the thread that saves the *)
(* state (src/slurmctld/state_save.c), the shuffle of the three names      *)
(* job_state.new, job_state and job_state.old by dump_all_job_state(),     *)
(* their recovery, the numbering of jobs, the thread that deletes the      *)
(* files of purged jobs, and the order in which all of it is stopped.      *)
(*                                                                         *)
(* A job is its number.  A file is empty or cut short while it is being    *)
(* written, and opening one of its names again truncates what its other    *)
(* names see.  Only the save thread touches the state files of a running   *)
(* slurmctld, so that writing and renaming them is one step, during which  *)
(* the process may be killed after any of the system calls.                *)
(***************************************************************************)
EXTENDS Integers, Sequences, FiniteSets, Functions

CONSTANTS
  FIRST_JOB_ID, MAX_JOB_ID,   \* first_job_id and max_job_id, never handed out
  MaxSubmits,                 \* bound: jobs submitted
  MaxErrors,                  \* bound: failing system calls on the state files
  MaxStops                    \* bound: orderly stops and crashes

ASSUME SaveAssumption ==
  /\ FIRST_JOB_ID \in Nat \ {0} /\ MAX_JOB_ID \in Nat /\ FIRST_JOB_ID < MAX_JOB_ID
  /\ MaxSubmits \in Nat /\ MaxErrors \in Nat /\ MaxStops \in Nat

Ids == FIRST_JOB_ID .. MAX_JOB_ID - 1

VARIABLES
  ctld,               \* the main thread
  locks_set,          \* _report_locks_set() found a lock set in this stop
  job_list, job_id_sequence,
  dirs,               \* the jobs that have a directory with their script
  purge_files_list, purger,   \* jobs whose directory is to be deleted, by whom
  bare,               \* queued jobs that had no directory when they were queued
  missed,             \* the purge thread was about to wait when last woken
  save_jobs, run_save_thread,
  saver, buffer,      \* the state save thread, and what it is about to write
  fs,                 \* the state files
  saved,              \* what the last completed dump wrote
  failed,             \* the last dump failed
  cut,                \* dumps cut short or not linked since the last completed one
  submits, errors, stops

job_vars == <<job_list, job_id_sequence, submits>>
purge_vars == <<dirs, purge_files_list, purger, bare, missed>>
file_vars == <<fs, saved, failed, cut, errors>>
save_vars == <<save_jobs, run_save_thread, saver, buffer>>
vars == <<ctld, locks_set, job_vars, purge_vars, file_vars, save_vars, stops>>

(* The contents of a file, and of one that does not exist.                 *)
None == [state |-> "none", seq |-> 0, jobs |-> {}]
Empty == [state |-> "empty", seq |-> 0, jobs |-> {}]
Part(c) == [c EXCEPT !.state = "part", !.jobs = {}]
Full(s, j) == [state |-> "full", seq |-> s, jobs |-> j]
Memory == Full(job_id_sequence, job_list)

Content == [state : {"none", "empty", "part", "full"}, seq : 0 .. MAX_JOB_ID - 1,
            jobs : SUBSET Ids]
Files == [reg : Content, old : Content, new : Content, same : SUBSET {"reg", "old"}]

Init ==
  /\ ctld = "down" /\ locks_set = FALSE /\ job_list = {} /\ job_id_sequence = 0
  /\ dirs = {} /\ purge_files_list = << >> /\ purger = "none" /\ bare = {} /\ missed = FALSE
  /\ save_jobs = FALSE /\ run_save_thread = TRUE /\ saver = "none" /\ buffer = None
  /\ fs = [reg |-> None, old |-> None, new |-> None, same |-> {}]
  /\ saved = None /\ failed = FALSE /\ cut = 0
  /\ submits = 0 /\ errors = 0 /\ stops = 0

-----------------------------------------------------------------------------
MAX(m, n) == IF m > n THEN m ELSE n

numbers == FIRST_JOB_ID .. MAX_JOB_ID - 1

_dup_job_file_test(id) == id \in dirs

(* Mutant: vestigial files are not looked for.                             *)
is_freeBlind(id) == id \in numbers /\ id \notin job_list

is_free(id) == id \in numbers /\ id \notin job_list /\ ~_dup_job_file_test(id)

(* When the search for a number comes to n: after job_id_sequence, and     *)
(* from the first number on after the last.                                *)
turn(n) == IF n > MAX(job_id_sequence, FIRST_JOB_ID) THEN n ELSE n + MAX_JOB_ID

(* get_next_job_id(): the first number in turn that has neither a job nor  *)
(* a directory, if there is one.                                           *)
get_next_job_id(id) ==
  is_free(id) /\ \A n \in numbers : is_free(n) => turn(id) <= turn(n)

(* A submission: the record, and the directory if there is a script, under *)
(* the job write lock, then the request to save.                           *)
job_submit(script) ==
  /\ ctld \in {"up", "stopping"} /\ submits < MaxSubmits /\ submits' = submits + 1
  /\ \E id \in numbers :
       /\ get_next_job_id(id)
       /\ job_list' = job_list \cup {id}
       /\ dirs' = IF script THEN dirs \cup {id} ELSE dirs
       /\ job_id_sequence' = id
  /\ save_jobs' = TRUE
  /\ UNCHANGED <<ctld, locks_set, purge_files_list, purger, bare, missed, file_vars, run_save_thread,
                 saver, buffer, stops>>

(* The periodic save of everything by _slurmctld_background().             *)
checkpoint ==
  /\ ctld = "up" /\ ~save_jobs /\ save_jobs' = TRUE
  /\ UNCHANGED <<ctld, locks_set, job_vars, purge_vars, file_vars, run_save_thread, saver, buffer, stops>>

-----------------------------------------------------------------------------
(* purge_old_job() and _purge_files_thread().  The signal reaches the      *)
(* thread only while it waits, not while it is about to.                   *)
signal(pc) == IF pc = "wait" THEN "work" ELSE pc

purge_old_job(id) ==
  /\ ctld \in {"up", "stopping"} /\ id \in job_list
  /\ job_list' = job_list \ {id}
  /\ purge_files_list' = Append(purge_files_list, id)
  /\ bare' = IF id \in dirs THEN bare ELSE bare \cup {id}
  /\ purger' = signal(purger)
  /\ UNCHANGED <<ctld, locks_set, job_id_sequence, submits, dirs, missed, file_vars, save_vars, stops>>

(* The loop of the purge thread tests shutdown_time, then waits.           *)
looped == IF ctld = "up" THEN "about" ELSE "none"

purge_wait ==
  /\ \/ purger = "test" /\ purger' = looped
     \/ purger = "about" /\ purger' = "wait"
  /\ UNCHANGED <<ctld, locks_set, job_vars, dirs, purge_files_list, bare, missed, file_vars, save_vars,
                 stops>>

delete_job_desc_files ==
  /\ purger = "work"
  /\ \/ /\ purge_files_list # << >> /\ purge_files_list' = Tail(purge_files_list)
        /\ dirs' = dirs \ {Head(purge_files_list)}
        /\ bare' = bare \cap Range(purge_files_list')
        /\ UNCHANGED purger
     \/ /\ purge_files_list = << >> /\ purger' = looped
        /\ UNCHANGED <<dirs, purge_files_list, bare>>
  /\ UNCHANGED <<ctld, locks_set, job_vars, missed, file_vars, save_vars, stops>>

-----------------------------------------------------------------------------
(* slurmctld_state_save(): it takes the request, or ends if there is none  *)
(* and it has been told to.                                                *)
Goto(from, to) == saver = from /\ saver' = to

(* Mutant: told to end, the thread ends.                                   *)
slurmctld_state_saveEnds ==
  /\ \/ run_save_thread /\ save_jobs /\ save_jobs' = FALSE
        /\ Goto("wait", "header") /\ UNCHANGED run_save_thread
     \/ ~run_save_thread /\ run_save_thread' = TRUE
        /\ Goto("wait", "none") /\ UNCHANGED save_jobs
  /\ UNCHANGED <<ctld, locks_set, job_vars, purge_vars, file_vars, buffer, stops>>

slurmctld_state_save ==
  /\ \/ /\ save_jobs /\ save_jobs' = FALSE
        /\ Goto("wait", "header") /\ UNCHANGED run_save_thread
     \/ /\ ~save_jobs /\ ~run_save_thread /\ run_save_thread' = TRUE
        /\ Goto("wait", "none") /\ UNCHANGED save_jobs
  /\ UNCHANGED <<ctld, locks_set, job_vars, purge_vars, file_vars, buffer, stops>>

(* dump_all_job_state(): the header with job_id_sequence is packed before  *)
(* the job lock is taken, the records of the jobs while it is held.        *)
pack_header ==
  /\ Goto("header", "records") /\ buffer' = Full(job_id_sequence, {})
  /\ UNCHANGED <<ctld, locks_set, job_vars, purge_vars, file_vars, save_jobs, run_save_thread, stops>>

_dump_job_state ==
  /\ Goto("records", "write") /\ buffer' = [buffer EXCEPT !.jobs = job_list]
  /\ UNCHANGED <<ctld, locks_set, job_vars, purge_vars, file_vars, save_jobs, run_save_thread, stops>>

(* The system calls on the state files.  same holds the names that are     *)
(* links to the file named job_state.new.                                  *)
put(f, c) ==
  [f EXCEPT !.new = c, !.reg = IF "reg" \in f.same THEN c ELSE @,
            !.old = IF "old" \in f.same THEN c ELSE @]

open_new(f) == put(f, Empty)
unlink_new(f) == [f EXCEPT !.new = None, !.same = {}]
unlink_old(f) == [f EXCEPT !.old = None, !.same = @ \ {"old"}]
link_old(f) == [f EXCEPT !.old = f.reg, !.same = IF "reg" \in @ THEN @ \cup {"old"} ELSE @]
unlink_reg(f) == [f EXCEPT !.reg = None, !.same = @ \ {"reg"}]
link_reg(f) == [f EXCEPT !.reg = f.new, !.same = @ \cup {"reg"}]

(* Mutant: the file that is to be kept is unlinked before it is linked.    *)
shuffledUnlinked(f) ==
  LET a == unlink_old(f) b == unlink_reg(a) c == link_old(b) d == link_reg(c)
  IN <<f, a, b, c, d, unlink_new(d)>>

(* The file shuffle: the files after each of its calls.                    *)
shuffled(f) ==
  LET a == unlink_old(f) b == link_old(a) c == unlink_reg(b) d == link_reg(c)
  IN <<f, a, b, c, d, unlink_new(d)>>

(* job_state.new while it is being written.                                *)
written(f, c) == {open_new(f), put(open_new(f), Part(c)), put(open_new(f), c)}

(* Mutant: the requests are cleared when the dump is complete.             *)
dump_doneClears ==
  /\ Goto("write", "wait") /\ fs' = shuffled(put(open_new(fs), buffer))[6]
  /\ saved' = buffer /\ failed' = FALSE /\ cut' = 0 /\ buffer' = None /\ save_jobs' = FALSE
  /\ UNCHANGED <<ctld, locks_set, job_vars, purge_vars, errors, run_save_thread, stops>>

dump_done ==
  /\ Goto("write", "wait") /\ fs' = shuffled(put(open_new(fs), buffer))[6]
  /\ saved' = buffer /\ failed' = FALSE /\ cut' = 0 /\ buffer' = None
  /\ UNCHANGED <<ctld, locks_set, job_vars, purge_vars, errors, save_jobs, run_save_thread, stops>>

(* An error of open(), write() or fsync(): the new name is removed.        *)
dump_error ==
  /\ Goto("write", "wait") /\ errors < MaxErrors /\ errors' = errors + 1
  /\ \E f \in {fs} \cup written(fs, buffer) :
       fs' = unlink_new(f) /\ cut' = IF f = fs THEN cut ELSE cut + 1
  /\ failed' = TRUE /\ buffer' = None
  /\ UNCHANGED <<ctld, locks_set, job_vars, purge_vars, saved, save_jobs, run_save_thread, stops>>

(* An error of one of the two link() calls of the shuffle, which goes on:  *)
(* without the first there is no job_state.old, without the second no      *)
(* job_state, and the dump is lost with job_state.new.                     *)
link_error ==
  LET f == unlink_old(put(open_new(fs), buffer))
  IN /\ Goto("write", "wait") /\ errors < MaxErrors /\ errors' = errors + 1
     /\ \/ /\ fs' = unlink_new(link_reg(unlink_reg(f)))
           /\ saved' = buffer /\ failed' = FALSE /\ cut' = 0
        \/ /\ fs' = unlink_new(unlink_reg(link_old(f)))
           /\ failed' = TRUE /\ cut' = cut + 1 /\ UNCHANGED saved
     /\ buffer' = None
     /\ UNCHANGED <<ctld, locks_set, job_vars, purge_vars, save_jobs, run_save_thread, stops>>

dump_all_job_state ==
  pack_header \/ _dump_job_state \/ dump_done \/ dump_error \/ link_error

-----------------------------------------------------------------------------
(* The end of the process: shutdown_time is set; the last RPC over,        *)
(* everything is saved, unless some thread holds or waits for a lock; the  *)
(* save thread is told to end and the purge thread woken; both are joined. *)
stop ==
  /\ ctld = "up" /\ ctld' = "stopping" /\ stops < MaxStops /\ stops' = stops + 1
  /\ UNCHANGED <<locks_set, job_vars, purge_vars, file_vars, save_vars>>

save_all_state ==
  /\ ctld = "stopping" /\ ctld' = "saving" /\ save_jobs' = TRUE
  /\ UNCHANGED <<locks_set, job_vars, purge_vars, file_vars, run_save_thread, saver, buffer, stops>>

(* "Semaphores still set ..., can not save state": a lock is set by the    *)
(* save thread while it packs, or by any of the threads not modelled here. *)
can_not_save_state ==
  /\ ctld = "stopping" /\ ctld' = "saving" /\ locks_set' = TRUE
  /\ UNCHANGED <<job_vars, purge_vars, file_vars, save_vars, stops>>

(* Mutant: the purge thread is not woken.                                  *)
shutdown_state_saveQuiet ==
  /\ ctld = "saving" /\ ctld' = "joining" /\ run_save_thread' = FALSE
  /\ UNCHANGED <<locks_set, job_vars, purge_vars, file_vars, save_jobs, saver, buffer, stops>>

shutdown_state_save ==
  /\ ctld = "saving" /\ ctld' = "joining" /\ run_save_thread' = FALSE
  /\ purger' = signal(purger) /\ missed' = (purger = "about")
  /\ UNCHANGED <<locks_set, job_vars, dirs, purge_files_list, bare, file_vars, save_jobs, saver,
                 buffer, stops>>

(* What is left of the process: the files.                                 *)
gone ==
  /\ ctld' = "down" /\ locks_set' = FALSE /\ job_list' = {} /\ job_id_sequence' = 0
  /\ purge_files_list' = << >> /\ purger' = "none" /\ bare' = {} /\ missed' = FALSE
  /\ save_jobs' = FALSE /\ run_save_thread' = TRUE /\ saver' = "none" /\ buffer' = None
  /\ UNCHANGED <<dirs, failed, errors, submits>>

exit ==
  /\ ctld = "joining" /\ purger = "none" /\ saver = "none"
  /\ gone /\ UNCHANGED <<fs, saved, cut, stops>>

(* Killed, maybe in the middle of a dump, which counts as written from     *)
(* when job_state names the new file.                                      *)
crash ==
  /\ ctld # "down" /\ stops < MaxStops /\ stops' = stops + 1
  /\ gone
  /\ \/ UNCHANGED <<fs, saved, cut>>
     \/ /\ saver = "write" /\ cut' = cut + 1
        /\ \/ fs' \in written(fs, buffer) /\ UNCHANGED saved
           \/ \E i \in 2 .. 5 :
                /\ fs' = shuffled(put(open_new(fs), buffer))[i]
                /\ saved' = IF i = 5 THEN buffer ELSE saved

(* job_state, or job_state.old if that is missing or too small.            *)
_open_job_state_file == IF fs.reg.state \in {"none", "empty"} THEN fs.old ELSE fs.reg

(* Starting, with the threads; sync_job_files() removes the directories    *)
(* that belong to no job.                                                  *)
started(jobs, seq) ==
  /\ ctld = "down" /\ ctld' = "up"
  /\ job_list' = jobs /\ job_id_sequence' = seq /\ dirs' = dirs \cap jobs
  /\ saver' = "wait" /\ purger' = "test"
  /\ UNCHANGED <<locks_set, submits, purge_files_list, bare, missed, file_vars, save_jobs, run_save_thread, buffer,
                 stops>>

(* A file that is empty or cut short is fatal.                             *)
load_all_job_state ==
  LET file == _open_job_state_file
  IN file.state \notin {"empty", "part"} /\ started(file.jobs, MAX(file.seq, FIRST_JOB_ID))

(* A start that recovers nothing but the last number, and looks at         *)
(* job_state only.  A file without a whole header is fatal.                *)
load_last_job_id ==
  fs.reg # Empty /\ started({}, MAX(fs.reg.seq, FIRST_JOB_ID))

-----------------------------------------------------------------------------
purge_step == purge_wait \/ delete_job_desc_files
save_step == slurmctld_state_save \/ dump_all_job_state
main_step == save_all_state \/ can_not_save_state \/ shutdown_state_save \/ exit
start_step == load_all_job_state \/ load_last_job_id

Next ==
  \/ checkpoint \/ purge_step \/ save_step \/ main_step
  \/ start_step \/ stop \/ crash
  \/ \E script \in BOOLEAN : job_submit(script)
  \/ \E id \in Ids : purge_old_job(id)

Spec == Init /\ [][Next]_vars

(* The threads of a running slurmctld run.                                 *)
FairSpec ==
  /\ Spec
  /\ WF_vars(purge_step) /\ WF_vars(save_step)
  /\ WF_vars(main_step)

-----------------------------------------------------------------------------
TypeOK ==
  /\ ctld \in {"down", "up", "stopping", "saving", "joining"}
  /\ job_list \subseteq Ids /\ dirs \subseteq Ids
  /\ purge_files_list \in Seq(Ids) /\ bare \subseteq Range(purge_files_list)
  /\ job_id_sequence \in 0 .. MAX_JOB_ID - 1
  /\ purger \in {"none", "test", "about", "wait", "work"}
  /\ locks_set \in BOOLEAN
  /\ missed \in BOOLEAN /\ save_jobs \in BOOLEAN /\ run_save_thread \in BOOLEAN /\ failed \in BOOLEAN
  /\ saver \in {"none", "wait", "header", "records", "write"}
  /\ buffer \in Content /\ saved \in Content /\ fs \in Files
  /\ cut \in Nat

(* A start finds exactly what the last completed dump wrote, wherever the  *)
(* process was killed and whichever write or link failed since, unless it  *)
(* is the second time in a row that a dump was cut short.                  *)
Recoverable ==
  ctld = "down" /\ cut <= 1 => _open_job_state_file = saved

(* The purge thread deletes files without the job lock.  A number is not   *)
(* handed out again before the files of the job that had it are deleted,   *)
(* so that what is deleted is never the script of a later job: this holds  *)
(* for the jobs that had a directory when they were purged.                *)
ScriptsKept == Range(purge_files_list) \cap job_list \subseteq bare

(* An orderly stop leaves nothing unsaved, unless the last dump failed or  *)
(* locks were still set and nothing was asked for: then the state may be   *)
(* old, but the jobs that were submitted are in it, as each submission has *)
(* asked for a dump of its own and the save thread ends with none to do.   *)
StopSaves ==
  [][ctld = "joining" /\ ctld' = "down" /\ saver = "none" /\ purger = "none"
       => \/ failed \/ saved = Memory
          \/ locks_set /\ job_list \subseteq _open_job_state_file.jobs]_vars

(* While slurmctld runs, what it would find after a crash catches up with  *)
(* the jobs that were submitted, without waiting for the next job or the   *)
(* periodic save: a request that comes in during a dump is not lost with   *)
(* the ones the dump answers.                                              *)
SavedInTime ==
  []<>(job_list \subseteq _open_job_state_file.jobs \/ failed \/ ctld # "up")

(* A stop comes to its end, except when the purge thread was about to wait *)
(* when it was woken for the last time.                                    *)
StopEnds ==
  []<>(ctld \in {"up", "down"} \/ missed)

=============================================================================
