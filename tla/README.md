# Verification of the Slurm simulator

The repository is Slurm 17.11 with a simulation mode: `sim_mgr` replays a trace
of jobs against a real `slurmctld` and one simulated `slurmd`.  Time is a word in
shared memory that only `sim_mgr` advances.  The specifications here are about two
things: what makes such a simulation right or wrong (the hand-over of every simulated
second between three programs full of threads, start-up, two list algorithms), and the
concurrent parts of `slurmctld` itself, where a lost wakeup, a crash or a lost message
does damage: its locks, its queue of outgoing RPCs, its queue of accounting messages,
its state files and the backup controller.

## The system

| part | where | role | modules |
|---|---|---|---|
| time manager | `contribs/simulator/sim_mgr.c` | submits the jobs that are due, posts `slurm_sem`, waits for `sim_sem`, advances the clock | `SimLockstep`, `SimMgr`, `SimStartup`, `JobIdPairs` |
| simulated slurmd | `src/slurmd/slurmd/{slurmd,req}.c` | `_simulator_helper` reports ended jobs, waits for their epilogs, asks for a scheduling cycle, posts `sim_sem`; RPC threads serve launch, terminate and kill | `SimLockstep`, `SimEvents` |
| RPC handlers | `src/slurmctld/proc_req.c` | submission, completion, epilog, and the cycle that runs the schedulers | `SimLockstep` |
| scheduler | `src/slurmctld/job_scheduler.c` | `schedule()`, its deferral, `_sched_agent`, launch | `SimLockstep` |
| backfill | `src/plugins/sched/backfill/backfill.c` | an agent woken and awaited by the cycle through two semaphores | `SimLockstep` |
| background | `src/slurmctld/controller.c`, `job_mgr.c` | time limits, end of the trace, the request counter | `SimLockstep` |
| shared state | `src/common/sim_funcs.c` | clock, number of jobs, registration | `SimLockstep`, `SimStartup` |
| locks | `src/slurmctld/locks.c` | five reader/writer locks with writer priority | `SlurmctldLocks` |
| agent | `src/slurmctld/agent.c`, `ping_nodes.c` | queue of RPCs to the nodes, retries, thread limit, mail, pings | `AgentQueue` |
| accounting agent | `src/common/slurmdbd_defs.c`, `slurm_persist_conn.c`, `src/slurmdbd/proc_req.c` | queue of messages to SlurmDBD, one thread that delivers them, saved in a file at the end; how SlurmDBD works through a batch | `DbdAgent` |
| state save | `src/slurmctld/state_save.c`, `job_mgr.c`, `controller.c` | the thread that dumps the jobs, the file shuffle, recovery, the thread that deletes files of purged jobs | `StateSave` |
| failover | `src/slurmctld/backup.c`, `heartbeat.c`, `controller.c` | which of two controllers is in control | `Failover` |

A simulation runs one controller, and in the simulator build (`SLURM_SIMULATOR`) the save
thread and the periodic save are not compiled (controller.c:598 and 2012): `StateSave` is
about the build without it, and `SimLockstep` about the build with it.  Neither the agent's
launch (job_scheduler.c, about 2705) is used by the simulator build, which sends to the one
slurmd itself.  `PROJECT.json` lists all parts, also those that are not modelled.

## Modules

* `SlurmctldLocks` - the counters of `slurmctld_locks.entity`, the single condition
  variable, ascending locking and descending unlocking.  A critical section of
  `locks_mutex` is a step.  `write_cnt_lock` is only printed and is left out.
* `SimEvents` - the sorted list of completions (`simulator_add_future_event`).
* `SimLockstep` - the composition: `time_mgr`, `_simulator_helper`, one thread per RPC
  on both sides, the cycle handler, `schedule()` with `_sched_agent`, the backfill
  agent, the background thread.  What happens between taking and releasing a mutex
  or the slurmctld locks is one step, except for the two schedulers, which keep the
  locks while they wait for slurmd.  An increment outside of any lock is two steps.
* `SimSemantics` - the abstract specification: seconds in which jobs are submitted,
  and then, with the clock standing still, finish and start.
* `SimMgr` - `sim_mgr` as a whole: the start-up of `SimStartup` (shared memory that
  outlives a run, the job total, the `memset`, the registration, daemons forked or started
  by hand), then the submissions, which fill the table of `JobIdPairs`, the jobs that
  finish and are counted, and the end, at the end point or when all are counted.
* `AgentQueue` - `agent_queue_request`, the thread of `agent_init`, `agent()` with its RPC
  threads and watchdog, mail processes, `ping_begin` and `ping_end`, shutdown.
* `DbdAgent` - `slurm_send_slurmdbd_msg` (with the purge of a nearly full queue), the agent
  thread (batches, answers, ten seconds after a failure, registration), callers of
  `slurm_send_recv_slurmdbd_msg`, `_shutdown_agent` with its cancellation, save and load,
  crash and restart; on the other side `_send_mult_msg` of SlurmDBD.
* `StateSave` - submission and `get_next_job_id`, `purge_old_job` and the purge thread, the
  save thread and `dump_all_job_state` down to each `unlink` and `link`, `save_all_state`,
  shutdown, crash, the two ways to start.  Hard links matter: `job_state.new` may be a
  second name of `job_state` after a crash.
* `Failover` - primary and backup `slurmctld`, ping and heartbeat, `SlurmctldTimeout`,
  takeover by command, `REQUEST_CONTROL`, the check of the time stamp of the state file,
  crashes, hangs, a failing network, a heartbeat file that cannot be written.
* `MC*` - instances; `*Proofs` - theorems and lemmas.

Definitions carry the names of the functions they model; "Mutant" marks altered copies
that show a property can fail.

### Abstractions

`SimLockstep`: jobs take one node each and are scheduled in trace order, so a failed
request means that no node is left; backfill then starts a prefix of the same queue and
may stop early.  Its lock yields and planning are not modelled.  `LockstepAssumption` keeps
the trace within `default_queue_depth + 1` jobs, so a cycle's depth limit is never met;
`_sched_agent`, which asks for a depth of 1, has its own.  `gettimeofday` and the read of
`sched_running` in `schedule()` are one step.  A terminate request reaches slurmd at any
later moment.  `scheduling_disabled`, federation and `max_rpc_cnt` are left out.  At
`MaxClock` the top of the loop stutters.

`AgentQueue`: a request is a number with one of four types (retried, launch, ping, sent to
each node directly).  Whether a node answers, and which nodes are up when a launch is
tested, is arbitrary each time.  An entry of the queue is new, younger or older than the
interval it has to wait.  An ending agent gives its threads back and calls `agent_trigger` in
one step (agent.c:377-391): the trigger only sets flags under a mutex of its own, so doing it
later would delay the next pass and change nothing else.

`SimMgr`: a simulated second is not taken apart; a job of the table may finish, once, at any
time (slurmd sends the epilog of a job when it takes the job off its list of ended jobs).  The
unprotected `total_epilog_complete_jobs++` leaves any value that adds one to an earlier one.
Of the end point only whether there is one and whether the clock is at it is kept.

`DbdAgent`: of a message only its kind is kept, as the purge and SlurmDBD tell kinds apart.
The network can fail at each exchange.  SlurmDBD may fail to record any message of a
batch; a step record that fails ends the batch, while the handlers of job records return
success with the error in the answer, and the next message is handled.  What SlurmDBD does to
record a message is one step.  No time but the ten seconds after a failure is modelled.

`StateSave`: the contents of a file are none, empty, cut short, or the job ids and the
sequence number of a dump.  Only the job state is modelled; nodes, partitions,
reservations and triggers are dumped by the same sequence of calls.  A dump in which a
`link` fails (`link_error`) is one step: no crash comes in the middle of it.

`Failover`: a dump replaces the file in one step (`StateSave` takes it apart); time stamps
are unique; of the times only whether `SlurmctldTimeout` has passed is kept.  Stopping a
backup on standby is the same as its crash.

## Runs

| run | instance | states | result |
|---|---|---|---|
| `locks` | 3 threads, 3 lock requests | 15k | exclusion, wakeups, no deadlock, no reader overtakes a waiting writer, writers are served if holders let go |
| `lockstep` | 3 jobs, 2 nodes, 5 s | 987k | lockstep, no forgotten work, freed nodes seen, counters, sound end, no early end, and `Implements` |
| `lockstep_faults` | 1 job with a limit of 2 s, 2 timeouts, 2 tries, CompleteWait, end point | 2.2M | the token is neither duplicated nor lost |
| `lockstep_live` | 3 jobs, one refused, 1 node, fair | 20k | every second ends, every request is served |
| `sim_mgr` | 4 jobs, forked or by hand, with or without an end point | 64k | registration, table of ids, end of the trace |
| `agent` | 2 requests of any type, 2 nodes, 1 mail, shutdown | 1.4M | counts, no call lost or doubled, nobody forgotten |
| `agent_live` | 2 requests, 1 node, fair, no shutdown | 180k | the queue is served |
| `dbd` | 4 messages, queue of 3, batches of 2, a caller, 1 failure, 1 stop or crash, fair | 160k | nothing lost silently, nothing overtaken, the queue drains, a stop ends |
| `state_save` | ids that wrap at once, 2 submissions, 1 write or link error, 2 stops or crashes, fair | 1.0M | the last dump is found, scripts are kept, a stop saves, saved in time |
| `failover` | 2 jobs, 2 starts, 2 faults, fair | 347k | one controller, no job lost, no false alarm, the backup yields and takes over |

Bounds: two or three jobs make nodes contended, two completions fall into one second
and submissions meet completions; five seconds let each of them happen and the backfill
interval expire.  The fault run keeps a single job because each timeout adds a complete
second handler; its limit is such that a job is killed only when a late message holds its
completion back, and `SendTries` is 2 instead of 6 so that giving up is reached.  Two
requests and `MAX_SERVER_THREADS` of 4 make agents wait for each other and for mail.  Four
messages and a queue of three reach the purge, and `HANDLE_COUNT` of 1 makes batches of two;
that a full queue discards a message takes more of them (`dbd_purge` has five, and the proofs
any number).  With one job id (`MAX_JOB_ID` is never given out) every second submission wants the
number of a job that is being purged; two stops or crashes let a second start meet what a
first crash left.  Larger instances were checked as well: liveness of the agent with two
nodes (551k states), failover with three faults (993k states).

`CHECK_DEADLOCK FALSE` is used where the code really stops: a helper that gave up, an epilog
nobody waits for, start-up with no one to start a daemon, a trace that is submitted, a
controller that is shut down, or bounds that are used up.

### Exceptions the properties name

Some properties hold only with an exception that is in their statement; each is the
behaviour of the code, and dropping it gives a counterexample.

* `WriterServed` (locks): holders let go.  Without that, a thread has the configuration
  read-locked and waits to read the jobs, others write the jobs one after the other, and
  whoever wants to write the configuration waits for ever.  The note of `_wr_rdlock`
  (locks.c:187) admits the starvation of readers; that it spreads to writers is a consequence.
* `NobodyForgotten` (agent): `_mail_proc` (agent.c:1671) gives its
  thread back and tells nobody; an agent that waits for a thread sleeps until another ends.
* `EndComplete` (sim_mgr): not once the clock is at `sim_end_point`, which ends the simulation
  whatever is left (sim_mgr.c:349), and only for daemons that `sim_mgr` forks, see below.
* `HeldUnlessPurged`, `NoSilentLoss` (accounting): a purge during an exchange, see below.
* `NoSilentLoss` (accounting) besides: what a purge or a full queue throws away, what is not in
  the file at a crash, the queue of an agent that is cancelled ("unable to save pending
  requests"), and messages queued in a stop when the agent has already saved its queue and
  ended: they stay in memory and are lost without a word.
* `InOrder` (accounting): a message is not offered to SlurmDBD before an older one.  It may
  be recorded before it: when a job record fails, the rest of the batch is handled, and what
  follows the first failure is sent again.
* `StopSaves` (state save): the last write failed, or locks were still set after
  `CONTROL_TIMEOUT`, when the controller does not ask for a last save (controller.c:1842).  In
  that case every job in memory is in the file, but the sequence number and the list of jobs
  there may be older.
* `StopEnds` (accounting): `pthread_cancel` may end the agent with `slurmdbd_lock` held.  It
  gets there because `_open_slurmdbd_conn` clears `slurmdbd_shutdown` (slurmdbd_defs.c:461)
  and so withdraws the request to stop.
* `Recoverable` (state save): not after two dumps in a row were cut short.  The first leaves
  `job_state.new` as a second name of the file in use, the second truncates it.
* `ScriptsKept` (state save): jobs that had no script directory when they were purged, whose
  number may be handed out again; the comment at controller.c:3194 speaks of that case.
* `StopEnds` (state save): the purge thread waits without testing `shutdown_time` again
  (controller.c:3209); if it was about to wait when it was woken for the last time, the join
  never returns.
* `OneController`, `JobsHandedOver`, `NoFalseAlarm` (failover): a primary in control that
  hangs, or cannot write its heartbeat, for `SlurmctldTimeout`, a takeover by command while the primary is active, a primary
  slow to start, a backup that does not answer at the start or needs more than two seconds to
  save (the FIXME at controller.c:2622).  A partition of the network alone is not among them:
  the heartbeat file tells.

### Where code and comments disagree

* `lockstep_end`: `total_epilog_complete_jobs++` (proc_req.c:2265) is not protected;
  a lost update and the controller never sets the total to -1 (sim_mgr.c:717).
* `dbd_purge`: "Leave item on the queue until processing complete" (slurmdbd_defs.c:1985).  A
  message that nearly fills the queue purges step records (or job starts) while a batch is in
  flight; the answer takes as many messages off the head as it acknowledges, whichever they
  are by now (1820, 2063), and so drops messages that were never sent.

These show up when constants of the instances are changed:

* `lockstep_live` with limits of 1 s: the epilog of a job killed at its limit is counted, but
  the helper never announced it; the cycle waits for equality (proc_req.c:7194) and
  `RequestsServed` fails.
* After a timed-out cycle message, a call of `schedule()` that finds `_sched_agent` past its
  pass over the queue but still pending is dropped (job_scheduler.c:1093, against the comment
  at 1088).  This is why `WorkConserving` ends with the first timeout.
* Daemons started by hand: slurmctld may read a total of 0, which the `memset`
  (sim_mgr.c:312) left, and end the simulation at once (`EndNotPremature` of `SimMgr`).
* `sim_mgr` with `Ordered = FALSE`: the walk of `_get_real_job_id` stops early and misses
  pairs unless ids grow along the trace (sim_mgr.c:190 against 179); `LookupExact` fails.

### Fairness

Weak fairness for each thread: the operating system runs them all.  In addition:

* `SimLockstep`: strong fairness of `terminate_simulation`, which fires when 20 real seconds
  have passed; every turn of `time_mgr` takes real time.
* `AgentQueue`: the background thread triggers about once a second; time passes for entries
  of the queue; strong fairness of an agent getting its threads when there is room again and
  again.  No fairness of shutdown: liveness is about a slurmctld that runs.
* `DbdAgent`: strong fairness of the threads that take `slurmdbd_lock`, as the mutex is free
  again and again; SlurmDBD answers or the connection fails.
* `StateSave`: the save thread, the purge thread and the main thread.
* `Failover`: controllers that do not hang, dumps, the passing of time, and strong fairness of
  the repeated `REQUEST_CONTROL` of the primary.

Nothing is assumed of faults, timeouts of messages, time-limit kills, or of people who start
and stop daemons.

## Proofs

Every safety property of every passing run is also a theorem, for all values of the
constants that meet the named assumptions: any number of threads, jobs, nodes, messages,
faults and restarts, and any limits.  The proofs are checked by TLAPS.  The default prover
of a module is Zenon (`USE Zenon`); a leaf that needs arithmetic, sequences or records
names SMT, a temporal step names PTL.

* `SlurmctldLocksProofs`: `LocksInv` is inductive.  It adds to type correctness where a
  thread stands (`Positions`) and that the counters equal the numbers of holders and
  announced writers (`CountersExact`, a theorem of its own); exclusion, wakeups, deadlock
  freedom (from the ascending order: nobody holds the greatest data type that is waited
  for) and writer priority follow.
* `SimLockstepProofs`, with every timeout, repeated message and time-limit kill:
  * insertion keeps the list of completions ordered (`AddKeepsOrder`), and `TypeOK`;
  * `OneToken`, `Lockstep` and `EventsOrdered` from the invariant `Safe`.  `Lockstep` needs
    that a cycle handler exists just while the helper waits for it (`SlotsOK`), that the
    backfill semaphores carry one token of their own (`BackfillToken`) and that without
    timeouts `sched_running` tells where the one handler is, so that no agent is ever
    started (`RunOK`);
  * `WorkConserving` and `EndSignalSound` from `Complete`.  The first needs `RunOK`: nothing
    is deferred, and a pass that returns has left no startable job.  The second needs
    `CountOK`: lost updates included, the counter and the values threads are about to write
    never exceed the number of jobs whose epilog was counted.
* `SimLockstepUndisturbedProofs`: the simulations `Undisturbed`, in which no message times out
  and no job is killed at its limit (`Calm` steps; the constants of the run `lockstep` allow no
  other).  `Quiet` is inductive.  A running job is being launched, is on the list of completions or
  is being reported, in one of these places only (`FlowOK`); a job that is ending has an epilog
  or terminate thread that will finish it (`EpilogDue`); `waiting_epilog_msgs` is the number of
  such threads, less the one the helper has yet to count (`EndingOK`); and the counters the
  cycle handler waits for are those of the jobs reported in this second (`CountedOK`).  From it:
  * `CountersBalanced` (theorem `CountersReset`);
  * `ScheduleSeesEnded` (`CycleSeesEnded`), which also needs `DueOK`: nothing that is due is left
    on the list once the helper has gone on.  It assumes that jobs run for a second at least;
    a job of duration 0 that is launched in a cycle is due in the same second;
  * `LaunchInfoKnown` (`DurationKnown`) and `EndNotEarly` (`RunsForItsDuration`), from
    `SubmittedOK` and `RanOK`: what is on the list, or reported, is not before start and
    duration.  They assume that no submission is refused: after a refusal the id in
    the message with the duration is whatever the stack held, and may be that of another job;
  * `Implements` (`ProgramsImplement`): the initial states map to those of `SimSemantics` and
    every step to a step of it or a stutter.  It assumes that nothing is refused and that the
    trace is ordered by submission time: `insert_trace_record` keeps the order of the file.
* `SimMgrProofs`: `LookupExact` from `ListInv` (newest and greatest pair first) when ids grow
  along the trace; `SlurmdPresent` and `EndComplete` from `SimInv`, which says what the shared
  memory holds at each place of the start-up, that with forked daemons slurmctld has its copy of
  the number of jobs before the memory is cleared (`ForkInv`), and that the counter is never
  above the number of finished jobs, lost updates included (`CountInv`).
* `AgentQueueProofs`: `AgentInv` is inductive.  A request is in the queue once or in the hands of
  one agent (`OneHolder`); a ping that is not sent yet has nodes (`PingNodes`); the nodes without an answer are those of the groups whose threads
  have not ended (`GroupsOK`); the thread count is the sum of what each agent took; an agent
  that waits, and a request not yet tried, has somebody who ends, is awake or was triggered.
  `ThreadsCounted`, `OnePlace`, `PingsCounted`, `NobodyForgotten` and the action property
  `CallsKept` follow.  Sums over agents are cardinalities of disjoint unions, so that no
  induction over data is needed.
* `DbdAgentProofs`: `TypeOK`, `NoSilentLoss`, `InOrder`, `HaltedAwaited` and the action property
  `HeldUnlessPurged`, from `Control` (who holds the locks at each place of the agent), `Flags`
  and `Data`.  `Data` says that the queue, or the file it will be loaded from, is increasing
  and holds whatever is neither recorded nor excused (`Held`; once the agent has ended, the file
  does, except for the late messages), and that everything older than a message of the batch in
  flight was offered, is excused or is in the batch before it (`Sending`): without that a
  repeated batch could be offered out of order.
* `StateSaveProofs`: `TypeOK`, `Recoverable`, `ScriptsKept` and `StopSaves`, from `Types`,
  `Flags`, `Dumps` (after a complete dump nothing is a link to `job_state.new`, so that the
  next one may be cut short anywhere), `Queue` (a purged id keeps its directory until its only
  entry is served), `Stopping` (from `save_all_state` on, a dump of what is in memory is
  due, under way or done) and, for a stop that asks for no save, `Asked` (every job in memory is
  in the file or a dump with it is due or under way).
* `FailoverProofs`: `OneController` and `NoFalseAlarm` from `ControlInv` (a primary in control has
  a fresh heartbeat, the backup is active only while the primary is down or asks for control,
  and nobody replaced `job_state` since the backup took over), `JobsHandedOver` from
  `HandoverInv` (memory, the dump under way and the file agree about the jobs).

Model-checked only: liveness, as fairness and ENABLED are out of the prover's reach
(`WriterServed`, `SecondCompletes`, `RequestsServed`, `RegistrationNoticed`, both `QueueServed`,
both `StopEnds`, `SavedInTime`, `BackupYields`, `TakesOver`).  `EndSignalled` and
`HeldUntilProcessed` are the two statements that fail.

## Not modelled

* The schedulers' choice: priorities, partitions, reservations, licenses, node selection over
  bitmaps, preemption, backfill's plan of future starts and its lock yields.  These are
  numerical and far beyond small instances; in `SimLockstep` any job that fits may be next.
* Requeue, hold, suspend, job arrays, dependencies and steps: traces hold plain batch jobs.
  `sim_mgr`'s rewriting of dependency strings and its reservations are string processing.
* Semaphores left over from a killed run (`sem_open` with `O_CREAT` keeps their value): the
  lockstep starts from fresh ones.
* The composition of `AgentQueue` with `SimLockstep`, and of `StateSave` with `Failover`: each
  is about 10^5 states or more by itself.  The interfaces are delivery at an arbitrary later
  moment, and a dump in one step.
* Association manager, federation, node and partition manager, power saving, plugins,
  the rest of SlurmDBD and its database, slurmstepd, user commands, protocol packing, trace tools: they
  are sequential, numerical, or input and output.
* `current_micro` (sim_funcs.c), microseconds of simulated time: only seconds are modelled.
