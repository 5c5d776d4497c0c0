------------------------------ MODULE DbdAgent ------------------------------
(***************************************************************************)
(* The accounting agent of slurmctld (src/common/slurmdbd_defs.c): the     *)
(* queue of messages for SlurmDBD, the thread that delivers them in        *)
(* batches and keeps each one queued until SlurmDBD has answered, the      *)
(* callers that talk to SlurmDBD synchronously on the same connection and  *)
(* push the agent aside while they do, and what becomes of the queue when  *)
(* slurmctld stops, is killed, or starts again.                            *)
(*                                                                         *)
(* Messages are numbered in the order they are sent and have a kind.  The  *)
(* clock is abstract: "fail_time is less than 10 s ago" is a flag that     *)
(* passing time clears.  The storage behind SlurmDBD and the network are   *)
(* external: they may fail a message, lose an answer or a connection,      *)
(* MaxFaults times.                                                        *)
(***************************************************************************)
EXTENDS Integers, Sequences, FiniteSets, Functions

CONSTANTS
  Kind,               \* the kind of each message, in the order they are sent
  MAX_AGENT_QUEUE,    \* max_agent_queue, the length the queue is held to
  HANDLE_COUNT,       \* handle_agent_count, a batch holds at most one more
  Callers,            \* threads that call slurm_send_recv_slurmdbd_msg()
  MaxFaults,          \* bound: failures of SlurmDBD, the network, the disk
  MaxStops            \* bound: orderly stops and crashes of slurmctld

Messages == 1 .. Len(Kind)
Kinds == {"job_start", "step", "job_complete"}

(* The queue has room for something, a batch for more than one message.    *)
ASSUME DbdAssumption ==
  /\ Kind \in Seq(Kinds)
  /\ MAX_AGENT_QUEUE \in Nat \ {0}
  /\ HANDLE_COUNT \in Nat \ {0}
  /\ MaxFaults \in Nat /\ MaxStops \in Nat
  /\ IsFiniteSet(Callers)

VARIABLES
  agent_list,         \* the queue, or NULL: a sequence of messages
  agent_tid,          \* where the agent thread is; "none": agent_tid is 0
  batch,              \* the messages of the exchange in progress
  reply,              \* how many of them SlurmDBD has acknowledged
  fail_time,          \* the last attempt failed, less than 10 s ago
  need_to_register,
  slurmdbd_lock,      \* who holds it
  agent_lock,         \* who holds it beyond a step: only a dead agent
  slurmdbd_conn,      \* the connection is open
  halt_agent,
  slurmdbd_shutdown,
  caller,             \* where each synchronous caller is
  ctld,               \* what the main thread does about the connection
  dbd_messages,       \* the file the queue is saved in
  sent,               \* how many messages slurmctld has tried to send
  offered,            \* the messages SlurmDBD has tried to record
  recorded,           \* the messages SlurmDBD has recorded
  late,               \* queued in this stop when no agent was left to take them
  excused,            \* purged or discarded, given up with "unable to save pending requests",
                      \* not saved by a failing write, lost in a crash, dropped by an answer
                      \* after a purge has shifted the queue, or late when the process ended
  faults,             \* failures so far
  stops               \* stops and crashes so far

queue_vars == <<agent_list, dbd_messages, sent, offered, recorded, late,
                excused>>
conn_vars == <<slurmdbd_lock, agent_lock, slurmdbd_conn, halt_agent, slurmdbd_shutdown>>
thread_vars == <<agent_tid, batch, reply, fail_time, need_to_register>>
env_vars == <<caller, ctld, faults, stops>>
vars == <<queue_vars, conn_vars, thread_vars, env_vars>>

NULL == <<0>>
Free == "free"
AgentThread == "agent"
queue == IF agent_list = NULL THEN <<>> ELSE agent_list

(* The places of the agent where it waits for SlurmDBD or the network.     *)
AgentIO == {"connecting", "send", "sent", "answered", "registering"}
AgentPlaces == {"none", "loop", "lock", "halted", "signalled", "wait",
                "settle_ok", "settle_failed", "register", "save", "ended",
                "dying", "cancelled"} \cup AgentIO
AgentRuns == agent_tid \notin {"none", "ended", "cancelled"}

(* The agent has saved its queue, or is dead or dying, and agent_tid is    *)
(* still set: nobody will take a message off the queue, or save it.        *)
AgentLost == {"ended", "dying", "cancelled"}

Init ==
  /\ agent_list = NULL /\ agent_tid = "none"
  /\ batch = <<>> /\ reply = 0
  /\ fail_time = FALSE /\ need_to_register = FALSE
  /\ slurmdbd_lock = Free /\ agent_lock = Free /\ slurmdbd_conn = FALSE
  /\ halt_agent = FALSE /\ slurmdbd_shutdown = FALSE
  /\ caller = [c \in Callers |-> "idle"]
  /\ ctld = "down" /\ dbd_messages = <<>>
  /\ sent = 0 /\ offered = {} /\ recorded = {} /\ late = {} /\ excused = {}
  /\ faults = 0 /\ stops = 0

(* A failure is charged to the bound; a success is free.                   *)
Fault == faults < MaxFaults /\ faults' = faults + 1
NoFault == UNCHANGED faults

-----------------------------------------------------------------------------
(* Mutant: the file is read into a queue that is already there.            *)
_create_agentTwice == queue \o dbd_messages

(* slurm_send_slurmdbd_msg(): what the queue becomes and what is thrown    *)
(* away.  An agent that has ended has left no list: _create_agent() makes  *)
(* one from the file (and starts no thread, agent_tid is still set).  One  *)
(* place before the limit the step records are purged, and if there are    *)
(* none the job start records.                                             *)
_create_agent == IF agent_list = NULL THEN dbd_messages ELSE agent_list

(* The positions a purge of q leaves: _purge_step_req() takes the step     *)
(* records, and only if there are none _purge_job_start_req() is called.   *)
OfKind(q, kind) == {i \in DOMAIN q : Kind[q[i]] = kind}
Kept(q) ==
  DOMAIN q \ (CASE Len(q) # MAX_AGENT_QUEUE - 1 -> {}
                [] OfKind(q, "step") # {} -> OfKind(q, "step")
                [] OTHER -> OfKind(q, "job_start"))

(* A set of positions in increasing order (there is exactly one way).      *)
Enumerations(D) ==
  {p \in [1 .. Cardinality(D) -> D] : \A i, j \in DOMAIN p : i < j => p[i] < p[j]}

(* The queue after the purge, and with the new message if there is room.   *)
purge(q) == {[i \in DOMAIN p |-> q[p[i]]] : p \in Enumerations(Kept(q))}
enqueue(q, m) == IF Len(q) < MAX_AGENT_QUEUE THEN Append(q, m) ELSE q

(* The agent is woken by the broadcast of agent_cond.                      *)
broadcast(pc) == IF pc = "wait" THEN "loop" ELSE pc

slurm_send_slurmdbd_msg ==
  /\ ctld \in {"up", "stopping"} /\ agent_lock = Free /\ sent < Len(Kind)
  /\ sent' = sent + 1
  /\ \E q \in purge(_create_agent) :
       /\ agent_list' = enqueue(q, sent')
       /\ excused' = excused \cup (Range(Append(_create_agent, sent')) \ Range(agent_list'))
  /\ late' = late \cup (IF agent_tid \in AgentLost THEN {sent'} ELSE {})
  /\ slurmdbd_shutdown' = (slurmdbd_shutdown /\ agent_list # NULL)
  /\ agent_tid' = broadcast(agent_tid)
  /\ UNCHANGED <<agent_lock, dbd_messages, offered, recorded, slurmdbd_lock, slurmdbd_conn, halt_agent,
                 batch, reply, fail_time, need_to_register, env_vars>>

-----------------------------------------------------------------------------
(* slurm_send_recv_slurmdbd_msg() by another thread: it asks the agent to  *)
(* stay away, takes the lock, opens the connection if there is none (which *)
(* withdraws a request to shut down), exchanges its message, and signals   *)
(* the agent.                                                              *)
signal(pc) == IF pc = "halted" THEN "signalled" ELSE pc

call(c) ==
  /\ ctld \in {"up", "stopping"} /\ caller[c] = "idle"
  /\ halt_agent' = TRUE
  /\ caller' = [caller EXCEPT ![c] = "want"]
  /\ UNCHANGED <<agent_lock, queue_vars, thread_vars, slurmdbd_lock, slurmdbd_conn, slurmdbd_shutdown,
                 ctld, faults, stops>>

call_locked(c) ==
  /\ caller[c] = "want" /\ slurmdbd_lock = Free
  /\ slurmdbd_lock' = c /\ halt_agent' = FALSE
  /\ slurmdbd_shutdown' = (slurmdbd_shutdown /\ slurmdbd_conn)
  /\ caller' = [caller EXCEPT ![c] = "in"]
  /\ UNCHANGED <<agent_lock, queue_vars, thread_vars, slurmdbd_conn, ctld, faults, stops>>

call_done(c) ==
  /\ caller[c] = "in"
  /\ \/ NoFault /\ slurmdbd_conn' = TRUE
     \/ Fault /\ slurmdbd_conn' \in BOOLEAN
  /\ need_to_register' = (need_to_register \/ (slurmdbd_conn' /\ ~slurmdbd_conn))
  /\ slurmdbd_lock' = Free
  /\ agent_tid' = signal(agent_tid)
  /\ caller' = [caller EXCEPT ![c] = "idle"]
  /\ UNCHANGED <<agent_lock, queue_vars, halt_agent, slurmdbd_shutdown, batch, reply, fail_time,
                 ctld, stops>>

-----------------------------------------------------------------------------
(* The agent thread, _agent().                                             *)
Goto(from, to) == agent_tid = from /\ agent_tid' = to

agent_test ==
  /\ \/ slurmdbd_shutdown /\ Goto("loop", "save")
     \/ ~slurmdbd_shutdown /\ Goto("loop", "lock")
  /\ UNCHANGED <<queue_vars, conn_vars, env_vars, batch, reply, fail_time, need_to_register>>

(* With slurmdbd_lock: nothing to do, or nobody to send it to, and the     *)
(* agent waits; else the head of the queue, which stays there, is sent.    *)
batch_of(q) == SubSeq(q, 1, IF Len(q) > HANDLE_COUNT THEN HANDLE_COUNT + 1 ELSE Len(q))

pick(conn, failed) ==
  \/ /\ queue = <<>> \/ ~conn \/ failed
     /\ agent_tid' = "wait" /\ slurmdbd_lock' = Free /\ UNCHANGED batch
  \/ /\ queue # <<>> /\ conn /\ ~failed
     /\ agent_tid' = "send" /\ slurmdbd_lock' = AgentThread /\ batch' = batch_of(queue)

(* The connection is opened if there is none and the last failure is old;  *)
(* _open_slurmdbd_conn() clears slurmdbd_shutdown before it connects.      *)
proceed ==
  \/ /\ ~slurmdbd_conn /\ ~fail_time
     /\ agent_tid' = "connecting" /\ slurmdbd_lock' = AgentThread
     /\ slurmdbd_shutdown' = FALSE /\ UNCHANGED batch
  \/ /\ slurmdbd_conn \/ fail_time
     /\ pick(slurmdbd_conn, fail_time) /\ UNCHANGED slurmdbd_shutdown

(* Taking slurmdbd_lock; the condition variable gives it up again.         *)
agent_take ==
  /\ agent_tid = "lock" /\ slurmdbd_lock = Free
  /\ \/ halt_agent /\ agent_tid' = "halted" /\ UNCHANGED <<slurmdbd_lock, slurmdbd_shutdown, batch>>
     \/ ~halt_agent /\ proceed
  /\ UNCHANGED <<queue_vars, env_vars, agent_lock, slurmdbd_conn, halt_agent, reply,
                 fail_time, need_to_register>>

(* Mutant: halt_agent is tested again after the wait.                      *)
agent_wokenWhile ==
  /\ agent_tid = "signalled" /\ slurmdbd_lock = Free
  /\ \/ halt_agent /\ agent_tid' = "halted" /\ UNCHANGED <<slurmdbd_lock, slurmdbd_shutdown, batch>>
     \/ ~halt_agent /\ proceed
  /\ UNCHANGED <<queue_vars, env_vars, agent_lock, slurmdbd_conn, halt_agent, reply,
                 fail_time, need_to_register>>

agent_woken ==
  /\ agent_tid = "signalled" /\ slurmdbd_lock = Free
  /\ proceed
  /\ UNCHANGED <<queue_vars, env_vars, agent_lock, slurmdbd_conn, halt_agent, reply,
                 fail_time, need_to_register>>

_open_slurmdbd_conn ==
  /\ agent_tid = "connecting"
  /\ \/ NoFault /\ slurmdbd_conn' = TRUE /\ need_to_register' = TRUE /\ UNCHANGED fail_time
     \/ Fault /\ fail_time' = TRUE /\ UNCHANGED <<slurmdbd_conn, need_to_register>>
  /\ pick(slurmdbd_conn', fail_time')
  /\ UNCHANGED <<queue_vars, agent_lock, halt_agent, slurmdbd_shutdown, reply, caller, ctld, stops>>

(* The 10 s of the timed wait, and of fail_time, pass.                     *)
agent_timeout ==
  /\ Goto("wait", "loop")
  /\ UNCHANGED <<queue_vars, conn_vars, env_vars, batch, reply, fail_time, need_to_register>>

ten_seconds ==
  /\ fail_time /\ fail_time' = FALSE
  /\ UNCHANGED <<queue_vars, conn_vars, env_vars, agent_tid, batch, reply, need_to_register>>

-----------------------------------------------------------------------------
(* The exchange, with slurmdbd_lock held and agent_lock free.  A failure   *)
(* to send ends the agent if slurmctld is shutting down.                   *)
slurm_persist_send_msg ==
  /\ \/ /\ Goto("send", "sent")
        /\ NoFault /\ UNCHANGED <<slurmdbd_conn, slurmdbd_lock>>
     \/ /\ Goto("send", IF slurmdbd_shutdown THEN "save" ELSE "settle_failed")
        /\ Fault /\ slurmdbd_conn' \in BOOLEAN /\ slurmdbd_lock' = Free
  /\ reply' = 0
  /\ UNCHANGED <<agent_lock, queue_vars, halt_agent, slurmdbd_shutdown, batch, fail_time,
                 need_to_register, caller, ctld, stops>>

(* SlurmDBD, _send_mult_msg(): the messages of the batch are handled in    *)
(* their order until a handler returns an error, and each has an answer.   *)
(* Any handler may fail to record; _step_start() and _step_complete()      *)
(* return that error, while _job_start() and _job_complete() return        *)
(* success with the error packed in the answer, and the loop goes on (a    *)
(* message that cannot be unpacked ends it, whatever it is).  reply is the *)
(* number of answers before the first error.                               *)
dbd_process ==
  /\ Goto("sent", "answered")
  /\ \E n \in 0 .. Len(batch), failed \in SUBSET (1 .. Len(batch)), k \in 0 .. Len(batch) :
       /\ n = Len(batch) \/ n \in failed
       /\ \A i \in failed : i <= n /\ (Kind[batch[i]] = "step" => i = n)
       /\ \A i \in failed : k < i
       /\ k = Len(batch) \/ k + 1 \in failed
       /\ IF failed = {} THEN NoFault ELSE Fault
       /\ offered' = offered \cup {batch[i] : i \in 1 .. n}
       /\ recorded' = recorded \cup {batch[i] : i \in (1 .. n) \ failed}
       /\ reply' = k
  /\ UNCHANGED <<agent_list, dbd_messages, sent, late, excused, conn_vars, batch, fail_time,
                 need_to_register, caller, ctld, stops>>

(* The batch is still at the head of the queue.                            *)
AtHead(q) == Len(batch) =< Len(q) /\ batch = SubSeq(q, 1, Len(batch))

(* The first n messages leave the queue, whatever they are by now.  What   *)
(* is excused is the loss after a purge has moved the batch.               *)
drop(n) ==
  LET k == IF n < Len(agent_list) THEN n ELSE Len(agent_list)
  IN /\ agent_list' = SubSeq(agent_list, k + 1, Len(agent_list))
     /\ excused' = IF AtHead(agent_list) THEN excused
                   ELSE excused \cup (Range(SubSeq(agent_list, 1, k)) \ recorded)

(* Mutant: one message leaves the queue for every message of the batch.    *)
_handle_mult_rc_retWhole ==
  /\ agent_tid = "answered" /\ ~slurmdbd_shutdown
  /\ agent_tid' = IF reply = Len(batch) THEN "settle_ok" ELSE "settle_failed"
  /\ IF Len(batch) > 1
     THEN /\ agent_list' = SubSeq(agent_list, Len(batch) + 1, Len(agent_list))
          /\ UNCHANGED excused
     ELSE UNCHANGED <<agent_list, excused>>
  /\ slurmdbd_lock' = Free
  /\ UNCHANGED <<agent_lock, dbd_messages, sent, offered, recorded, late, slurmdbd_conn, halt_agent,
                 slurmdbd_shutdown, batch, reply, fail_time, need_to_register, env_vars>>

(* The answer: _handle_mult_rc_ret() takes one message off the queue for   *)
(* each acknowledgement; _get_return_code() leaves that to the next step.  *)
_handle_mult_rc_ret ==
  /\ agent_tid = "answered" /\ ~slurmdbd_shutdown
  /\ agent_tid' = IF reply = Len(batch) THEN "settle_ok" ELSE "settle_failed"
  /\ IF Len(batch) > 1 THEN drop(reply) ELSE UNCHANGED <<agent_list, excused>>
  /\ slurmdbd_lock' = Free
  /\ UNCHANGED <<agent_lock, dbd_messages, sent, offered, recorded, late, slurmdbd_conn, halt_agent,
                 slurmdbd_shutdown, batch, reply, fail_time, need_to_register, env_vars>>

(* No answer: the connection broke or timed out before or after SlurmDBD   *)
(* recorded the batch, or slurmctld shuts down, which ends every read.     *)
slurm_persist_recv_failed ==
  /\ agent_tid \in {"sent", "answered"} /\ agent_tid' = "settle_failed"
  /\ \/ slurmdbd_shutdown /\ NoFault /\ UNCHANGED slurmdbd_conn
     \/ ~slurmdbd_shutdown /\ Fault /\ slurmdbd_conn' \in BOOLEAN
  /\ slurmdbd_lock' = Free
  /\ UNCHANGED <<agent_lock, queue_vars, halt_agent, slurmdbd_shutdown, batch, reply, fail_time,
                 need_to_register, caller, ctld, stops>>

(* What follows the exchange, under agent_lock; then the agent becomes a   *)
(* caller itself if it has to register slurmctld.                          *)
after_exchange ==
  /\ agent_tid' = IF need_to_register THEN "register" ELSE "loop"
  /\ halt_agent' = (halt_agent \/ need_to_register)
  /\ need_to_register' = FALSE /\ batch' = <<>> /\ reply' = 0
  /\ UNCHANGED <<agent_lock, dbd_messages, sent, offered, recorded, late, slurmdbd_lock, slurmdbd_conn,
                 slurmdbd_shutdown, env_vars>>

agent_settle ==
  /\ \/ /\ agent_tid = "settle_ok" /\ fail_time' = FALSE
        /\ IF Len(batch) = 1 THEN drop(1) ELSE UNCHANGED <<agent_list, excused>>
     \/ /\ agent_tid = "settle_failed" /\ fail_time' = TRUE
        /\ UNCHANGED <<agent_list, excused>>
  /\ after_exchange

(* clusteracct_storage_g_register_ctld(): the agent as a caller.           *)
agent_register ==
  /\ Goto("register", "registering") /\ slurmdbd_lock = Free
  /\ slurmdbd_lock' = AgentThread /\ halt_agent' = FALSE
  /\ slurmdbd_shutdown' = (slurmdbd_shutdown /\ slurmdbd_conn)
  /\ UNCHANGED <<agent_lock, queue_vars, env_vars, slurmdbd_conn, batch, reply, fail_time,
                 need_to_register>>

agent_registered ==
  /\ Goto("registering", "loop")
  /\ \/ NoFault /\ slurmdbd_conn' = TRUE /\ need_to_register' = FALSE
     \/ /\ Fault /\ slurmdbd_conn' \in BOOLEAN
        /\ need_to_register' = (need_to_register \/ (slurmdbd_conn' /\ ~slurmdbd_conn))
  /\ slurmdbd_lock' = Free
  /\ UNCHANGED <<agent_lock, queue_vars, halt_agent, slurmdbd_shutdown, batch, reply, fail_time,
                 caller, ctld, stops>>

(* Mutant: the queue is freed before it is saved.                          *)
_save_dbd_stateFreed ==
  /\ Goto("save", "ended") /\ NoFault
  /\ agent_list' = NULL /\ dbd_messages' = <<>> /\ batch' = <<>> /\ reply' = 0
  /\ UNCHANGED <<sent, offered, recorded, late, excused, conn_vars, fail_time, need_to_register, caller,
                 ctld, stops>>

(* The end of the agent: the file is rewritten with the queue, up to a     *)
(* failing write, and the queue is freed.                                  *)
_save_dbd_state ==
  /\ Goto("save", "ended")
  /\ \E n \in 0 .. Len(queue) :
       /\ IF n = Len(queue) THEN NoFault ELSE Fault
       /\ dbd_messages' = SubSeq(queue, 1, n)
       /\ excused' = excused \cup (Range(SubSeq(queue, n + 1, Len(queue))) \ recorded)
  /\ agent_list' = NULL /\ batch' = <<>> /\ reply' = 0
  /\ UNCHANGED <<sent, offered, recorded, late, conn_vars, fail_time, need_to_register, caller, ctld,
                 stops>>

-----------------------------------------------------------------------------
(* slurm_close_slurmdbd_conn(): the request to stop and, for five seconds, *)
(* the broadcast that wakes the agent.                                     *)
stop ==
  /\ ctld = "up" /\ ctld' = "stopping"
  /\ stops < MaxStops /\ stops' = stops + 1
  /\ slurmdbd_shutdown' = TRUE
  /\ agent_tid' = broadcast(agent_tid)
  /\ UNCHANGED <<agent_lock, queue_vars, slurmdbd_lock, slurmdbd_conn, halt_agent, batch, reply,
                 fail_time, need_to_register, caller, faults>>

nudge ==
  /\ ctld = "stopping" /\ Goto("wait", "loop")
  /\ UNCHANGED <<queue_vars, conn_vars, batch, reply, fail_time, need_to_register, env_vars>>

(* Mutant: only an agent that connects is cancelled.                       *)
pthread_cancelConnect ==
  /\ ctld = "stopping" /\ Goto("connecting", "cancelled")
  /\ UNCHANGED <<queue_vars, conn_vars, batch, reply, fail_time, need_to_register, env_vars>>

(* After five seconds the agent is cancelled, and dies where it waits with *)
(* the locks it has there (a condition variable takes its mutex back).     *)
(* Five seconds are long enough for everything but input and output, so    *)
(* this needs a connect that hangs, a caller that holds the lock, or a     *)
(* shutdown request that an opened connection has withdrawn.  The error    *)
(* message gives up what is queued and not in an older file.               *)
unable_to_save == excused' = excused \cup (Range(queue) \ (Range(dbd_messages) \cup recorded))

pthread_cancel ==
  /\ ctld = "stopping"
  /\ \/ /\ agent_tid \in {"wait", "connecting"} \cup AgentIO
        /\ agent_tid = "connecting" \/ ~slurmdbd_shutdown
        /\ agent_tid' = "cancelled"
        /\ agent_lock' = IF agent_tid = "wait" THEN AgentThread ELSE Free
        /\ unable_to_save
        /\ UNCHANGED slurmdbd_lock
     \/ /\ agent_tid = "halted" /\ \E c \in Callers : caller[c] = "in"
        /\ agent_tid' = "dying"
        /\ unable_to_save
        /\ UNCHANGED <<agent_lock, slurmdbd_lock>>
     \/ /\ Goto("dying", "cancelled")
        /\ slurmdbd_lock = Free /\ slurmdbd_lock' = AgentThread
        /\ UNCHANGED <<agent_lock, excused>>
  /\ UNCHANGED <<agent_list, dbd_messages, sent, offered, recorded, late, slurmdbd_conn, halt_agent, slurmdbd_shutdown, batch, reply,
                 fail_time, need_to_register, env_vars>>

(* The rest of slurm_close_slurmdbd_conn(): the agent is joined and, with  *)
(* slurmdbd_lock, the connection destroyed.                                *)
pthread_join ==
  /\ ctld = "stopping" /\ ctld' = "fini"
  /\ agent_tid \in {"ended", "cancelled"} /\ agent_tid' = "none"
  /\ UNCHANGED <<queue_vars, conn_vars, batch, reply, fail_time, need_to_register, caller,
                 faults, stops>>

slurm_persist_conn_destroy ==
  /\ ctld = "fini" /\ ctld' = "closed"
  /\ slurmdbd_lock = Free /\ slurmdbd_conn' = FALSE
  /\ UNCHANGED <<queue_vars, thread_vars, slurmdbd_lock, agent_lock, halt_agent,
                 slurmdbd_shutdown, caller, faults, stops>>

(* slurm_open_slurmdbd_conn() in a process that starts, or that becomes    *)
(* the controller again.  The file is read only when there is no queue,    *)
(* and is left as it is; the new agent takes what is queued.               *)
slurm_open_slurmdbd_conn ==
  /\ ctld \in {"down", "closed"} /\ ctld' = "up"
  /\ slurmdbd_lock = Free /\ agent_lock = Free
  /\ \/ NoFault /\ slurmdbd_conn' = TRUE /\ need_to_register' = TRUE
     \/ Fault /\ slurmdbd_conn' = FALSE /\ UNCHANGED need_to_register
  /\ agent_list' = _create_agent /\ agent_tid' = "loop" /\ batch' = <<>> /\ reply' = 0
  /\ slurmdbd_shutdown' = FALSE /\ late' = {}
  /\ UNCHANGED <<dbd_messages, sent, offered, recorded, excused, slurmdbd_lock, agent_lock, halt_agent,
                 fail_time, caller, stops>>

(* The process is gone, with everything that is not in the file.           *)
gone(file) ==
  /\ ctld' = "down" /\ dbd_messages' = file
  /\ agent_list' = NULL /\ agent_tid' = "none" /\ batch' = <<>> /\ reply' = 0
  /\ late' = {}
  /\ fail_time' = FALSE /\ need_to_register' = FALSE
  /\ slurmdbd_lock' = Free /\ agent_lock' = Free /\ slurmdbd_conn' = FALSE
  /\ halt_agent' = FALSE /\ slurmdbd_shutdown' = FALSE
  /\ caller' = [c \in Callers |-> "idle"]
  /\ UNCHANGED <<sent, offered, recorded, faults>>

(* The end of the program: what was queued after the agent had ended goes  *)
(* with it, and nothing is logged.                                         *)
exit ==
  /\ ctld = "closed" /\ gone(dbd_messages)
  /\ excused' = excused \cup late
  /\ UNCHANGED stops

(* A crash.  If the agent is saving the queue the file is the old one or   *)
(* what has been written of the new one.                                   *)
crash ==
  /\ ctld # "down" /\ stops < MaxStops /\ stops' = stops + 1
  /\ \/ gone(dbd_messages)
     \/ /\ agent_tid = "save"
        /\ \E n \in 0 .. Len(queue) : gone(SubSeq(queue, 1, n))
  /\ excused' = excused \cup (Range(queue) \ (Range(dbd_messages') \cup recorded))

-----------------------------------------------------------------------------
agent_step ==
  \/ agent_test \/ agent_take \/ agent_woken \/ _open_slurmdbd_conn
  \/ agent_timeout \/ slurm_persist_send_msg \/ _handle_mult_rc_ret
  \/ slurm_persist_recv_failed \/ agent_settle \/ agent_register \/ agent_registered
  \/ _save_dbd_state

main_step ==
  \/ nudge \/ pthread_join \/ slurm_persist_conn_destroy \/ slurm_open_slurmdbd_conn

Next ==
  \/ slurm_send_slurmdbd_msg
  \/ \E c \in Callers : call(c) \/ call_locked(c) \/ call_done(c)
  \/ agent_step \/ dbd_process \/ ten_seconds
  \/ main_step \/ stop \/ pthread_cancel \/ exit \/ crash

Spec == Init /\ [][Next]_vars

(* Every thread that can move does; a thread that keeps asking for the     *)
(* mutex gets it; SlurmDBD answers; time passes; a cancellation that has   *)
(* been requested takes effect at the next place where the thread waits.   *)
Fairness ==
  /\ WF_vars(agent_step) /\ WF_vars(dbd_process) /\ WF_vars(ten_seconds)
  /\ SF_vars(agent_take) /\ SF_vars(agent_woken) /\ SF_vars(agent_register)
  /\ \A c \in Callers : SF_vars(call_locked(c)) /\ WF_vars(call_done(c))
  /\ WF_vars(main_step) /\ SF_vars(slurm_persist_conn_destroy) /\ SF_vars(pthread_cancel)

FairSpec == Spec /\ Fairness

-----------------------------------------------------------------------------
TypeOK ==
  /\ agent_list \in Seq(Messages) \cup {NULL} /\ Len(agent_list) <= MAX_AGENT_QUEUE
  /\ dbd_messages \in Seq(Messages) /\ Len(dbd_messages) <= MAX_AGENT_QUEUE
  /\ agent_tid \in AgentPlaces
  /\ batch \in Seq(Messages) /\ Len(batch) <= HANDLE_COUNT + 1 /\ reply \in 0 .. Len(batch)
  /\ slurmdbd_lock \in {Free, AgentThread} \cup Callers
  /\ agent_lock \in {Free, AgentThread}
  /\ fail_time \in BOOLEAN /\ need_to_register \in BOOLEAN /\ slurmdbd_conn \in BOOLEAN
  /\ halt_agent \in BOOLEAN /\ slurmdbd_shutdown \in BOOLEAN
  /\ caller \in [Callers -> {"idle", "want", "in"}]
  /\ ctld \in {"down", "up", "stopping", "fini", "closed"}
  /\ sent \in 0 .. Len(Kind) /\ offered \subseteq 1 .. sent /\ recorded \subseteq offered
  /\ late \subseteq 1 .. sent /\ excused \subseteq 1 .. sent
  /\ faults \in 0 .. MaxFaults /\ stops \in 0 .. MaxStops

(* A message slurmctld has sent is recorded by SlurmDBD, queued, or in the *)
(* file, unless it is excused, and an orderly exit excuses only the late   *)
(* ones: messages sent when the agent had already saved its queue and      *)
(* ended, which are queued, never saved, and lost without a word.  The     *)
(* exchange, the save at the end of the agent, the load at the start and a *)
(* message sent meanwhile lose nothing else between them.                  *)
NoSilentLoss ==
  1 .. sent \subseteq recorded \cup Range(queue) \cup Range(dbd_messages) \cup excused

(* The queue holds messages in the order they were sent, each once, and    *)
(* SlurmDBD is offered one only after all that were sent before it: a      *)
(* batch whose answer was lost, that failed half way, or that comes back   *)
(* from the file, is not overtaken by anything newer.  (It may be recorded *)
(* earlier than an older one of its batch that failed and stays queued.)   *)
InOrder ==
  /\ \A i, j \in DOMAIN queue : i < j => queue[i] < queue[j]
  /\ \A m \in offered : 1 .. m \subseteq offered \cup excused

(* Leave item on the queue until processing complete: the agent takes a    *)
(* message off the queue only when SlurmDBD has recorded it, or else the   *)
(* purge of a nearly full queue has moved the batch it was answering for.  *)
ByAgent == agent_tid' # agent_tid /\ agent_list' # NULL
TakenOff == Range(queue) \ Range(queue')

HeldUntilProcessed ==
  [][ (agent_tid \in {"answered", "settle_ok"} /\ ByAgent)
        => TakenOff \subseteq recorded ]_vars

HeldUnlessPurged ==
  [][ (agent_tid \in {"answered", "settle_ok"} /\ ByAgent /\ AtHead(queue))
        => TakenOff \subseteq recorded ]_vars

(* An agent that has been pushed aside is not forgotten: the caller it     *)
(* waits for is still there to signal it.                                  *)
HaltedAwaited ==
  agent_tid = "halted" => \E c \in Callers : caller[c] \in {"want", "in"}

(* While slurmctld keeps running the queue drains: neither failures nor    *)
(* callers that come again and again starve the agent.                     *)
QueueServed == <>[](ctld = "up") => []<>(queue = <<>>)

(* A stop comes to its end, except when the agent was cancelled with       *)
(* slurmdbd_lock in its hands: the main thread then waits for ever.        *)
StopEnds ==
  ctld = "stopping" ~>
    \/ ctld \in {"closed", "down"}
    \/ agent_tid \in {"none", "cancelled"} /\ slurmdbd_lock = AgentThread
=============================================================================
