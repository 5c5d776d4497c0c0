----------------------------- MODULE AgentQueue -----------------------------
(***************************************************************************)
(* How slurmctld sends RPCs to the nodes (slurmctld/agent.c): the queue of *)
(* pending requests, the thread that takes one from it whenever it is      *)
(* triggered, the agents with their RPC threads and watchdog, the limit on *)
(* threads they share with the processes that send mail, and the counter   *)
(* of outstanding pings (ping_nodes.c).                                    *)
(***************************************************************************)
EXTENDS Integers, Sequences, FiniteSets, FiniteSetsExt

CONSTANTS
  Requests,            \* numbers of the requests, in the order they are made
  Nodes, NodeList,     \* the nodes, and those a request of each type is for
  AGENT_THREAD_COUNT,  \* RPC threads of one agent
  MAX_SERVER_THREADS,  \* threads of all agents and mail processes
  Agents,              \* threads that may run agent() at a time
  MaxMails             \* mails pending or being sent at a time

\* SIGNAL_TASKS and UPDATE_JOB_TIME are retried; BATCH_JOB_LAUNCH may be
\* deferred; PING stands for the four requests that are counted as pings;
\* SHUTDOWN, like RECONFIGURE, goes to each node directly and is not queued.
Types == {"signal", "launch", "ping", "shutdown"}

\* A launch is for the first node of its job, and no ping is made without nodes.
ASSUME AgentAssumption ==
  /\ Requests \subseteq Nat /\ IsFiniteSet(Requests)
  /\ Agents \subseteq Nat /\ IsFiniteSet(Agents)
  /\ IsFiniteSet(Nodes)
  /\ NodeList \in [Types -> SUBSET Nodes] /\ Cardinality(NodeList["launch"]) = 1
  /\ NodeList["ping"] # {}
  /\ AGENT_THREAD_COUNT \in Nat /\ MAX_SERVER_THREADS \in Nat /\ MaxMails \in Nat
  /\ AGENT_THREAD_COUNT + 2 < MAX_SERVER_THREADS

VARIABLES
  retry_list,          \* queued requests: [req, nodes, age, late]
  agents,              \* what each thread running agent() does
  agent_cnt, agent_thread_cnt,
  mail_list, mail_procs,              \* mails pending, and being sent
  pending_wait_time, pending_mail,    \* what agent_trigger leaves
  retry_thread,        \* the thread of _agent_init: [pc, min_wait, mail_too]
  ping_count,
  job,                 \* of a launch: "none", "prolog", "run", "gone"
  shutdown_time,
  msg_type,            \* the type of each request, "none" until it is made
  mail_ended           \* history: has a mail process ended since an agent did?

vars == <<retry_list, agents, agent_cnt, agent_thread_cnt, mail_list, mail_procs, pending_wait_time,
          pending_mail, retry_thread, ping_count, job, shutdown_time, msg_type, mail_ended>>

\* Groups of variables that many steps leave alone.
queue   == <<retry_list, pending_wait_time, pending_mail, retry_thread>>
counts  == <<agent_cnt, agent_thread_cnt, mail_list, mail_procs, mail_ended>>
cluster == <<ping_count, job, shutdown_time>>

NO_VAL16 == 65535
RPC_RETRY_INTERVAL == 60
QUEUE_INTERVAL == 999   \* the min_wait agent_queue_request gives

\* Age of an entry since last_attempt: 0 is "never tried", 1 less than what
\* is waited for (10 s for a launch, RPC_RETRY_INTERVAL for the others), 2
\* more than that.  None grows older than QUEUE_INTERVAL.
Entries == [req : Requests, nodes : SUBSET Nodes, age : 0..2, late : BOOLEAN]
Results == {"none", "done", "noresp"}
Idle == [pc |-> "idle"]
Waiting == [pc |-> "wait", min_wait |-> NO_VAL16, mail_too |-> FALSE]
AgentStates == [pc : {"start", "wait", "run", "notify", "cleanup"}, req : Requests,
                new : SUBSET SUBSET Nodes, active : SUBSET SUBSET Nodes,
                res : UNION {[N -> Results] : N \in SUBSET Nodes}]

TypeOK ==
  /\ retry_list \in Seq(Entries)
  /\ agents \in [Agents -> AgentStates \cup {Idle}]
  /\ agent_cnt \in Nat /\ agent_thread_cnt \in Nat
  /\ mail_list \in Nat /\ mail_procs \in Nat /\ mail_list + mail_procs =< MaxMails
  /\ pending_wait_time \in {RPC_RETRY_INTERVAL, QUEUE_INTERVAL, NO_VAL16} /\ pending_mail \in BOOLEAN
  /\ retry_thread \in [pc : {"wait", "retry", "mail", "ended"},
                       min_wait : {RPC_RETRY_INTERVAL, QUEUE_INTERVAL, NO_VAL16}, mail_too : BOOLEAN]
  /\ ping_count \in Nat
  /\ job \in [Requests -> {"none", "prolog", "run", "gone"}]
  /\ shutdown_time \in BOOLEAN /\ mail_ended \in BOOLEAN
  /\ msg_type \in [Requests -> Types \cup {"none"}]

Init ==
  /\ retry_list = <<>> /\ agents = [t \in Agents |-> Idle]
  /\ agent_cnt = 0 /\ agent_thread_cnt = 0 /\ mail_list = 0 /\ mail_procs = 0
  /\ pending_wait_time = NO_VAL16 /\ pending_mail = FALSE
  /\ retry_thread = Waiting
  /\ ping_count = 0
  /\ job = [r \in Requests |-> "none"] /\ shutdown_time = FALSE
  /\ msg_type = [r \in Requests |-> "none"] /\ mail_ended = FALSE

-----------------------------------------------------------------------------
(* The queue                                                               *)

\* agent_trigger keeps the shortest wait that was asked for.
agent_trigger(min_wait, mail_too) ==
  /\ pending_wait_time' = Min({pending_wait_time, min_wait})
  /\ pending_mail' = (pending_mail \/ mail_too)

\* A thread running agent() is created for the request.
spawn(r, nodes) ==
  \E t \in Agents :
    /\ agents[t].pc = "idle"
    /\ \A u \in Agents : u < t => agents[u].pc # "idle"
    /\ agents' = [agents EXCEPT ![t] = [pc |-> "start", req |-> r, new |-> {}, active |-> {},
                                        res |-> [n \in nodes |-> "none"]]]

agent_queue_request(r, type) ==
  /\ ~shutdown_time /\ msg_type[r] = "none" /\ \A q \in Requests : q < r => msg_type[q] # "none"
  /\ msg_type' = [msg_type EXCEPT ![r] = type]
  /\ IF type = "shutdown"
       THEN /\ spawn(r, NodeList[type])
            /\ UNCHANGED <<retry_list, pending_wait_time, pending_mail>>
       ELSE /\ retry_list' = Append(retry_list, [req |-> r, nodes |-> NodeList[type], age |-> 0,
                                                 late |-> FALSE])
            /\ agent_trigger(QUEUE_INTERVAL, FALSE)
            /\ UNCHANGED agents
  /\ ping_count' = IF type = "ping" THEN ping_count + 1 ELSE ping_count   \* ping_begin
  /\ \E phase \in IF type = "launch" THEN {"prolog", "run"} ELSE {"none"} :
       job' = [job EXCEPT ![r] = phase]
  /\ UNCHANGED <<counts, retry_thread, shutdown_time>>

mail_job_info ==
  /\ ~shutdown_time /\ mail_list + mail_procs < MaxMails
  /\ mail_list' = mail_list + 1
  /\ UNCHANGED <<queue, agents, agent_cnt, agent_thread_cnt, mail_procs, mail_ended, cluster, msg_type>>

\* _slurmctld_background triggers the queue about once a second.
background ==
  /\ ~shutdown_time
  /\ agent_trigger(RPC_RETRY_INTERVAL, TRUE)
  /\ UNCHANGED <<retry_list, retry_thread, agents, counts, cluster, msg_type>>

\* The thread of agent_init waits for a trigger and takes it.
agent_init ==
  /\ retry_thread.pc = "wait"
  /\ \/ /\ shutdown_time
        /\ retry_thread' = [retry_thread EXCEPT !.pc = "ended"]
        /\ UNCHANGED <<pending_wait_time, pending_mail>>
     \/ /\ ~shutdown_time /\ (pending_mail \/ pending_wait_time # NO_VAL16)
        /\ retry_thread' = [pc |-> "retry", min_wait |-> pending_wait_time, mail_too |-> pending_mail]
        /\ pending_wait_time' = NO_VAL16 /\ pending_mail' = FALSE
  /\ UNCHANGED <<retry_list, agents, counts, cluster, msg_type>>

\* What to do with a request when the nodes in up respond, and what the test
\* leaves in the entry.
_batch_launch_defer(e, up) ==
  IF msg_type[e.req] # "launch" THEN "go"
  ELSE IF e.age = 1 THEN "defer"
  ELSE IF job[e.req] = "gone" THEN "abort"
  ELSE IF job[e.req] = "prolog" THEN "defer"
  ELSE IF e.nodes \subseteq up THEN "go"
  ELSE IF e.age > 0 /\ e.late THEN "abort"
  ELSE "defer"

deferred(e) ==
  IF msg_type[e.req] = "launch" /\ job[e.req] = "run" THEN [e EXCEPT !.age = 1] ELSE e

\* The entries of the queue from which one is taken: never tried ones first,
\* then those that were tried longer than min_wait ago.
fresh(up) ==
  {i \in DOMAIN retry_list :
     /\ _batch_launch_defer(retry_list[i], up) = "go"
     /\ retry_list[i].age = 0 \/ msg_type[retry_list[i].req] = "launch"}

waited(min_wait, up) ==
  {i \in DOMAIN retry_list :
     /\ _batch_launch_defer(retry_list[i], up) = "go"
     /\ retry_list[i].age = 2 /\ min_wait = RPC_RETRY_INTERVAL}

\* The entries that stay when the one at `taken` is removed and those before
\* `stop` are tested, and the queue they then make, in the same order.
kept(taken, stop, up) ==
  {i \in DOMAIN retry_list :
     i # taken /\ ~(i < stop /\ _batch_launch_defer(retry_list[i], up) = "abort")}

tested(taken, stop, up) ==
  \E old \in [1 .. Cardinality(kept(taken, stop, up)) -> kept(taken, stop, up)] :
    /\ \A i \in kept(taken, stop, up) : \E x \in DOMAIN old : old[x] = i
    /\ \A x, y \in DOMAIN old : x < y => old[x] < old[y]
    /\ retry_list' = [x \in DOMAIN old |-> IF old[x] < stop THEN deferred(retry_list[old[x]])
                                           ELSE retry_list[old[x]]]

\* The request at index i of the queue is handed to a new agent.
take(i, stop, up) ==
  /\ spawn(retry_list[i].req, retry_list[i].nodes)
  /\ tested(i, stop, up)
  /\ retry_thread' = Waiting

\* Mutant of _agent_retry: a request that is not due is forgotten.
_agent_retryForgets ==
  LET stop == Len(retry_list) + 1 IN
  /\ retry_thread.pc = "retry"
  /\ IF agent_thread_cnt + AGENT_THREAD_COUNT + 2 > MAX_SERVER_THREADS
       THEN retry_thread' = Waiting /\ UNCHANGED <<retry_list, agents>>
       ELSE \/ fresh(Nodes) # {} /\ take(Min(fresh(Nodes)), Min(fresh(Nodes)), Nodes)
            \/ fresh(Nodes) = {} /\ retry_list' = <<>> /\ retry_thread' = Waiting /\ UNCHANGED agents
  /\ UNCHANGED <<pending_wait_time, pending_mail, counts, cluster, msg_type>>

\* Mutant of _agent_retry: the request that is sent stays in the queue.
_agent_retryKeeps ==
  /\ retry_thread.pc = "retry"
  /\ IF agent_thread_cnt + AGENT_THREAD_COUNT + 2 > MAX_SERVER_THREADS \/ fresh(Nodes) = {}
       THEN retry_thread' = Waiting /\ UNCHANGED agents
       ELSE /\ spawn(retry_list[Min(fresh(Nodes))].req, retry_list[Min(fresh(Nodes))].nodes)
            /\ retry_thread' = Waiting
  /\ UNCHANGED <<retry_list, pending_wait_time, pending_mail, counts, cluster, msg_type>>

\* Mutant of _agent_retry: requests are only taken when they were tried before.
_agent_retryOld ==
  LET stop == Len(retry_list) + 1 IN
  /\ retry_thread.pc = "retry"
  /\ IF waited(retry_thread.min_wait, Nodes) # {}
       THEN take(Min(waited(retry_thread.min_wait, Nodes)), stop, Nodes)
       ELSE retry_thread' = Waiting /\ UNCHANGED <<retry_list, agents>>
  /\ UNCHANGED <<pending_wait_time, pending_mail, counts, cluster, msg_type>>

_agent_retry ==
  LET stop == Len(retry_list) + 1 IN
  /\ retry_thread.pc = "retry"
  /\ IF agent_thread_cnt + AGENT_THREAD_COUNT + 2 > MAX_SERVER_THREADS
       THEN retry_thread' = Waiting /\ UNCHANGED <<retry_list, agents>>
       ELSE \E up \in SUBSET Nodes :
            LET due == waited(retry_thread.min_wait, up) IN
            \/ fresh(up) # {} /\ take(Min(fresh(up)), Min(fresh(up)), up)
            \/ fresh(up) = {} /\ due # {} /\ take(Min(due), stop, up)
            \/ /\ fresh(up) = {} /\ due = {}
               /\ tested(0, stop, up)
               /\ retry_thread' = IF retry_thread.mail_too THEN [Waiting EXCEPT !.pc = "mail"] ELSE Waiting
               /\ UNCHANGED agents
  /\ UNCHANGED <<pending_wait_time, pending_mail, counts, cluster, msg_type>>

\* Mail processes are started up to the limit.
send_mail ==
  /\ retry_thread.pc = "mail"
  /\ LET n == Max({0, Min({mail_list, MAX_SERVER_THREADS - agent_thread_cnt})})
     IN  /\ mail_list' = mail_list - n /\ mail_procs' = mail_procs + n
         /\ agent_thread_cnt' = agent_thread_cnt + n
  /\ retry_thread' = Waiting
  /\ UNCHANGED <<retry_list, pending_wait_time, pending_mail, agents, agent_cnt, mail_ended, cluster, msg_type>>

\* A mail process ends: the thread is given back, nobody is told.
_mail_proc ==
  /\ mail_procs > 0
  /\ mail_procs' = mail_procs - 1
  /\ agent_thread_cnt' = Max({0, agent_thread_cnt - 1})
  /\ mail_ended' = TRUE
  /\ UNCHANGED <<queue, agents, agent_cnt, mail_list, cluster, msg_type>>

-----------------------------------------------------------------------------
(* An agent                                                                *)

rpc_thread_cnt(a) == 2 + Min({Cardinality(DOMAIN a.res), AGENT_THREAD_COUNT})

\* One RPC thread sends to all nodes through the tree of slurmds, except for
\* requests that go to each node directly.
groups(a) ==
  CASE DOMAIN a.res = {} -> {}
    [] msg_type[a.req] = "shutdown" -> {{n} : n \in DOMAIN a.res}
    [] OTHER -> {DOMAIN a.res}

\* Mutant of agent_begin: the limit is checked without the own threads.
agent_beginUnchecked(t) ==
  /\ agents[t].pc = "start"
  /\ IF shutdown_time \/ agent_thread_cnt <= MAX_SERVER_THREADS
       THEN /\ agent_cnt' = agent_cnt + 1
            /\ agent_thread_cnt' = agent_thread_cnt + rpc_thread_cnt(agents[t])
            /\ agents' = [agents EXCEPT ![t].pc = "run", ![t].new = groups(agents[t])]
       ELSE /\ agents' = [agents EXCEPT ![t].pc = "wait"]
            /\ UNCHANGED <<agent_cnt, agent_thread_cnt>>
  /\ UNCHANGED <<queue, mail_list, mail_procs, mail_ended, cluster, msg_type>>

\* agent() waits until its threads fit under the limit.  It stops at once
\* when slurmctld shuts down or there is no node to send to.
agent_begin(t) ==
  /\ agents[t].pc = "start"
  /\ IF shutdown_time \/ agent_thread_cnt + rpc_thread_cnt(agents[t]) <= MAX_SERVER_THREADS
       THEN /\ agent_cnt' = agent_cnt + 1
            /\ agent_thread_cnt' = agent_thread_cnt + rpc_thread_cnt(agents[t])
            /\ agents' = IF shutdown_time \/ DOMAIN agents[t].res = {}
                           THEN [agents EXCEPT ![t].pc = "cleanup"]
                           ELSE [agents EXCEPT ![t].pc = "run", ![t].new = groups(agents[t])]
       ELSE /\ agents' = [agents EXCEPT ![t].pc = "wait"]
            /\ UNCHANGED <<agent_cnt, agent_thread_cnt>>
  /\ UNCHANGED <<queue, mail_list, mail_procs, mail_ended, cluster, msg_type>>

\* agent() starts the thread of a group when fewer than AGENT_THREAD_COUNT run.
start_thread(t, g) ==
  /\ agents[t].pc = "run" /\ g \in agents[t].new
  /\ Cardinality(agents[t].active) < AGENT_THREAD_COUNT
  /\ agents' = [agents EXCEPT ![t].new = @ \ {g}, ![t].active = @ \cup {g}]
  /\ UNCHANGED <<queue, counts, cluster, msg_type>>

\* The thread ends with the nodes in silent not having answered.  A launch that
\* the node rejects ends the job.
_thread_per_group_rpc(t, g) ==
  /\ agents[t].pc = "run" /\ g \in agents[t].active
  /\ \E silent \in SUBSET g :
       /\ agents' = [agents EXCEPT ![t].active = @ \ {g},
                                   ![t].res = [n \in DOMAIN @ |-> IF n \in silent THEN "noresp"
                                                                  ELSE IF n \in g THEN "done" ELSE @[n]]]
       /\ \/ UNCHANGED job
          \/ /\ msg_type[agents[t].req] = "launch" /\ silent = {}
             /\ job' = [job EXCEPT ![agents[t].req] = "gone"]
  /\ UNCHANGED <<queue, counts, ping_count, shutdown_time, msg_type>>

noresp(a) == {n \in DOMAIN a.res : a.res[n] = "noresp"}

\* Nodes to which the request is sent again: not to the ones that are DOWN or
\* powered down.
_queue_agent_retry(a, down) ==
  IF msg_type[a.req] = "signal" THEN noresp(a) \ down ELSE {}

\* The watchdog finds that all threads are done: a launch that was not
\* answered requeues its job, other requests are queued again.
_wdog(t) ==
  LET a == agents[t] IN
  /\ a.pc = "run" /\ a.new = {} /\ a.active = {}
  /\ job' = IF msg_type[a.req] = "launch" /\ noresp(a) # {} THEN [job EXCEPT ![a.req] = "gone"] ELSE job
  /\ \E down \in SUBSET noresp(a) :
       LET again == _queue_agent_retry(a, down) IN
       retry_list' = IF again = {} THEN retry_list
                     ELSE Append(retry_list, [req |-> a.req, nodes |-> again, age |-> 1, late |-> FALSE])
  /\ agents' = [agents EXCEPT ![t].pc = "notify"]
  /\ UNCHANGED <<pending_wait_time, pending_mail, retry_thread, counts, ping_count, shutdown_time, msg_type>>

\* Mutant of _notify_slurmctld_nodes: ping_end is not called.
_notify_slurmctld_nodesNoEnd(t) ==
  /\ agents[t].pc = "notify"
  /\ agents' = [agents EXCEPT ![t].pc = "cleanup", ![t].res = [n \in DOMAIN @ |-> "none"]]
  /\ UNCHANGED <<queue, counts, ping_count, job, shutdown_time, msg_type>>

\* It records which nodes responded, and that a ping has ended.
_notify_slurmctld_nodes(t) ==
  /\ agents[t].pc = "notify"
  /\ ping_count' = IF msg_type[agents[t].req] = "ping" THEN Max({0, ping_count - 1})  \* ping_end
                   ELSE ping_count
  /\ agents' = [agents EXCEPT ![t].pc = "cleanup", ![t].res = [n \in DOMAIN @ |-> "none"]]
  /\ UNCHANGED <<queue, counts, job, shutdown_time, msg_type>>

\* agent() gives its threads back, wakes agents that wait for threads and, if
\* a full agent fits, triggers the queue.
wake(t) ==
  [u \in Agents |-> IF u = t THEN Idle
                    ELSE IF agents[u].pc = "wait" THEN [agents[u] EXCEPT !.pc = "start"]
                    ELSE agents[u]]

\* Mutant of agent_cleanup: the queue is never triggered.
agent_cleanupNoTrigger(t) ==
  /\ agents[t].pc = "cleanup"
  /\ agent_cnt' = Max({0, agent_cnt - 1})
  /\ agent_thread_cnt' = Max({0, agent_thread_cnt - rpc_thread_cnt(agents[t])})
  /\ agents' = wake(t) /\ mail_ended' = FALSE
  /\ UNCHANGED <<queue, mail_list, mail_procs, cluster, msg_type>>

agent_cleanup(t) ==
  LET left == Max({0, agent_thread_cnt - rpc_thread_cnt(agents[t])})
  IN
  /\ agents[t].pc = "cleanup"
  /\ agent_cnt' = Max({0, agent_cnt - 1}) /\ agent_thread_cnt' = left
  /\ IF left + AGENT_THREAD_COUNT + 2 < MAX_SERVER_THREADS
       THEN agent_trigger(RPC_RETRY_INTERVAL, TRUE)
       ELSE UNCHANGED <<pending_wait_time, pending_mail>>
  /\ agents' = wake(t) /\ mail_ended' = FALSE
  /\ UNCHANGED <<retry_list, retry_thread, mail_list, mail_procs, cluster, msg_type>>

-----------------------------------------------------------------------------
(* What the rest of slurmctld does meanwhile, until it shuts down          *)

\* The prolog of a job ends, or the job ends or is cancelled.
prolog_complete(r) ==
  /\ ~shutdown_time /\ job[r] = "prolog" /\ job' = [job EXCEPT ![r] = "run"]
  /\ UNCHANGED <<queue, agents, counts, ping_count, shutdown_time, msg_type>>

job_complete(r) ==
  /\ ~shutdown_time /\ job[r] \in {"prolog", "run"} /\ job' = [job EXCEPT ![r] = "gone"]
  /\ UNCHANGED <<queue, agents, counts, ping_count, shutdown_time, msg_type>>

\* Time passes for an entry of the queue: the interval between two tries, and
\* the time a launch waits for its node (ResumeTimeout).
grow_old(r) ==
  /\ ~shutdown_time
  /\ \E i \in DOMAIN retry_list :
       /\ retry_list[i].req = r /\ retry_list[i].age = 1
       /\ retry_list' = [retry_list EXCEPT ![i].age = 2]
  /\ UNCHANGED <<pending_wait_time, pending_mail, retry_thread, agents, counts, cluster, msg_type>>

resume_timeout(r) ==
  /\ ~shutdown_time
  /\ \E i \in DOMAIN retry_list :
       /\ retry_list[i].req = r /\ retry_list[i].age > 0
       /\ msg_type[r] = "launch" /\ ~retry_list[i].late
       /\ retry_list' = [retry_list EXCEPT ![i].late = TRUE]
  /\ UNCHANGED <<pending_wait_time, pending_mail, retry_thread, agents, counts, cluster, msg_type>>

shutdown ==
  /\ ~shutdown_time /\ shutdown_time' = TRUE
  /\ UNCHANGED <<queue, agents, counts, ping_count, job, msg_type>>

agent_purge ==
  /\ shutdown_time /\ (retry_list # <<>> \/ mail_list > 0)
  /\ retry_list' = <<>> /\ mail_list' = 0
  /\ UNCHANGED <<pending_wait_time, pending_mail, retry_thread, agents, agent_cnt, agent_thread_cnt,
                 mail_procs, mail_ended, cluster, msg_type>>

\* The steps of the thread of agent_init, and of an agent with its threads.
retry_step == agent_init \/ _agent_retry \/ send_mail
agent_step(t) ==
  \/ agent_begin(t) \/ _wdog(t) \/ _notify_slurmctld_nodes(t) \/ agent_cleanup(t)
  \/ \E g \in SUBSET Nodes : start_thread(t, g) \/ _thread_per_group_rpc(t, g)

Next ==
  \/ \E r \in Requests : \/ \E type \in Types : agent_queue_request(r, type)
                          \/ prolog_complete(r) \/ job_complete(r) \/ grow_old(r) \/ resume_timeout(r)
  \/ mail_job_info \/ background \/ retry_step \/ _mail_proc
  \/ \E t \in Agents : agent_step(t)
  \/ shutdown \/ agent_purge

Spec == Init /\ [][Next]_vars

\* All threads keep running, the background thread loops, an RPC thread ends
\* (its communication times out and the watchdog interrupts it), prologs end
\* and time passes.  An agent that is woken when there is room needs only the
\* mutex, its competitor a trigger and a new thread: it is not overtaken for
\* ever.
Fairness ==
  /\ WF_vars(background) /\ WF_vars(retry_step) /\ WF_vars(_mail_proc)
  /\ \A t \in Agents : WF_vars(agent_step(t)) /\ SF_vars(agent_begin(t) /\ agent_cnt' > agent_cnt)
  /\ \A r \in Requests :
       WF_vars(prolog_complete(r)) /\ WF_vars(grow_old(r)) /\ WF_vars(resume_timeout(r))

\* Liveness is about a slurmctld that is not shut down.
FairSpec == Init /\ [][Next /\ ~shutdown_time']_vars /\ Fairness

-----------------------------------------------------------------------------
(* Properties                                                              *)

\* The call of request r to node n waits in the queue, or an agent has yet
\* to get its answer.
InQueue(r, n) == {i \in DOMAIN retry_list : retry_list[i].req = r /\ n \in retry_list[i].nodes}
InAgent(r, n) ==
  {t \in Agents : /\ agents[t].pc \in {"start", "wait", "run"} /\ agents[t].req = r
                  /\ n \in DOMAIN agents[t].res /\ agents[t].res[n] # "done"}
Pending(r, n) == InQueue(r, n) # {} \/ InAgent(r, n) # {}

\* The threads that agents and mail processes have taken are exactly those
\* agent_thread_cnt counts, agents are counted by agent_cnt, and together they
\* stay within MAX_SERVER_THREADS until slurmctld shuts down: no agent gives
\* back more or less than it took, whichever way it ends.
Counted == {t \in Agents : agents[t].pc \in {"run", "notify", "cleanup"}}
ThreadsOf(t) == {t} \X (1 .. rpc_thread_cnt(agents[t]))

ThreadsCounted ==
  /\ agent_cnt = Cardinality(Counted)
  /\ agent_thread_cnt = mail_procs + Cardinality(UNION {ThreadsOf(t) : t \in Counted})
  /\ ~shutdown_time => agent_thread_cnt <= MAX_SERVER_THREADS

\* A call is in one place at a time, in the queue or with one agent, though a
\* request is queued again while the agent that failed still runs: no node
\* gets the same request twice at a time.
OnePlace ==
  \A r \in Requests, n \in Nodes : Cardinality(InQueue(r, n)) + Cardinality(InAgent(r, n)) <= 1

\* A pending call stays pending until its node answers, or an agent gives it
\* up because nobody answered, or the launch is pointless because its job is
\* gone or has waited too long; and a call that is over does not come back.
CallsKept ==
  [][\A r \in Requests, n \in Nodes :
       /\ Pending(r, n) /\ ~Pending(r, n)' =>
            \/ shutdown_time
            \/ \E t \in InAgent(r, n) :
                 \/ agents'[t].pc = "run" /\ agents'[t].res[n] = "done"
                 \/ agents'[t].pc = "notify" /\ agents[t].res[n] = "noresp"
            \/ \E i \in InQueue(r, n) :
                 msg_type[r] = "launch" /\ (job[r] = "gone" \/ retry_list[i].late)
       /\ ~Pending(r, n) /\ Pending(r, n)' => msg_type[r] = "none"]_vars

\* ping_count counts the pings that are queued or with an agent: is_ping_done
\* neither blocks the next ping for ever nor lets two cycles overlap.
PingsCounted ==
  ~shutdown_time =>
    ping_count = Cardinality({r \in Requests :
                   /\ msg_type[r] = "ping"
                   /\ \/ \E i \in DOMAIN retry_list : retry_list[i].req = r
                      \/ \E t \in Agents :
                           agents[t].pc \in {"start", "wait", "run", "notify"} /\ agents[t].req = r})

\* Nothing waits for something that has happened already, except that a mail
\* process tells nobody when it ends.  An agent for which there is room again
\* has been woken by whoever made the room ("wait for state change and
\* retry").  A request that was never tried does not depend on the background
\* thread: a trigger is pending or being served, or an agent will give one
\* when it ends.
NobodyForgotten ==
  /\ \A t \in Agents :
       agents[t].pc = "wait" /\ agent_thread_cnt + rpc_thread_cnt(agents[t]) <= MAX_SERVER_THREADS
         => mail_ended
  /\ (\E i \in DOMAIN retry_list : retry_list[i].age = 0 /\ msg_type[retry_list[i].req] # "launch")
       => \/ pending_wait_time # NO_VAL16 \/ retry_thread.pc = "retry"
          \/ \E t \in Agents : agents[t].pc \notin {"idle", "wait"}
          \/ mail_procs > 0 \/ mail_ended \/ shutdown_time

\* No request stays in the queue for ever: it is sent, sent again, or a
\* launch is given up.
QueueServed ==
  \A r \in Requests :
    (\E i \in DOMAIN retry_list : retry_list[i].req = r)
      ~> (\A i \in DOMAIN retry_list : retry_list[i].req # r)

=============================================================================
