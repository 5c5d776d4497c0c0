--------------------------- MODULE DbdAgentProofs ---------------------------
(* The accounting agent loses no message silently and delivers in order,   *)
(* for every number of messages, callers, failures, stops and crashes.     *)
EXTENDS DbdAgent, FiniteSetTheorems, TLAPS

\* The prover of a leaf that names none.
USE Zenon

Increasing(q) == \A i, j \in DOMAIN q : i < j => q[i] < q[j]

-----------------------------------------------------------------------------
(* Sequences.                                                              *)

\* Cutting a sequence in two: the parts are sequences, in the same order.
LEMMA Cut ==
  ASSUME NEW S, NEW q \in Seq(S), NEW k \in 0 .. Len(q)
  PROVE  /\ SubSeq(q, 1, k) \in Seq(S) /\ Len(SubSeq(q, 1, k)) = k
         /\ SubSeq(q, k + 1, Len(q)) \in Seq(S) /\ Len(SubSeq(q, k + 1, Len(q))) = Len(q) - k
         /\ \A i \in 1 .. k : SubSeq(q, 1, k)[i] = q[i]
         /\ \A i \in 1 .. Len(q) - k : SubSeq(q, k + 1, Len(q))[i] = q[k + i]
  BY SMT

\* The elements of the parts are the elements of the sequence.
LEMMA CutElements ==
  ASSUME NEW S, NEW q \in Seq(S), NEW k \in 0 .. Len(q)
  PROVE  Range(q) = Range(SubSeq(q, 1, k)) \cup Range(SubSeq(q, k + 1, Len(q)))
  <1>1. Range(q) = {q[i] : i \in 1 .. Len(q)}  BY SMT DEF Range
  <1>2. Range(SubSeq(q, 1, k)) = {q[i] : i \in 1 .. k}
    <2> DEFINE t == SubSeq(q, 1, k)
    <2>1. DOMAIN t = 1 .. k /\ \A i \in 1 .. k : t[i] = q[i]  BY Cut, SMT
    <2> HIDE DEF t
    <2>2. Range(t) = {q[i] : i \in 1 .. k}  BY <2>1, SMT DEF Range
    <2> QED  BY <2>2 DEF t
  <1>3. Range(SubSeq(q, k + 1, Len(q))) = {q[k + i] : i \in 1 .. Len(q) - k}
    <2> DEFINE t == SubSeq(q, k + 1, Len(q))
    <2>1. DOMAIN t = 1 .. Len(q) - k /\ \A i \in 1 .. Len(q) - k : t[i] = q[k + i]
        BY Cut, SMT
    <2>2. Range(t) = {t[i] : i \in 1 .. Len(q) - k}
        BY <2>1 DEF Range
    <2> HIDE DEF t
    <2>3. {t[i] : i \in 1 .. Len(q) - k} = {q[k + i] : i \in 1 .. Len(q) - k}
        BY <2>1
    <2> QED  BY <2>2, <2>3 DEF t
  <1>4. \A i \in 1 .. Len(q) : i \in 1 .. k \/ (i - k \in 1 .. Len(q) - k /\ i = k + (i - k))
      BY SMT
  <1>5. \A i \in 1 .. Len(q) - k : k + i \in 1 .. Len(q)
      BY SMT
  <1>6. \A i \in 1 .. k : i \in 1 .. Len(q)
      BY SMT
  <1> QED  BY <1>1, <1>2, <1>3, <1>4, <1>5, <1>6

\* The parts of an increasing sequence increase.
LEMMA CutIncreasing ==
  ASSUME NEW S, NEW q \in Seq(S), NEW k \in 0 .. Len(q), Increasing(q)
  PROVE  Increasing(SubSeq(q, 1, k)) /\ Increasing(SubSeq(q, k + 1, Len(q)))
  <1> DEFINE h == SubSeq(q, 1, k)  t == SubSeq(q, k + 1, Len(q))
  <1>1. DOMAIN h = 1 .. k /\ \A i \in 1 .. k : h[i] = q[i]
      BY Cut, SMT
  <1>2. DOMAIN t = 1 .. Len(q) - k /\ \A i \in 1 .. Len(q) - k : t[i] = q[k + i]
      BY Cut, SMT
  <1>3. DOMAIN q = 1 .. Len(q) /\ Len(q) \in Nat
      BY SMT
  <1> HIDE DEF h, t
  <1>4. Increasing(h)
      BY <1>1, <1>3, SMT DEF Increasing
  <1>5. Increasing(t)
    <2> SUFFICES ASSUME NEW i \in DOMAIN t, NEW j \in DOMAIN t, i < j  PROVE t[i] < t[j]
        BY DEF Increasing
    <2>1. k + i \in DOMAIN q /\ k + j \in DOMAIN q /\ k + i < k + j
        BY <1>2, <1>3, SMT
    <2> QED  BY <2>1, <1>2 DEF Increasing
  <1> QED  BY <1>4, <1>5 DEF h, t

\* Appending adds the new element at the end.
LEMMA Appended ==
  ASSUME NEW S, NEW q \in Seq(S), NEW m \in S
  PROVE  /\ Append(q, m) \in Seq(S) /\ Len(Append(q, m)) = Len(q) + 1
         /\ Range(Append(q, m)) = Range(q) \cup {m}
  <1>1. /\ Append(q, m) \in Seq(S) /\ Len(Append(q, m)) = Len(q) + 1
        /\ \A i \in 1 .. Len(q) : Append(q, m)[i] = q[i]
        /\ Append(q, m)[Len(q) + 1] = m
      BY SMT
  <1>2. Range(Append(q, m)) = {Append(q, m)[i] : i \in 1 .. Len(q) + 1}
      BY <1>1, SMT DEF Range
  <1>3. Range(q) = {q[i] : i \in 1 .. Len(q)}  BY SMT DEF Range
  <1>4. \A i \in 1 .. Len(q) + 1 : i \in 1 .. Len(q) \/ i = Len(q) + 1  BY SMT
  <1>5. \A i \in 1 .. Len(q) : i \in 1 .. Len(q) + 1  BY SMT
  <1>6. Len(q) + 1 \in 1 .. Len(q) + 1  BY SMT
  <1> QED  BY <1>1, <1>2, <1>3, <1>4, <1>5, <1>6

\* A purge only removes, and keeps the order of what stays.
LEMMA Purged ==
  ASSUME NEW q \in Seq(Messages), NEW r \in purge(q)
  PROVE  /\ r \in Seq(Messages) /\ Len(r) <= Len(q)
         /\ Range(r) \subseteq Range(q)
         /\ Increasing(q) => Increasing(r)
  <1> DEFINE n == Cardinality(Kept(q))
  <1>1. PICK p \in Enumerations(Kept(q)) : r = [i \in DOMAIN p |-> q[p[i]]]
      BY DEF purge
  <1>2. p \in [1 .. n -> Kept(q)] /\ \A i, j \in DOMAIN p : i < j => p[i] < p[j]
      BY <1>1 DEF Enumerations
  <1>3. Kept(q) \subseteq 1 .. Len(q)
      BY SMT DEF Kept
  <1>4. n \in Nat /\ n <= Len(q)
    <2>1. IsFiniteSet(1 .. Len(q)) /\ Cardinality(1 .. Len(q)) = Len(q)
      <3>1. Len(q) \in Int /\ 1 \in Int /\ Len(q) >= 0
          BY SMT
      <3>2. Cardinality(1 .. Len(q)) = IF 1 > Len(q) THEN 0 ELSE Len(q) - 1 + 1
          BY <3>1, FS_Interval
      <3> QED  BY <3>1, <3>2, FS_Interval, SMTT(20)
    <2>2. IsFiniteSet(Kept(q)) /\ Cardinality(Kept(q)) <= Cardinality(1 .. Len(q))
        BY <2>1, <1>3, FS_Subset
    <2>3. Cardinality(Kept(q)) \in Nat
        BY <2>2, FS_CardinalityType
    <2> QED  BY <2>1, <2>2, <2>3
  <1>5. /\ DOMAIN r = 1 .. n
        /\ \A i \in 1 .. n : p[i] \in 1 .. Len(q) /\ r[i] = q[p[i]] /\ r[i] \in Messages
      BY <1>1, <1>2, <1>3, SMT
  <1>6. r \in Seq(Messages) /\ Len(r) = n
    <2>1. r \in [1 .. n -> Messages]
        BY <1>1, <1>5
    <2> QED  BY <2>1, <1>4, SMT
  <1>7. Range(r) \subseteq Range(q)
      BY <1>5, SMT DEF Range
  <1>8. Increasing(q) => Increasing(r)
      BY <1>2, <1>5, SMT DEF Increasing
  <1> QED  BY <1>4, <1>6, <1>7, <1>8

\* A queue is not the missing queue: no message has the number 0.
LEMMA NotNull == NULL \notin Seq(Messages)
  <1> SUFFICES ASSUME NULL \in Seq(Messages)  PROVE FALSE
      OBVIOUS
  <1>1. NULL[1] = 0 /\ 1 \in DOMAIN NULL
      BY SMT DEF NULL
  <1>2. NULL[1] \in Messages
      BY <1>1, SMT
  <1> QED  BY <1>1, <1>2, SMT DEF Messages

-----------------------------------------------------------------------------
(* The control: where the threads are.                                     *)

\* A raised halt_agent belongs to a caller on its way in, or to the agent
\* that is about to register; a halted agent has a caller to wake it.
Control ==
  /\ agent_tid \in AgentPlaces
  /\ slurmdbd_lock \in {Free, AgentThread} \cup Callers
  /\ agent_lock \in {Free, AgentThread}
  /\ caller \in [Callers -> {"idle", "want", "in"}]
  /\ ctld \in {"down", "up", "stopping", "fini", "closed"}
  /\ faults \in 0 .. MaxFaults /\ stops \in 0 .. MaxStops
  /\ ctld \in {"down", "fini", "closed"} <=> agent_tid = "none"
  /\ halt_agent => agent_tid = "register" \/ \E c \in Callers : caller[c] = "want"
  /\ HaltedAwaited

Flags ==
  /\ fail_time \in BOOLEAN /\ need_to_register \in BOOLEAN /\ slurmdbd_conn \in BOOLEAN
  /\ halt_agent \in BOOLEAN /\ slurmdbd_shutdown \in BOOLEAN

\* At the start nobody waits for anybody.
LEMMA ControlInit == Init => Control
  BY DbdAssumption, SMT DEF Init, Control, HaltedAwaited, AgentPlaces, AgentIO, Free, AgentThread

\* Every step keeps the control invariant.
LEMMA ControlStep == Control /\ [Next]_vars => Control'
  <1> SUFFICES ASSUME Control, [Next]_vars  PROVE Control'
      OBVIOUS
  <1> USE DbdAssumption DEF Control, HaltedAwaited, AgentPlaces, AgentIO, Free, AgentThread,
        env_vars, conn_vars, thread_vars, Fault, NoFault
  <1>1. CASE UNCHANGED vars
      BY <1>1 DEF vars
  <1>2. CASE slurm_send_slurmdbd_msg
      BY <1>2 DEF slurm_send_slurmdbd_msg, broadcast
  <1>3. ASSUME NEW c \in Callers, call(c)  PROVE Control'
      BY <1>3 DEF call
  <1>4. ASSUME NEW c \in Callers, call_locked(c)  PROVE Control'
      BY <1>4 DEF call_locked
  <1>5. ASSUME NEW c \in Callers, call_done(c)  PROVE Control'
      BY <1>5, SMT DEF call_done, signal
  <1>6. CASE agent_test
      BY <1>6 DEF agent_test, Goto
  <1>7. CASE agent_take
      BY <1>7 DEF agent_take, proceed, pick
  <1>8. CASE agent_woken
      BY <1>8 DEF agent_woken, proceed, pick
  <1>9. CASE _open_slurmdbd_conn
      BY <1>9, SMT DEF _open_slurmdbd_conn, pick
  <1>10. CASE agent_timeout
      BY <1>10 DEF agent_timeout, Goto
  <1>11. CASE slurm_persist_send_msg
      BY <1>11, SMT DEF slurm_persist_send_msg, Goto
  <1>12. CASE _handle_mult_rc_ret
      BY <1>12 DEF _handle_mult_rc_ret
  <1>13. CASE slurm_persist_recv_failed
      BY <1>13, SMT DEF slurm_persist_recv_failed
  <1>14. CASE agent_settle
      BY <1>14 DEF agent_settle, after_exchange
  <1>15. CASE agent_register
      BY <1>15 DEF agent_register, Goto
  <1>16. CASE agent_registered
      BY <1>16, SMT DEF agent_registered, Goto
  <1>17. CASE _save_dbd_state
      BY <1>17, SMT DEF _save_dbd_state, Goto
  <1>18. CASE dbd_process
      BY <1>18, SMT DEF dbd_process, Goto
  <1>19. CASE ten_seconds
      BY <1>19 DEF ten_seconds
  <1>20. CASE nudge
      BY <1>20 DEF nudge, Goto
  <1>21. CASE pthread_join
      BY <1>21 DEF pthread_join
  <1>22. CASE slurm_persist_conn_destroy
      BY <1>22 DEF slurm_persist_conn_destroy
  <1>23. CASE slurm_open_slurmdbd_conn
      BY <1>23, SMT DEF slurm_open_slurmdbd_conn
  <1>24. CASE stop
      BY <1>24, SMT DEF stop, broadcast
  <1>25. CASE pthread_cancel
      BY <1>25 DEF pthread_cancel, Goto
  <1>26. CASE exit
      BY <1>26 DEF exit, gone
  <1>27. CASE crash
      BY <1>27, SMT DEF crash, gone
  <1> QED
      BY <1>1, <1>2, <1>3, <1>4, <1>5, <1>6, <1>7, <1>8, <1>9, <1>10, <1>11, <1>12, <1>13, <1>14,
         <1>15, <1>16, <1>17, <1>18, <1>19, <1>20, <1>21, <1>22, <1>23, <1>24, <1>25, <1>26, <1>27
      DEF Next, agent_step, main_step

\* The flags stay flags.
LEMMA FlagsStep == Flags /\ [Next]_vars => Flags'
  <1> SUFFICES ASSUME Flags, [Next]_vars  PROVE Flags'
      OBVIOUS
  <1> USE DEF Flags, env_vars, conn_vars, thread_vars, Fault, NoFault
  <1>1. CASE UNCHANGED vars
      BY <1>1 DEF vars
  <1>2. CASE slurm_send_slurmdbd_msg
      BY <1>2 DEF slurm_send_slurmdbd_msg, broadcast
  <1>3. ASSUME NEW c \in Callers, call(c)  PROVE Flags'
      BY <1>3 DEF call
  <1>4. ASSUME NEW c \in Callers, call_locked(c)  PROVE Flags'
      BY <1>4 DEF call_locked
  <1>5. ASSUME NEW c \in Callers, call_done(c)  PROVE Flags'
      BY <1>5 DEF call_done, signal
  <1>6. CASE agent_test
      BY <1>6 DEF agent_test, Goto
  <1>7. CASE agent_take
      BY <1>7 DEF agent_take, proceed, pick
  <1>8. CASE agent_woken
      BY <1>8 DEF agent_woken, proceed, pick
  <1>9. CASE _open_slurmdbd_conn
      BY <1>9 DEF _open_slurmdbd_conn, pick
  <1>10. CASE agent_timeout
      BY <1>10 DEF agent_timeout, Goto
  <1>11. CASE slurm_persist_send_msg
      BY <1>11 DEF slurm_persist_send_msg, Goto
  <1>12. CASE _handle_mult_rc_ret
      BY <1>12 DEF _handle_mult_rc_ret
  <1>13. CASE slurm_persist_recv_failed
      BY <1>13 DEF slurm_persist_recv_failed
  <1>14. CASE agent_settle
      BY <1>14 DEF agent_settle, after_exchange
  <1>15. CASE agent_register
      BY <1>15 DEF agent_register, Goto
  <1>16. CASE agent_registered
      BY <1>16 DEF agent_registered, Goto
  <1>17. CASE _save_dbd_state
      BY <1>17 DEF _save_dbd_state, Goto
  <1>18. CASE dbd_process
      BY <1>18 DEF dbd_process, Goto
  <1>19. CASE ten_seconds
      BY <1>19 DEF ten_seconds
  <1>20. CASE nudge
      BY <1>20 DEF nudge, Goto
  <1>21. CASE pthread_join
      BY <1>21 DEF pthread_join
  <1>22. CASE slurm_persist_conn_destroy
      BY <1>22 DEF slurm_persist_conn_destroy
  <1>23. CASE slurm_open_slurmdbd_conn
      BY <1>23 DEF slurm_open_slurmdbd_conn
  <1>24. CASE stop
      BY <1>24 DEF stop, broadcast
  <1>25. CASE pthread_cancel
      BY <1>25 DEF pthread_cancel, Goto
  <1>26. CASE exit
      BY <1>26 DEF exit, gone
  <1>27. CASE crash
      BY <1>27 DEF crash, gone
  <1> QED
      BY <1>1, <1>2, <1>3, <1>4, <1>5, <1>6, <1>7, <1>8, <1>9, <1>10, <1>11, <1>12, <1>13, <1>14,
         <1>15, <1>16, <1>17, <1>18, <1>19, <1>20, <1>21, <1>22, <1>23, <1>24, <1>25, <1>26, <1>27
      DEF Next, agent_step, main_step

-----------------------------------------------------------------------------
(* The data: what is queued, saved, being sent and recorded.  cur is the   *)
(* queue, or the file while there is no queue: what the agent will send.   *)
cur == _create_agent

DataType ==
  /\ agent_list \in Seq(Messages) \cup {NULL} /\ Len(agent_list) <= MAX_AGENT_QUEUE
  /\ dbd_messages \in Seq(Messages) /\ Len(dbd_messages) <= MAX_AGENT_QUEUE
  /\ batch \in Seq(Messages) /\ Len(batch) <= HANDLE_COUNT + 1 /\ reply \in 0 .. Len(batch)
  /\ sent \in 0 .. Len(Kind) /\ offered \subseteq 1 .. sent /\ recorded \subseteq offered
  /\ late \subseteq 1 .. sent /\ excused \subseteq 1 .. sent

\* No agent will take a message off the queue, or save the queue.
NoAgent == AgentLost \cup {"none"}

\* What is held is in order, and everything is accounted for; a queue that
\* no agent will save holds nothing but late messages that is not.
Held ==
  /\ Range(cur) \subseteq 1 .. sent /\ Range(dbd_messages) \subseteq 1 .. sent
  /\ Increasing(cur) /\ Increasing(dbd_messages)
  /\ 1 .. sent \subseteq recorded \cup excused \cup Range(cur)
  /\ agent_tid \notin {"none", "ended", "cancelled"} => agent_list # NULL
  /\ agent_tid \in NoAgent =>
       Range(queue) \subseteq recorded \cup excused \cup late \cup Range(dbd_messages)

\* Where the agent may be while reply is not 0.
HasReply == {"answered", "settle_ok", "settle_failed", "cancelled", "none"}

\* Nothing is offered to SlurmDBD before what slurmctld has sent earlier.
Sending ==
  /\ Range(batch) \subseteq 1 .. sent
  /\ \A m \in offered : 1 .. m \subseteq offered \cup excused
  /\ \A i \in DOMAIN batch : \A m \in 1 .. batch[i] :
        m \in offered \cup excused \/ \E k \in 1 .. i : batch[k] = m
  /\ agent_tid = "answered" => \A i \in 1 .. reply : batch[i] \in recorded
  /\ agent_tid = "settle_ok" => \A i \in DOMAIN batch : batch[i] \in recorded
  /\ agent_tid \notin HasReply => reply = 0

Data == DataType /\ Held /\ Sending

\* Before slurmctld has started there is nothing.
LEMMA DataInit == Init => Data
  <1> SUFFICES ASSUME Init  PROVE Data
      OBVIOUS
  <1>1. <<>> \in Seq(Messages) /\ Len(<<>>) = 0 /\ DOMAIN <<>> = {} /\ Range(<<>>) = {}
      BY SMT DEF Range
  <1>2. Len(NULL) = 1
      BY DEF NULL
  <1>3. Len(Kind) \in Nat
      BY DbdAssumption, SMT
  <1> QED  BY <1>1, <1>2, <1>3, DbdAssumption, SMT
           DEF Init, Data, DataType, Held, Sending, HasReply, cur, queue, _create_agent, Increasing

\* The queue and what it will be again are queues of messages.
LEMMA HeldTypes ==
  ASSUME Data
  PROVE  /\ cur \in Seq(Messages) /\ Len(cur) <= MAX_AGENT_QUEUE
         /\ queue \in Seq(Messages) /\ Len(queue) <= MAX_AGENT_QUEUE
         /\ agent_list # NULL => queue = agent_list /\ cur = queue
         /\ agent_list = NULL => queue = <<>> /\ cur = dbd_messages
         /\ Increasing(queue) /\ Range(queue) \subseteq Range(cur)
  <1>2. cur \in Seq(Messages) /\ queue \in Seq(Messages)
      BY SMT DEF Data, DataType, cur, _create_agent, queue
  <1>4. Len(cur) <= MAX_AGENT_QUEUE /\ Len(queue) <= MAX_AGENT_QUEUE
      BY DbdAssumption, SMT DEF Data, DataType, cur, _create_agent, queue
  <1>5. Increasing(<<>>) /\ Range(<<>>) = {}
      BY SMT DEF Increasing, Range
  <1>6. /\ agent_list # NULL => queue = agent_list /\ cur = queue
        /\ agent_list = NULL => queue = <<>> /\ cur = dbd_messages
      BY DEF queue, cur, _create_agent
  <1> QED  BY <1>2, <1>4, <1>5, <1>6 DEF Data, Held

\* A step that moves none of the data keeps the invariant, unless the agent
\* claims an answer or starts.
LEMMA DataFrame ==
  ASSUME Data, UNCHANGED <<queue_vars, batch, reply>>,
         agent_tid' = agent_tid \/ agent_tid' \notin {"answered", "settle_ok"},
         agent_tid \in {"none", "ended", "cancelled"} => agent_tid' \in {"none", "ended", "cancelled"},
         agent_tid' \in NoAgent => agent_tid \in NoAgent,
         agent_tid \in HasReply => agent_tid' \in HasReply
  PROVE  Data'
  <1>1. DataType' /\ Sending'
      BY SMT DEF Data, DataType, Sending, HasReply, queue_vars
  <1>2. cur' = cur /\ queue' = queue
      BY DEF cur, queue, _create_agent, queue_vars
  <1>3. Held'
      BY <1>2, SMT DEF Data, Held, queue_vars
  <1> QED  BY <1>1, <1>3 DEF Data

\* A new message goes behind what a purge has left of the queue.
LEMMA SendStep ==
  ASSUME Control, Data, slurm_send_slurmdbd_msg
  PROVE  Data'
  <1> USE DbdAssumption
  <1>n. sent \in Nat /\ sent' = sent + 1 /\ sent' \in Messages /\ sent' \in 0 .. Len(Kind)
      BY SMT DEF Data, DataType, slurm_send_slurmdbd_msg, Messages
  <1>1. PICK r \in purge(cur) :
           /\ agent_list' = enqueue(r, sent')
           /\ excused' = excused \cup (Range(Append(cur, sent')) \ Range(agent_list'))
      BY DEF slurm_send_slurmdbd_msg, cur
  <1>2. /\ UNCHANGED <<dbd_messages, offered, recorded, batch, reply>>
        /\ late' = late \cup (IF agent_tid \in AgentLost THEN {sent'} ELSE {})
      BY DEF slurm_send_slurmdbd_msg
  <1>c. cur \in Seq(Messages) /\ Len(cur) <= MAX_AGENT_QUEUE
      BY HeldTypes
  <1>3. /\ r \in Seq(Messages) /\ Len(r) <= Len(cur)
        /\ Range(r) \subseteq Range(cur) /\ Increasing(r)
      BY <1>c, <1>1, Purged DEF Data, Held
  <1>4. Range(r) \subseteq 1 .. sent
      BY <1>3 DEF Data, Held
  <1>5. Range(Append(cur, sent')) = Range(cur) \cup {sent'}
      BY <1>c, <1>n, Appended
  <1>6. /\ agent_list' \in Seq(Messages) /\ Len(agent_list') <= MAX_AGENT_QUEUE
        /\ Range(agent_list') \subseteq 1 .. sent' /\ Increasing(agent_list')
    <2>1. CASE Len(r) < MAX_AGENT_QUEUE
      <3>1. agent_list' = Append(r, sent')
          BY <1>1, <2>1 DEF enqueue
      <3>2. /\ agent_list' \in Seq(Messages) /\ Len(agent_list') = Len(r) + 1
            /\ Range(agent_list') = Range(r) \cup {sent'}
          BY <3>1, <1>3, <1>n, Appended
      <3>3. \A i \in 1 .. Len(r) : r[i] \in Range(r)
          BY <1>3, SMT DEF Range
      <3>4. \A i \in 1 .. Len(r) : agent_list'[i] = r[i] /\ r[i] \in 1 .. sent
          BY <3>1, <3>3, <1>3, <1>4, <1>n, SMT
      <3>5. agent_list'[Len(r) + 1] = sent'
          BY <3>1, <1>3, SMT
      <3>6. Increasing(agent_list')
        <4> SUFFICES ASSUME NEW i \in DOMAIN agent_list', NEW j \in DOMAIN agent_list', i < j
                     PROVE  agent_list'[i] < agent_list'[j]
            BY DEF Increasing
        <4>1. i \in 1 .. Len(r) /\ (j \in 1 .. Len(r) \/ j = Len(r) + 1)
            BY <3>2, <1>3, SMT
        <4>2. DOMAIN r = 1 .. Len(r)
            BY <1>3, SMT
        <4> QED  BY <4>1, <4>2, <3>4, <3>5, <1>3, <1>n, SMT DEF Increasing
      <3> QED  BY <3>2, <3>6, <2>1, <1>3, <1>4, <1>n, SMT
    <2>2. CASE ~(Len(r) < MAX_AGENT_QUEUE)
      <3>1. agent_list' = r
          BY <1>1, <2>2 DEF enqueue
      <3> QED  BY <3>1, <1>c, <1>3, <1>4, <1>n, SMT
    <2> QED  BY <2>1, <2>2
  <1>7. agent_list' # NULL /\ cur' = agent_list'
      BY <1>6, NotNull DEF cur, _create_agent
  <1>8. excused \subseteq excused' /\ excused' \subseteq 1 .. sent'
    <2>1. 1 .. sent \subseteq 1 .. sent' /\ sent' \in 1 .. sent'
        BY <1>n, SMT
    <2>2. excused \subseteq 1 .. sent /\ Range(cur) \subseteq 1 .. sent
        BY DEF Data, DataType, Held
    <2> QED  BY <2>1, <2>2, <1>1, <1>5
  <1>9. 1 .. sent' \subseteq recorded' \cup excused' \cup Range(cur')
    <2>1. 1 .. sent' = 1 .. sent \cup {sent'}
        BY <1>n, SMT
    <2>2. 1 .. sent' \subseteq recorded \cup excused \cup Range(Append(cur, sent'))
        BY <2>1, <1>5 DEF Data, Held
    <2> QED  BY <2>2, <1>1, <1>2, <1>7
  <1>10. 1 .. sent \subseteq 1 .. sent'
      BY <1>n, SMT
  <1>a. late \subseteq late' /\ late' \subseteq 1 .. sent'
    <2>1. sent' \in 1 .. sent'
        BY <1>n, SMT
    <2> QED  BY <2>1, <1>2, <1>10 DEF Data, DataType
  <1>11. DataType'
      BY <1>2, <1>6, <1>8, <1>10, <1>a, <1>n DEF Data, DataType
  <1>b. agent_tid' \in NoAgent =>
          Range(queue') \subseteq recorded' \cup excused' \cup late' \cup Range(dbd_messages')
    <2> SUFFICES ASSUME agent_tid' \in NoAgent
                 PROVE  Range(agent_list') \subseteq recorded \cup excused \cup late'
                                                  \cup Range(dbd_messages)
        BY <1>2, <1>7, <1>8 DEF queue
    <2>1. agent_tid \in AgentLost
        BY DEF slurm_send_slurmdbd_msg, broadcast, Control, NoAgent, AgentLost
    <2>2. Range(agent_list') \subseteq Range(cur) \cup {sent'}
        BY <1>1, <1>3, <1>n, Appended DEF enqueue
    <2>3. Range(cur) \subseteq Range(queue) \cup Range(dbd_messages)
        BY HeldTypes
    <2>4. Range(queue) \subseteq recorded \cup excused \cup late \cup Range(dbd_messages)
        BY <2>1 DEF Data, Held, NoAgent
    <2> QED  BY <2>1, <2>2, <2>3, <2>4, <1>2
  <1>12. Held'
      BY <1>2, <1>6, <1>7, <1>9, <1>10, <1>b DEF Data, Held
  <1>13. Sending'
    <2>1. agent_tid' \in {"answered", "settle_ok"} => agent_tid' = agent_tid
        BY DEF slurm_send_slurmdbd_msg, broadcast
    <2>2. agent_tid' \notin HasReply => agent_tid \notin HasReply
        BY DEF slurm_send_slurmdbd_msg, broadcast, HasReply
    <2> QED  BY <2>1, <2>2, <1>2, <1>8, <1>10, SMT DEF Data, Sending
  <1> QED  BY <1>11, <1>12, <1>13 DEF Data

\* The batch is the head of the queue: all that was sent earlier is in it,
\* or recorded already.
LEMMA PickStep ==
  ASSUME Data, NEW conn, NEW failed, pick(conn, failed),
         UNCHANGED <<queue_vars, reply>>, agent_list # NULL, reply = 0
  PROVE  Data'
  <1> USE DEF NoAgent, AgentLost
  <1>1. CASE agent_tid' = "wait" /\ UNCHANGED batch
      BY <1>1, SMT DEF Data, DataType, Held, Sending, HasReply, cur, _create_agent, queue_vars
  <1>2. CASE agent_tid' = "send" /\ batch' = batch_of(queue)
    <2> DEFINE n == IF Len(queue) > HANDLE_COUNT THEN HANDLE_COUNT + 1 ELSE Len(queue)
    <2>q. queue \in Seq(Messages) /\ cur = queue /\ Increasing(queue)
        BY HeldTypes
    <2>n. n \in 0 .. Len(queue) /\ n <= HANDLE_COUNT + 1
        BY <2>q, DbdAssumption, SMT
    <2>3. batch' = SubSeq(queue, 1, n)
        BY <1>2 DEF batch_of
    <2>4. /\ batch' \in Seq(Messages) /\ Len(batch') = n
          /\ \A i \in 1 .. n : batch'[i] = queue[i]
        BY <2>3, <2>q, <2>n, Cut
    <2>5. Range(batch') \subseteq Range(queue)
        BY <2>3, <2>q, <2>n, CutElements, SMT
    <2>6. DOMAIN batch' = 1 .. n
        BY <2>4, SMT
    <2> HIDE DEF n
    <2>7. \A i \in DOMAIN batch' : \A m \in 1 .. batch'[i] :
             m \in offered \cup excused \/ \E k \in 1 .. i : batch'[k] = m
      <3> SUFFICES ASSUME NEW i \in 1 .. n, NEW m \in 1 .. batch'[i], m \notin offered \cup excused
                   PROVE  \E k \in 1 .. i : batch'[k] = m
          BY <2>6
      <3>0. i \in DOMAIN queue /\ batch'[i] = queue[i]
          BY <2>4, <2>q, <2>n, SMT
      <3>1. queue[i] \in 1 .. sent
          BY <3>0, <2>q DEF Data, Held, Range
      <3>2. m \in 1 .. sent
          BY <3>0, <3>1, SMT DEF Data, DataType
      <3>3. m \in Range(queue)
          BY <3>2, <2>q DEF Data, DataType, Held
      <3>4. PICK k \in DOMAIN queue : queue[k] = m
          BY <3>3 DEF Range
      <3>5. ~(i < k)
        <4> SUFFICES ASSUME i < k  PROVE FALSE
            OBVIOUS
        <4>1. queue[i] < queue[k]
            BY <3>0, <2>q DEF Increasing
        <4> QED  BY <4>1, <3>0, <3>1, <3>4, SMT
      <3>6. k \in 1 .. i
          BY <3>5, <3>0, <2>q, SMT
      <3>7. batch'[k] = queue[k]
          BY <3>6, <2>4, <2>n, SMT
      <3> QED  BY <3>4, <3>6, <3>7
    <2>8. DataType'
        BY <2>4, <2>n, SMT DEF Data, DataType, queue_vars
    <2>9. Held'
        BY <1>2 DEF Data, Held, cur, _create_agent, queue_vars
    <2>10. Sending'
        BY <1>2, <2>5, <2>7, <2>q DEF Data, Held, Sending, HasReply, queue_vars
    <2> QED  BY <2>8, <2>9, <2>10 DEF Data
  <1> QED  BY <1>1, <1>2 DEF pick

\* SlurmDBD is offered a head of the batch, and has recorded what it
\* acknowledges before the first error.
LEMMA ProcessStep ==
  ASSUME Data, dbd_process
  PROVE  Data'
  <1>1. PICK n \in 0 .. Len(batch), failed \in SUBSET (1 .. Len(batch)), k \in 0 .. Len(batch) :
           /\ n = Len(batch) \/ n \in failed
           /\ \A i \in failed : i <= n
           /\ \A i \in failed : k < i
           /\ k = Len(batch) \/ k + 1 \in failed
           /\ offered' = offered \cup {batch[i] : i \in 1 .. n}
           /\ recorded' = recorded \cup {batch[i] : i \in (1 .. n) \ failed}
           /\ reply' = k
      BY DEF dbd_process
  <1>2. /\ UNCHANGED <<agent_list, dbd_messages, sent, late, excused, batch>>
        /\ agent_tid = "sent" /\ agent_tid' = "answered"
      BY DEF dbd_process, Goto
  <1>b. batch \in Seq(Messages) /\ DOMAIN batch = 1 .. Len(batch) /\ Len(batch) \in Nat
      BY SMT DEF Data, DataType
  <1>3. \A i \in 1 .. k : i \in (1 .. n) \ failed
    <2>0. n \in Int /\ k \in Int /\ n <= Len(batch) /\ k <= Len(batch) /\ Len(batch) \in Nat
        BY <1>b, SMT
    <2>1. k <= n
      <3>1. CASE k + 1 \in failed
        <4>1. k + 1 <= n
            BY <1>1, <3>1
        <4> QED  BY <4>1, <2>0, SMT
      <3>2. CASE k = Len(batch) /\ n \in failed
        <4>1. k < n
            BY <1>1, <3>2
        <4> QED  BY <4>1, <3>2, <2>0, SMT
      <3>3. CASE n = Len(batch)
          BY <3>3, <2>0, SMT
      <3> QED  BY <1>1, <3>1, <3>2, <3>3
    <2> SUFFICES ASSUME NEW i \in 1 .. k  PROVE i \in 1 .. n /\ i \notin failed
        OBVIOUS
    <2>2. i \in 1 .. n /\ ~(k < i)
        BY <2>0, <2>1, SMT
    <2> QED  BY <1>1, <2>2
  <1>4. /\ offered \subseteq offered' /\ offered' \subseteq 1 .. sent
        /\ recorded \subseteq recorded' /\ recorded' \subseteq offered'
        /\ \A i \in 1 .. k : batch[i] \in recorded'
    <2>1. \A i \in 1 .. n : batch[i] \in Range(batch)
        BY <1>b, SMT DEF Range
    <2>2. offered' \subseteq 1 .. sent
      <3>1. offered \subseteq 1 .. sent /\ Range(batch) \subseteq 1 .. sent
          BY DEF Data, DataType, Sending
      <3>2. offered' = offered \cup {batch[i] : i \in 1 .. n}
          BY <1>1
      <3> QED  BY <2>1, <3>1, <3>2
    <2>3. recorded' \subseteq offered'
        BY <1>1 DEF Data, DataType
    <2>4. \A i \in 1 .. k : batch[i] \in recorded'
        BY <1>1, <1>3
    <2> QED  BY <2>2, <2>3, <2>4, <1>1
  <1>5. \A m \in offered' : 1 .. m \subseteq offered' \cup excused'
    <2> SUFFICES ASSUME NEW m \in offered', NEW x \in 1 .. m
                 PROVE  x \in offered' \cup excused'
        OBVIOUS
    <2>1. CASE m \in offered
        BY <2>1, <1>2, <1>4 DEF Data, Sending
    <2>2. CASE m \notin offered
      <3>1. PICK i \in 1 .. n : m = batch[i]
          BY <2>2, <1>1
      <3>2. i \in DOMAIN batch
          BY <1>b, SMT
      <3>3. x \in offered \cup excused \/ \E j \in 1 .. i : batch[j] = x
          BY <3>1, <3>2 DEF Data, Sending
      <3>4. \A j \in 1 .. i : j \in 1 .. n
          BY <1>b, SMT
      <3> QED  BY <3>3, <3>4, <1>1, <1>2, <1>4
    <2> QED  BY <2>1, <2>2
  <1>6. DataType'
      BY <1>1, <1>2, <1>4 DEF Data, DataType
  <1>7. Held'
      BY <1>2, <1>4 DEF Data, Held, cur, _create_agent, NoAgent, AgentLost
  <1>8. Sending'
    <2>1. reply' = k
        BY <1>1
    <2> QED  BY <2>1, <1>2, <1>4, <1>5 DEF Data, Sending, HasReply
  <1> QED  BY <1>6, <1>7, <1>8 DEF Data

\* As long as the batch is at the head of the queue, what SlurmDBD has
\* acknowledged are the messages at the head.
LEMMA HeadRecorded ==
  ASSUME Data, agent_list # NULL, NEW n \in 0 .. Len(batch), AtHead(agent_list),
         \A i \in 1 .. n : batch[i] \in recorded
  PROVE  n \in 0 .. Len(agent_list) /\ Range(SubSeq(agent_list, 1, n)) \subseteq recorded
  <1>1. agent_list \in Seq(Messages) /\ batch \in Seq(Messages)
      BY DEF Data, DataType
  <1>2. Len(batch) <= Len(agent_list) /\ \A i \in 1 .. Len(batch) : batch[i] = agent_list[i]
      BY <1>1, SMT DEF AtHead
  <1>3. n \in 0 .. Len(agent_list) /\ n <= Len(batch)
      BY <1>1, <1>2, SMT
  <1>4. /\ DOMAIN SubSeq(agent_list, 1, n) = 1 .. n
        /\ \A i \in 1 .. n : SubSeq(agent_list, 1, n)[i] = agent_list[i]
      BY <1>1, <1>3, Cut, SMT
  <1>5. \A i \in 1 .. n : agent_list[i] \in recorded
      BY <1>2, <1>3, SMT
  <1> QED  BY <1>3, <1>4, <1>5 DEF Range

\* Messages that leave at the head are recorded, or excused.
LEMMA DropStep ==
  ASSUME Data, agent_list # NULL, NEW n \in 0 .. Len(batch), drop(n),
         \A i \in 1 .. n : batch[i] \in recorded,
         UNCHANGED <<dbd_messages, sent, recorded>>, agent_tid' \notin NoAgent
  PROVE  /\ agent_list' \in Seq(Messages) /\ agent_list' # NULL
         /\ Len(agent_list') <= MAX_AGENT_QUEUE
         /\ excused \subseteq excused' /\ excused' \subseteq 1 .. sent
         /\ Held'
  <1> DEFINE k == IF n < Len(agent_list) THEN n ELSE Len(agent_list)
             h == SubSeq(agent_list, 1, k)
             t == SubSeq(agent_list, k + 1, Len(agent_list))
  <1>0. agent_list' = t /\ excused' = IF AtHead(agent_list) THEN excused
                                      ELSE excused \cup (Range(h) \ recorded)
      BY DEF drop
  <1>1. agent_list' = t /\ excused' = excused \cup (Range(h) \ recorded)
    <2>1. CASE AtHead(agent_list)
      <3>1. n \in 0 .. Len(agent_list) /\ Range(SubSeq(agent_list, 1, n)) \subseteq recorded
          BY <2>1, HeadRecorded
      <3>2. agent_list \in Seq(Messages)
          BY DEF Data, DataType
      <3>3. k = n
          BY <3>1, <3>2, SMT
      <3> QED  BY <1>0, <2>1, <3>1, <3>3
    <2> QED  BY <1>0, <2>1
  <1>2. /\ agent_list \in Seq(Messages) /\ cur = agent_list
        /\ Increasing(agent_list) /\ Len(agent_list) <= MAX_AGENT_QUEUE
      BY HeldTypes DEF Data, DataType
  <1>3. k \in 0 .. Len(agent_list)
      BY <1>2, SMT
  <1> HIDE DEF k
  <1>4. Range(agent_list) = Range(h) \cup Range(t)
      BY <1>2, <1>3, CutElements
  <1>5. Increasing(t) /\ t \in Seq(Messages) /\ Len(t) <= Len(agent_list)
      BY <1>2, <1>3, CutIncreasing, Cut, SMT
  <1> HIDE DEF h, t
  <1>6. agent_list' \in Seq(Messages) /\ agent_list' # NULL
      BY <1>1, <1>5, NotNull
  <1>7. cur' = agent_list'
      BY <1>6 DEF cur, _create_agent
  <1>8. Range(agent_list) \subseteq 1 .. sent
      BY <1>2 DEF Data, Held
  <1>9. excused \subseteq excused' /\ excused' \subseteq 1 .. sent
      BY <1>1, <1>4, <1>8 DEF Data, DataType
  <1>10. Len(agent_list') <= MAX_AGENT_QUEUE
      BY <1>1, <1>2, <1>5, DbdAssumption, SMT
  <1>11. Held'
      BY <1>1, <1>2, <1>4, <1>5, <1>6, <1>7, <1>8 DEF Data, Held
  <1> QED  BY <1>6, <1>9, <1>10, <1>11

\* The answer takes messages off the queue.
LEMMA AnswerStep ==
  ASSUME Data, _handle_mult_rc_ret
  PROVE  Data'
  <1> USE DEF NoAgent, AgentLost
  <1>1. /\ UNCHANGED <<dbd_messages, sent, offered, recorded, late, batch, reply>>
        /\ agent_tid = "answered"
        /\ agent_tid' = IF reply = Len(batch) THEN "settle_ok" ELSE "settle_failed"
      BY DEF _handle_mult_rc_ret
  <1>2. agent_list # NULL /\ reply \in Nat /\ DOMAIN batch = 1 .. Len(batch)
      BY <1>1, SMT DEF Data, Held, DataType
  <1>3. /\ agent_list' \in Seq(Messages) \cup {NULL} /\ Len(agent_list') <= MAX_AGENT_QUEUE
        /\ excused \subseteq excused' /\ excused' \subseteq 1 .. sent
        /\ Held'
    <2>1. CASE drop(reply)
      <3>1. reply \in 0 .. Len(batch) /\ \A i \in 1 .. reply : batch[i] \in recorded
          BY <1>1 DEF Data, DataType, Sending
      <3> QED  BY <2>1, <3>1, <1>1, <1>2, DropStep
    <2>2. CASE UNCHANGED <<agent_list, excused>>
        BY <2>2, <1>1, <1>2 DEF Data, DataType, Held, cur, _create_agent
    <2> QED  BY <2>1, <2>2 DEF _handle_mult_rc_ret
  <1>4. DataType'
      BY <1>1, <1>3 DEF Data, DataType
  <1>5. Sending'
      BY <1>1, <1>2, <1>3 DEF Data, Sending, HasReply
  <1> QED  BY <1>3, <1>4, <1>5 DEF Data

\* The end of the exchange takes the only message of the batch off the queue.
LEMMA SettleStep ==
  ASSUME Data, agent_settle
  PROVE  Data'
  <1> USE DEF NoAgent, AgentLost
  <1>1. /\ UNCHANGED <<dbd_messages, sent, offered, recorded, late>> /\ batch' = <<>> /\ reply' = 0
        /\ agent_tid \in {"settle_ok", "settle_failed"} /\ agent_tid' \in {"register", "loop"}
      BY DEF agent_settle, after_exchange
  <1>2. agent_list # NULL
      BY <1>1 DEF Data, Held
  <1>3. /\ agent_list' \in Seq(Messages) \cup {NULL} /\ Len(agent_list') <= MAX_AGENT_QUEUE
        /\ excused \subseteq excused' /\ excused' \subseteq 1 .. sent
        /\ Held'
    <2>1. CASE agent_tid = "settle_ok" /\ Len(batch) = 1 /\ drop(1)
      <3>1. DOMAIN batch = 1 .. 1 /\ \A i \in DOMAIN batch : batch[i] \in recorded
          BY <2>1, SMT DEF Data, DataType, Sending
      <3> QED  BY <2>1, <3>1, <1>1, <1>2, DropStep, SMT
    <2>2. CASE UNCHANGED <<agent_list, excused>>
        BY <2>2, <1>1, <1>2 DEF Data, DataType, Held, cur, _create_agent
    <2> QED  BY <2>1, <2>2 DEF agent_settle
  <1>4. <<>> \in Seq(Messages) /\ Len(<<>>) = 0 /\ DOMAIN <<>> = {} /\ Range(<<>>) = {}
      BY SMT DEF Range
  <1>5. DataType'
      BY <1>1, <1>3, <1>4, DbdAssumption, SMT DEF Data, DataType
  <1>6. Sending'
      BY <1>1, <1>3, <1>4 DEF Data, Sending
  <1> QED  BY <1>3, <1>5, <1>6 DEF Data

\* What the file does not take of the queue is excused.
LEMMA FileStep ==
  ASSUME Data, agent_list' = NULL, batch' = <<>>, reply' = 0,
         UNCHANGED <<sent, offered, recorded>>, late' \subseteq late,
         agent_tid' \in {"none", "ended"},
         dbd_messages' \in Seq(Messages), Len(dbd_messages') <= MAX_AGENT_QUEUE,
         Range(dbd_messages') \subseteq 1 .. sent, Increasing(dbd_messages'),
         excused \subseteq excused', excused' \subseteq 1 .. sent,
         Range(cur) \subseteq recorded \cup excused' \cup Range(dbd_messages')
  PROVE  Data'
  <1>1. <<>> \in Seq(Messages) /\ Len(<<>>) = 0 /\ DOMAIN <<>> = {} /\ Range(<<>>) = {}
      BY SMT DEF Range
  <1>2. Len(NULL) = 1
      BY DEF NULL
  <1>3. cur' = dbd_messages' /\ queue' = <<>>
      BY DEF cur, queue, _create_agent
  <1>4. DataType'
      BY <1>1, <1>2, DbdAssumption, SMT DEF Data, DataType
  <1>5. Held'
      BY <1>1, <1>3 DEF Data, Held
  <1>6. Sending'
      BY <1>1 DEF Data, Sending
  <1> QED  BY <1>4, <1>5, <1>6 DEF Data

\* A head of the queue, as it is written to the file.
LEMMA HeadOfQueue ==
  ASSUME Data, NEW n \in 0 .. Len(queue)
  PROVE  /\ SubSeq(queue, 1, n) \in Seq(Messages)
         /\ Len(SubSeq(queue, 1, n)) <= MAX_AGENT_QUEUE
         /\ Range(SubSeq(queue, 1, n)) \subseteq 1 .. sent
         /\ Increasing(SubSeq(queue, 1, n))
         /\ Range(queue) = Range(SubSeq(queue, 1, n)) \cup Range(SubSeq(queue, n + 1, Len(queue)))
         /\ Range(queue) \subseteq 1 .. sent
  <1>1. /\ queue \in Seq(Messages) /\ Len(queue) <= MAX_AGENT_QUEUE
        /\ Increasing(queue) /\ Range(queue) \subseteq 1 .. sent
      BY HeldTypes DEF Data, Held
  <1>2. SubSeq(queue, 1, n) \in Seq(Messages) /\ Len(SubSeq(queue, 1, n)) = n
      BY <1>1, Cut, SMT
  <1>3. n <= MAX_AGENT_QUEUE
      BY <1>1, DbdAssumption, SMT
  <1>4. Increasing(SubSeq(queue, 1, n))
      BY <1>1, CutIncreasing
  <1>5. Range(queue) = Range(SubSeq(queue, 1, n)) \cup Range(SubSeq(queue, n + 1, Len(queue)))
      BY <1>1, CutElements
  <1> QED  BY <1>1, <1>2, <1>3, <1>4, <1>5

\* The agent saves the queue and ends.
LEMMA SaveStep ==
  ASSUME Data, _save_dbd_state
  PROVE  Data'
  <1>1. PICK n \in 0 .. Len(queue) :
           /\ dbd_messages' = SubSeq(queue, 1, n)
           /\ excused' = excused \cup (Range(SubSeq(queue, n + 1, Len(queue))) \ recorded)
      BY DEF _save_dbd_state
  <1>2. /\ agent_tid = "save" /\ agent_tid' = "ended" /\ agent_list' = NULL
        /\ batch' = <<>> /\ reply' = 0 /\ UNCHANGED <<sent, offered, recorded, late>>
      BY DEF _save_dbd_state, Goto
  <1>3. cur = queue
      BY <1>2, HeldTypes DEF Data, Held
  <1>4. excused \subseteq 1 .. sent
      BY DEF Data, DataType
  <1> QED  BY <1>1, <1>2, <1>3, <1>4, HeadOfQueue, FileStep

\* The process ends, or dies; its queue is in the file or excused.
LEMMA GoneStep ==
  ASSUME Data, NEW f \in Seq(Messages), gone(f), Len(f) <= MAX_AGENT_QUEUE,
         Range(f) \subseteq 1 .. sent, Increasing(f), agent_list = NULL => f = dbd_messages,
         excused \subseteq excused', excused' \subseteq 1 .. sent,
         Range(queue) \subseteq recorded \cup excused' \cup Range(f)
  PROVE  Data'
  <1>1. /\ agent_list' = NULL /\ batch' = <<>> /\ reply' = 0
        /\ UNCHANGED <<sent, offered, recorded>> /\ late' = {}
        /\ agent_tid' = "none" /\ dbd_messages' = f
      BY DEF gone
  <1>2. Range(cur) \subseteq recorded \cup excused' \cup Range(f)
    <2>1. CASE agent_list = NULL
        BY <2>1, HeldTypes
    <2>2. CASE agent_list # NULL
        BY <2>2, HeldTypes
    <2> QED  BY <2>1, <2>2
  <1> QED  BY <1>1, <1>2, FileStep

\* An orderly end loses the late messages and no others.
LEMMA ExitStep ==
  ASSUME Control, Data, exit
  PROVE  Data'
  <1>1. agent_tid = "none" /\ gone(dbd_messages) /\ excused' = excused \cup late
      BY DEF Control, exit
  <1>2. Range(queue) \subseteq recorded \cup excused' \cup Range(dbd_messages)
      BY <1>1 DEF Data, Held, NoAgent
  <1> QED  BY <1>1, <1>2, GoneStep DEF Data, DataType, Held

\* A crash loses what is queued and not in the file.
LEMMA CrashStep ==
  ASSUME Data, crash
  PROVE  Data'
  <1>1. excused' = excused \cup (Range(queue) \ (Range(dbd_messages') \cup recorded))
      BY DEF crash
  <1>2. excused \subseteq 1 .. sent /\ Range(queue) \subseteq 1 .. sent
      BY HeldTypes DEF Data, DataType, Held
  <1>3. CASE gone(dbd_messages)
    <2>1. dbd_messages' = dbd_messages
        BY <1>3 DEF gone
    <2> QED  BY <1>1, <1>2, <1>3, <2>1, GoneStep DEF Data, DataType, Held
  <1>4. CASE agent_tid = "save" /\ \E n \in 0 .. Len(queue) : gone(SubSeq(queue, 1, n))
    <2>1. PICK n \in 0 .. Len(queue) : gone(SubSeq(queue, 1, n))
        BY <1>4
    <2>2. agent_list # NULL
        BY <1>4 DEF Data, Held
    <2>3. dbd_messages' = SubSeq(queue, 1, n)
        BY <2>1 DEF gone
    <2> QED  BY <1>1, <1>2, <2>1, <2>2, <2>3, HeadOfQueue, GoneStep
  <1> QED  BY <1>3, <1>4 DEF crash

\* An agent that is cancelled leaves a queue that is given up.
LEMMA CancelStep ==
  ASSUME Data, pthread_cancel
  PROVE  Data'
  <1>1. /\ UNCHANGED <<agent_list, dbd_messages, sent, offered, recorded, late, batch, reply>>
        /\ agent_tid' \in {"cancelled", "dying"}
        /\ agent_tid \notin {"none", "ended", "cancelled"}
        /\ agent_tid \in HasReply => agent_tid' \in HasReply
        /\ agent_tid # "dying" => unable_to_save
        /\ agent_tid = "dying" => excused' = excused
      BY DEF pthread_cancel, Goto, AgentIO, HasReply
  <1>2. cur' = cur /\ queue' = queue
      BY <1>1 DEF cur, queue, _create_agent
  <1>3. excused \subseteq excused' /\ excused' \subseteq 1 .. sent
    <2>1. excused \subseteq 1 .. sent /\ Range(queue) \subseteq 1 .. sent
        BY HeldTypes DEF Data, DataType, Held
    <2> QED  BY <2>1, <1>1 DEF unable_to_save
  <1>4. Range(queue) \subseteq recorded \cup excused' \cup late \cup Range(dbd_messages)
    <2>1. CASE agent_tid = "dying"
        BY <2>1, <1>1 DEF Data, Held, NoAgent, AgentLost
    <2>2. CASE agent_tid # "dying"
        BY <2>2, <1>1 DEF unable_to_save
    <2> QED  BY <2>1, <2>2
  <1>5. DataType'
      BY <1>1, <1>3 DEF Data, DataType
  <1>6. Held'
      BY <1>1, <1>2, <1>3, <1>4 DEF Data, Held
  <1>7. Sending'
      BY <1>1, <1>3, SMT DEF Data, Sending, HasReply
  <1> QED  BY <1>5, <1>6, <1>7 DEF Data

\* A controller that starts has the queue it left, or the one in the file.
LEMMA OpenStep ==
  ASSUME Data, slurm_open_slurmdbd_conn
  PROVE  Data'
  <1>1. /\ agent_list' = cur /\ agent_tid' = "loop" /\ batch' = <<>> /\ reply' = 0
        /\ UNCHANGED <<dbd_messages, sent, offered, recorded, excused>> /\ late' = {}
      BY DEF slurm_open_slurmdbd_conn, cur
  <1>2. cur \in Seq(Messages) /\ Len(cur) <= MAX_AGENT_QUEUE /\ cur # NULL
      BY HeldTypes, NotNull
  <1>3. cur' = cur
      BY <1>1, <1>2 DEF cur, _create_agent
  <1>4. <<>> \in Seq(Messages) /\ Len(<<>>) = 0 /\ DOMAIN <<>> = {} /\ Range(<<>>) = {}
      BY SMT DEF Range
  <1>5. DataType'
      BY <1>1, <1>2, <1>4, DbdAssumption, SMT DEF Data, DataType
  <1>6. Held'
      BY <1>1, <1>2, <1>3 DEF Data, Held, NoAgent, AgentLost
  <1>7. Sending'
      BY <1>1, <1>4 DEF Data, Sending
  <1> QED  BY <1>5, <1>6, <1>7 DEF Data

\* Every step keeps the data invariant.
LEMMA DataStep == Control /\ Data /\ [Next]_vars => Data'
  <1> SUFFICES ASSUME Control, Data, [Next]_vars  PROVE Data'
      OBVIOUS
  <1> USE DEF HasReply, NoAgent, AgentLost
  <1>1. CASE UNCHANGED vars
      BY <1>1, DataFrame DEF vars, thread_vars
  <1>2. CASE slurm_send_slurmdbd_msg
      BY <1>2, SendStep
  <1>3. ASSUME NEW c \in Callers, call(c)  PROVE Data'
      BY <1>3, DataFrame DEF call, thread_vars
  <1>4. ASSUME NEW c \in Callers, call_locked(c)  PROVE Data'
      BY <1>4, DataFrame DEF call_locked, thread_vars
  <1>5. ASSUME NEW c \in Callers, call_done(c)  PROVE Data'
      BY <1>5, DataFrame DEF call_done, signal
  <1>6. CASE agent_test
      BY <1>6, DataFrame DEF agent_test, Goto
  <1>7. ASSUME agent_tid \in {"lock", "signalled"}, proceed, UNCHANGED <<queue_vars, reply>>
        PROVE  Data'
    <2>1. agent_list # NULL /\ reply = 0
        BY <1>7 DEF Data, Held, Sending
    <2>2. CASE agent_tid' = "connecting" /\ UNCHANGED batch
        BY <1>7, <2>2, DataFrame
    <2>3. CASE pick(slurmdbd_conn, fail_time)
        BY <1>7, <2>1, <2>3, PickStep
    <2> QED  BY <1>7, <2>2, <2>3 DEF proceed
  <1>8. CASE agent_take
    <2>1. CASE agent_tid' = "halted" /\ UNCHANGED batch
        BY <1>8, <2>1, DataFrame DEF agent_take
    <2> QED  BY <1>7, <1>8, <2>1 DEF agent_take
  <1>9. CASE agent_woken
      BY <1>7, <1>9 DEF agent_woken
  <1>10. CASE _open_slurmdbd_conn
    <2>1. agent_list # NULL /\ reply = 0
        BY <1>10 DEF Data, Held, Sending, _open_slurmdbd_conn
    <2>2. pick(slurmdbd_conn', fail_time') /\ UNCHANGED <<queue_vars, reply>>
        BY <1>10 DEF _open_slurmdbd_conn
    <2> QED  BY <2>1, <2>2, PickStep
  <1>11. CASE agent_timeout
      BY <1>11, DataFrame DEF agent_timeout, Goto
  <1>12. CASE slurm_persist_send_msg
    <2>1. reply = 0 /\ UNCHANGED <<queue_vars, batch, reply>> /\ agent_tid = "send"
        BY <1>12 DEF slurm_persist_send_msg, Goto, Data, Sending
    <2>2. agent_tid' \in {"sent", "save", "settle_failed"}
        BY <1>12 DEF slurm_persist_send_msg, Goto
    <2> QED  BY <2>1, <2>2, DataFrame
  <1>13. CASE _handle_mult_rc_ret
      BY <1>13, AnswerStep
  <1>14. CASE slurm_persist_recv_failed
      BY <1>14, DataFrame DEF slurm_persist_recv_failed
  <1>15. CASE agent_settle
      BY <1>15, SettleStep
  <1>16. CASE agent_register
      BY <1>16, DataFrame DEF agent_register, Goto
  <1>17. CASE agent_registered
      BY <1>17, DataFrame DEF agent_registered, Goto
  <1>18. CASE _save_dbd_state
      BY <1>18, SaveStep
  <1>19. CASE dbd_process
      BY <1>19, ProcessStep
  <1>20. CASE ten_seconds
      BY <1>20, DataFrame DEF ten_seconds
  <1>21. CASE nudge
      BY <1>21, DataFrame DEF nudge, Goto
  <1>22. CASE pthread_join
      BY <1>22, DataFrame DEF pthread_join
  <1>23. CASE slurm_persist_conn_destroy
      BY <1>23, DataFrame DEF slurm_persist_conn_destroy, thread_vars
  <1>24. CASE slurm_open_slurmdbd_conn
      BY <1>24, OpenStep
  <1>25. CASE stop
      BY <1>25, DataFrame DEF stop, broadcast
  <1>26. CASE pthread_cancel
      BY <1>26, CancelStep
  <1>28. CASE exit
      BY <1>28, ExitStep
  <1>29. CASE crash
      BY <1>29, CrashStep
  <1> QED
      BY <1>1, <1>2, <1>3, <1>4, <1>5, <1>6, <1>8, <1>9, <1>10, <1>11, <1>12, <1>13, <1>14, <1>15,
         <1>16, <1>17, <1>18, <1>19, <1>20, <1>21, <1>22, <1>23, <1>24, <1>25, <1>26, <1>28, <1>29
      DEF Next, agent_step, main_step

-----------------------------------------------------------------------------
(* The theorems.                                                           *)

\* The flags are flags at the start.
LEMMA FlagsInit == Init => Flags
  BY DEF Init, Flags

\* The invariants hold in every state of every behaviour.
LEMMA Invariants == Spec => [](Control /\ Flags /\ Data)
  <1>1. Init => Control /\ Flags /\ Data
      BY ControlInit, FlagsInit, DataInit
  <1>2. Control /\ Flags /\ Data /\ [Next]_vars => (Control /\ Flags /\ Data)'
      BY ControlStep, FlagsStep, DataStep
  <1> QED  BY <1>1, <1>2, PTL DEF Spec

\* The variables have their types; the queue, the file and the batch never
\* exceed max_agent_queue and handle_agent_count.
THEOREM TypeCorrect == Spec => []TypeOK
  <1>1. Control /\ Flags /\ Data => TypeOK
      BY DEF Control, Flags, Data, DataType, TypeOK
  <1> QED  BY <1>1, Invariants, PTL

\* No message disappears between slurm_send_slurmdbd_msg(), the exchange,
\* the save at the end of the agent and the load at the next start, but for
\* those sent when the agent has saved and ended, which an exit loses.
THEOREM Accounted == Spec => []NoSilentLoss
  <1>1. Data => NoSilentLoss
    <2> SUFFICES ASSUME Data  PROVE NoSilentLoss
        OBVIOUS
    <2>1. Range(cur) \subseteq Range(queue) \cup Range(dbd_messages)
        BY HeldTypes
    <2> QED  BY <2>1 DEF Data, Held, NoSilentLoss
  <1> QED  BY <1>1, Invariants, PTL

\* SlurmDBD is offered the messages in the order slurmctld sent them, however
\* often it fails one, answers are lost, slurmctld crashes, and batches come
\* again.
THEOREM Ordered == Spec => []InOrder
  <1>1. Data => InOrder
    <2> SUFFICES ASSUME Data  PROVE InOrder
        OBVIOUS
    <2>1. Increasing(queue)
        BY HeldTypes
    <2> QED  BY <2>1 DEF Data, Sending, InOrder, Increasing
  <1> QED  BY <1>1, Invariants, PTL

\* An agent that waits on slurmdbd_cond has a caller that will signal it.
THEOREM Awaited == Spec => []HaltedAwaited
  <1>1. Control => HaltedAwaited
      BY DEF Control
  <1> QED  BY <1>1, Invariants, PTL

\* Only recorded messages leave the head of a queue the batch is still at
\* the head of.
LEMMA HeadDropped ==
  ASSUME Data, agent_list # NULL, NEW n \in 0 .. Len(batch), drop(n), AtHead(queue),
         \A i \in 1 .. n : batch[i] \in recorded
  PROVE  TakenOff \subseteq recorded
  <1>1. queue = agent_list /\ queue \in Seq(Messages)
      BY HeldTypes
  <1>2. n \in 0 .. Len(queue) /\ Range(SubSeq(queue, 1, n)) \subseteq recorded
      BY <1>1, HeadRecorded
  <1>3. queue' = SubSeq(queue, n + 1, Len(queue))
    <2>0. (IF n < Len(agent_list) THEN n ELSE Len(agent_list)) = n
        BY <1>1, <1>2, SMT
    <2>1. agent_list' = SubSeq(queue, n + 1, Len(queue))
        BY <2>0, <1>1 DEF drop
    <2>2. SubSeq(queue, n + 1, Len(queue)) \in Seq(Messages)
        BY <1>1, <1>2, Cut
    <2>3. agent_list' # NULL
        BY <2>1, <2>2, NotNull
    <2> QED  BY <2>1, <2>3 DEF queue
  <1>4. Range(queue) = Range(SubSeq(queue, 1, n)) \cup Range(queue')
      BY <1>1, <1>2, <1>3, CutElements
  <1> QED  BY <1>2, <1>4 DEF TakenOff

\* The agent takes a message off the queue only when SlurmDBD has recorded
\* it, unless a purge has moved the batch it was answering for.
THEOREM TakenWhenProcessed == Spec => HeldUnlessPurged
  <1> DEFINE A == (agent_tid \in {"answered", "settle_ok"} /\ ByAgent /\ AtHead(queue))
                    => TakenOff \subseteq recorded
  <1>1. Control /\ Data /\ [Next]_vars => A
    <2> SUFFICES ASSUME Control, Data, [Next]_vars, agent_tid \in {"answered", "settle_ok"},
                        agent_tid' # agent_tid, agent_list' # NULL, AtHead(queue)
                 PROVE  TakenOff \subseteq recorded
        BY DEF ByAgent
    <2>1. agent_list # NULL /\ reply \in 0 .. Len(batch) /\ DOMAIN batch = 1 .. Len(batch)
        BY SMT DEF Data, DataType, Held
    <2>2. CASE UNCHANGED agent_list
        BY <2>2 DEF TakenOff, queue
    <2>3. CASE _handle_mult_rc_ret
      <3>1. agent_tid = "answered" /\ (drop(reply) \/ UNCHANGED agent_list)
          BY <2>3 DEF _handle_mult_rc_ret
      <3>2. \A i \in 1 .. reply : batch[i] \in recorded
          BY <3>1 DEF Data, Sending
      <3> QED  BY <3>1, <3>2, <2>1, <2>2, HeadDropped
    <2>4. CASE agent_settle
      <3>1. agent_tid = "settle_ok" /\ (UNCHANGED agent_list \/ (Len(batch) = 1 /\ drop(1)))
          BY <2>4 DEF agent_settle
      <3>2. \A i \in DOMAIN batch : batch[i] \in recorded
          BY <3>1 DEF Data, Sending
      <3>3. CASE Len(batch) = 1 /\ drop(1)
          BY <3>2, <3>3, <2>1, HeadDropped, SMT
      <3> QED  BY <3>1, <3>3, <2>2
    <2> QED
        BY <2>2, <2>3, <2>4
        DEF Next, agent_step, main_step, vars, queue_vars, thread_vars, Control, slurm_send_slurmdbd_msg,
            broadcast, call, call_locked, call_done, signal, agent_test, agent_take, agent_woken,
            _open_slurmdbd_conn, agent_timeout, slurm_persist_send_msg, slurm_persist_recv_failed,
            agent_register, agent_registered, _save_dbd_state, dbd_process, ten_seconds, nudge,
            pthread_join, slurm_persist_conn_destroy, slurm_open_slurmdbd_conn, stop, pthread_cancel,
            exit, crash, gone, Goto
  <1> QED  BY <1>1, Invariants, PTL DEF Spec, HeldUnlessPurged
=============================================================================
