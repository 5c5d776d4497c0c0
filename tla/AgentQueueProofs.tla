-------------------------- MODULE AgentQueueProofs --------------------------
(***************************************************************************)
(* The queue of RPCs, its agents and their threads, for any requests,      *)
(* nodes, agents and limits.                                               *)
(***************************************************************************)
EXTENDS AgentQueue, FiniteSetTheorems, WellFoundedInduction, TLAPS

\* The prover of a leaf that names none.
USE Zenon

-----------------------------------------------------------------------------
(* The inductive invariant                                                 *)

\* An agent has its request in hand until it has sent the rest of it back to
\* the queue or, when that does not happen, until it has reported.
Holding(t) ==
  \/ agents[t].pc \in {"start", "wait", "run"}
  \/ agents[t].pc = "notify" /\ msg_type[agents[t].req] # "signal"

\* A request that was made is in the queue once, or in the hands of one agent,
\* or in neither.
OneHolder ==
  /\ \A i \in DOMAIN retry_list : msg_type[retry_list[i].req] # "none"
  /\ \A t \in Agents : agents[t].pc # "idle" => msg_type[agents[t].req] # "none"
  /\ \A i, k \in DOMAIN retry_list : retry_list[i].req = retry_list[k].req => i = k
  /\ \A t, u \in Agents : Holding(t) /\ Holding(u) /\ agents[t].req = agents[u].req => t = u
  /\ \A i \in DOMAIN retry_list, t \in Agents : Holding(t) => agents[t].req # retry_list[i].req

\* The groups whose threads have not ended are disjoint, and their nodes are
\* those without an answer; before the threads start that is every node.
GroupsOf(a) ==
  /\ a.pc \in {"start", "wait"} =>
       a.new = {} /\ a.active = {} /\ \A n \in DOMAIN a.res : a.res[n] = "none"
  /\ a.pc = "run" =>
       /\ a.new \cap a.active = {}
       /\ \A n \in DOMAIN a.res : a.res[n] = "none" => \E g \in a.new \cup a.active : n \in g
       /\ \A g \in a.new \cup a.active : \A n \in g : n \in DOMAIN a.res /\ a.res[n] = "none"
       /\ \A g, h \in a.new \cup a.active : g # h => g \cap h = {}
GroupsOK == \A t \in Agents : GroupsOf(agents[t])

\* A ping that is not sent yet has nodes: its agent does not end unreported.
PingNodes ==
  /\ \A i \in DOMAIN retry_list : msg_type[retry_list[i].req] = "ping" => retry_list[i].nodes # {}
  /\ \A t \in Agents :
       agents[t].pc \in {"start", "wait"} /\ msg_type[agents[t].req] = "ping" => DOMAIN agents[t].res # {}

AgentInv ==
  /\ TypeOK /\ OneHolder /\ GroupsOK /\ PingNodes
  /\ ThreadsCounted /\ PingsCounted /\ NobodyForgotten

-----------------------------------------------------------------------------
(* Numbers                                                                 *)

\* Min and Max of two numbers.
LEMMA MinPair ==
  ASSUME NEW a \in Int, NEW b \in Int
  PROVE  Min({a, b}) = IF a =< b THEN a ELSE b
  <1>1. CASE a =< b
    <2>1. a \in {a, b} /\ \A y \in {a, b} : a =< y  BY <1>1, SMT
    <2>2. \A x \in {a, b} : (\A y \in {a, b} : x =< y) => x = a  BY <1>1, SMT
    <2> QED  BY <1>1, <2>1, <2>2, SMT DEF Min
  <1>2. CASE ~(a =< b)
    <2>1. b \in {a, b} /\ \A y \in {a, b} : b =< y  BY <1>2, SMT
    <2>2. \A x \in {a, b} : (\A y \in {a, b} : x =< y) => x = b  BY <1>2
    <2> QED  BY <1>2, <2>1, <2>2 DEF Min
  <1> QED  BY <1>1, <1>2

\* The same for Max.
LEMMA MaxPair ==
  ASSUME NEW a \in Int, NEW b \in Int
  PROVE  Max({a, b}) = IF a =< b THEN b ELSE a
  <1>1. CASE a =< b
    <2>1. b \in {a, b} /\ \A y \in {a, b} : b >= y  BY <1>1, SMT
    <2>2. \A x \in {a, b} : (\A y \in {a, b} : x >= y) => x = b  BY <1>1, SMT
    <2> QED  BY <1>1, <2>1, <2>2 DEF Max
  <1>2. CASE ~(a =< b)
    <2>1. a \in {a, b} /\ \A y \in {a, b} : a >= y  BY <1>2, SMT
    <2>2. \A x \in {a, b} : (\A y \in {a, b} : x >= y) => x = a  BY <1>2
    <2> QED  BY <1>2, <2>1, <2>2, SMT DEF Max
  <1> QED  BY <1>1, <1>2

\* A non-empty set of natural numbers has a least element; Min returns it.
LEMMA MinOfNaturals ==
  ASSUME NEW S, S \subseteq Nat, S # {}
  PROVE  Min(S) \in S
  <1>1. PICK x \in S : \A y \in S : ~ (<<y, x>> \in OpToRel(<, Nat))
      BY NatLessThanWellFounded, WFMin
  <1>2. \A y \in S : <<y, x>> \in Nat \X Nat  OBVIOUS
  <1>3. \A y \in S : ~ (y < x)
      BY <1>1, <1>2 DEF OpToRel
  <1>4. \A y \in S : x =< y
      BY <1>3, SMT
  <1> QED  BY <1>4 DEF Min

-----------------------------------------------------------------------------
(* The state of an agent                                                   *)

Pcs == {"start", "wait", "run", "notify", "cleanup"}

\* The fields of an agent that is not idle.
LEMMA StateFields ==
  ASSUME NEW a \in AgentStates
  PROVE  /\ a.pc \in Pcs /\ a.req \in Requests
         /\ a.new \in SUBSET SUBSET Nodes /\ a.active \in SUBSET SUBSET Nodes
         /\ DOMAIN a.res \in SUBSET Nodes /\ a.res \in [DOMAIN a.res -> Results]
         /\ a = [pc |-> a.pc, req |-> a.req, new |-> a.new, active |-> a.active, res |-> a.res]
  <1>1. PICK N \in SUBSET Nodes : a.res \in [N -> Results]
      BY DEF AgentStates
  <1>2. DOMAIN a.res = N  BY <1>1
  <1> QED  BY <1>1, <1>2 DEF AgentStates, Pcs

\* A record with such fields is the state of an agent.
LEMMA StateMade ==
  ASSUME NEW p \in Pcs, NEW r \in Requests, NEW new \in SUBSET SUBSET Nodes,
         NEW active \in SUBSET SUBSET Nodes, NEW N \in SUBSET Nodes, NEW res \in [N -> Results]
  PROVE  [pc |-> p, req |-> r, new |-> new, active |-> active, res |-> res] \in AgentStates
  BY SMT DEF AgentStates, Pcs

\* An agent is idle or in one of these states.
LEMMA NotIdle ==
  ASSUME TypeOK, NEW t \in Agents, agents[t].pc # "idle"
  PROVE  agents[t] \in AgentStates
  BY SMT DEF TypeOK, Idle

\* Idle is no state of an agent that runs.
LEMMA IdlePc == Idle.pc = "idle" /\ "idle" \notin Pcs
  BY DEF Idle, Pcs

\* agent t goes on: the other agents stay as they are, and t has the state b.
Becomes(t, b) ==
  /\ agents' \in [Agents -> AgentStates \cup {Idle}]
  /\ agents'[t] = b
  /\ \A u \in Agents \ {t} : agents'[u] = agents[u]

\* An update of one agent by a state makes it become that state.
LEMMA Updated ==
  ASSUME TypeOK, NEW t \in Agents, NEW b \in AgentStates \cup {Idle},
         agents' = [agents EXCEPT ![t] = b]
  PROVE  Becomes(t, b)
  BY DEF TypeOK, Becomes

\* What agent_begin does to its agent.
LEMMA BeginEffect ==
  ASSUME TypeOK, NEW t \in Agents, agent_begin(t)
  PROVE  /\ agents[t] \in AgentStates /\ agents[t].pc = "start"
         /\ \E b \in AgentStates :
              /\ Becomes(t, b) /\ b.req = agents[t].req /\ b.res = agents[t].res
              /\ b.active = agents[t].active
              /\ \/ b.pc = "cleanup" /\ (shutdown_time \/ DOMAIN agents[t].res = {})
                 \/ b.pc = "run" /\ b.new = groups(agents[t])
                 \/ b.pc = "wait" /\ b.new = agents[t].new
              /\ b.pc = "wait" <=>
                   ~(shutdown_time \/ agent_thread_cnt + rpc_thread_cnt(agents[t]) <= MAX_SERVER_THREADS)
  <1> DEFINE a == agents[t]
             b(p, n) == [pc |-> p, req |-> a.req, new |-> n, active |-> a.active, res |-> a.res]
             room == shutdown_time \/ agent_thread_cnt + rpc_thread_cnt(a) <= MAX_SERVER_THREADS
  <1>1. a.pc = "start" /\ a \in AgentStates
      BY NotIdle DEF agent_begin
  <1>2. /\ a.req \in Requests /\ a.new \in SUBSET SUBSET Nodes /\ a.active \in SUBSET SUBSET Nodes
        /\ DOMAIN a.res \in SUBSET Nodes /\ a.res \in [DOMAIN a.res -> Results]
        /\ a = [pc |-> a.pc, req |-> a.req, new |-> a.new, active |-> a.active, res |-> a.res]
      BY <1>1, StateFields
  <1>3. groups(a) \in SUBSET SUBSET Nodes
      BY <1>2, SMT DEF groups
  <1>4. \A p \in Pcs, n \in SUBSET SUBSET Nodes : b(p, n) \in AgentStates
      BY <1>2, StateMade
  <1> HIDE DEF a
  <1>5. CASE room /\ (shutdown_time \/ DOMAIN a.res = {})
    <2>1. agents' = [agents EXCEPT ![t] = b("cleanup", a.new)]
        BY <1>5, <1>2 DEF agent_begin, a
    <2>2. b("cleanup", a.new) \in AgentStates  BY <1>2, <1>4 DEF Pcs
    <2>3. Becomes(t, b("cleanup", a.new))  BY <2>1, <2>2, Updated
    <2> QED  BY <1>1, <1>5, <2>2, <2>3 DEF a
  <1>6. CASE room /\ ~(shutdown_time \/ DOMAIN a.res = {})
    <2>1. agents' = [agents EXCEPT ![t] = b("run", groups(a))]
        BY <1>6, <1>2 DEF agent_begin, a
    <2>2. b("run", groups(a)) \in AgentStates  BY <1>3, <1>4 DEF Pcs
    <2>3. Becomes(t, b("run", groups(a)))  BY <2>1, <2>2, Updated
    <2> QED  BY <1>1, <1>6, <2>2, <2>3 DEF a
  <1>7. CASE ~room
    <2>1. agents' = [agents EXCEPT ![t] = b("wait", a.new)]
        BY <1>7, <1>2 DEF agent_begin, a
    <2>2. b("wait", a.new) \in AgentStates  BY <1>2, <1>4 DEF Pcs
    <2>3. Becomes(t, b("wait", a.new))  BY <2>1, <2>2, Updated
    <2> QED  BY <1>1, <1>7, <2>2, <2>3 DEF a
  <1> QED  BY <1>5, <1>6, <1>7

\* What start_thread does to its agent.
LEMMA StartEffect ==
  ASSUME TypeOK, NEW t \in Agents, NEW g \in SUBSET Nodes, start_thread(t, g)
  PROVE  /\ agents[t] \in AgentStates /\ agents[t].pc = "run" /\ g \in agents[t].new
         /\ \E b \in AgentStates :
              /\ Becomes(t, b) /\ b.pc = "run" /\ b.req = agents[t].req /\ b.res = agents[t].res
              /\ b.new = agents[t].new \ {g} /\ b.active = agents[t].active \cup {g}
  <1> DEFINE a == agents[t]
  <1>1. a.pc = "run" /\ a \in AgentStates
      BY NotIdle DEF start_thread
  <1>2. /\ a.req \in Requests /\ a.new \in SUBSET SUBSET Nodes /\ a.active \in SUBSET SUBSET Nodes
        /\ DOMAIN a.res \in SUBSET Nodes /\ a.res \in [DOMAIN a.res -> Results]
        /\ a = [pc |-> a.pc, req |-> a.req, new |-> a.new, active |-> a.active, res |-> a.res]
      BY <1>1, StateFields
  <1> HIDE DEF a
  <1>g. g \in a.new  BY DEF start_thread, a
  <1> DEFINE b == [pc |-> "run", req |-> a.req, new |-> a.new \ {g}, active |-> a.active \cup {g}, res |-> a.res]
  <1>3. b \in AgentStates
      BY <1>1, <1>2, StateMade, <1>g, SMT DEF Pcs, Results
  <1>4. agents' = [agents EXCEPT ![t] = b]
    <2>1. agents' = [agents EXCEPT ![t].new = @ \ {g}, ![t].active = @ \cup {g}]
        BY DEF start_thread
    <2>2. PICK x, y : x = a.new \ {g} /\ y = a.active \cup {g}  OBVIOUS
    <2>3. agents' = [agents EXCEPT ![t] = [a EXCEPT !.new = x, !.active = y]]
        BY <2>1, <2>2 DEF a, TypeOK
    <2>4. PICK m : m = [a EXCEPT !.new = x]  OBVIOUS
    <2>5. m = [pc |-> a.pc, req |-> a.req, new |-> x, active |-> a.active, res |-> a.res]
        BY <1>2, <2>4
    <2>6. [m EXCEPT !.active = y] = [pc |-> a.pc, req |-> a.req, new |-> x, active |-> y, res |-> a.res]
        BY <2>5, SMT
    <2>7. [a EXCEPT !.new = x, !.active = y] = [m EXCEPT !.active = y]
        BY <2>4
    <2> QED  BY <1>1, <2>2, <2>3, <2>6, <2>7
  <1>5. Becomes(t, b)
      BY <1>3, <1>4, Updated
  <1> QED  BY <1>1, <1>3, <1>5, <1>g DEF a

\* What the end of an RPC thread does to its agent: the nodes of its group have
\* answered, or not.
LEMMA ThreadEffect ==
  ASSUME TypeOK, NEW t \in Agents, NEW g \in SUBSET Nodes, _thread_per_group_rpc(t, g)
  PROVE  /\ agents[t] \in AgentStates /\ agents[t].pc = "run" /\ g \in agents[t].active
         /\ \E b \in AgentStates :
              /\ Becomes(t, b) /\ b.pc = "run" /\ b.req = agents[t].req
              /\ b.new = agents[t].new /\ b.active = agents[t].active \ {g}
              /\ DOMAIN b.res = DOMAIN agents[t].res
              /\ \A n \in DOMAIN b.res \ g : b.res[n] = agents[t].res[n]
              /\ \A n \in DOMAIN b.res \cap g : b.res[n] \in {"done", "noresp"}
  <1> DEFINE a == agents[t]
  <1>1. a.pc = "run" /\ a \in AgentStates
      BY NotIdle DEF _thread_per_group_rpc
  <1>2. /\ a.req \in Requests /\ a.new \in SUBSET SUBSET Nodes /\ a.active \in SUBSET SUBSET Nodes
        /\ DOMAIN a.res \in SUBSET Nodes /\ a.res \in [DOMAIN a.res -> Results]
        /\ a = [pc |-> a.pc, req |-> a.req, new |-> a.new, active |-> a.active, res |-> a.res]
      BY <1>1, StateFields
  <1> HIDE DEF a
  <1>g. g \in a.active  BY DEF _thread_per_group_rpc, a
  <1>s. PICK silent \in SUBSET g :
          agents' = [agents EXCEPT ![t].active = @ \ {g},
                                   ![t].res = [n \in DOMAIN @ |-> IF n \in silent THEN "noresp"
                                                                  ELSE IF n \in g THEN "done" ELSE @[n]]]
      BY DEF _thread_per_group_rpc
  <1> DEFINE res == [n \in DOMAIN a.res |-> IF n \in silent THEN "noresp"
                                            ELSE IF n \in g THEN "done" ELSE a.res[n]]
             b == [pc |-> "run", req |-> a.req, new |-> a.new, active |-> a.active \ {g}, res |-> res]
  <1>3. res \in [DOMAIN a.res -> Results]
      BY <1>2 DEF Results
  <1>4. b \in AgentStates
      BY <1>1, <1>2, <1>3, StateMade DEF Pcs
  <1>5. agents' = [agents EXCEPT ![t] = b]
    <2>1. PICK x, y : x = a.active \ {g} /\ y = res  OBVIOUS
    <2>2. agents' = [agents EXCEPT ![t] = [a EXCEPT !.active = x, !.res = y]]
        BY <1>s, <2>1 DEF a, TypeOK
    <2>3. PICK m : m = [a EXCEPT !.active = x]  OBVIOUS
    <2>4. m = [pc |-> a.pc, req |-> a.req, new |-> a.new, active |-> x, res |-> a.res]
        BY <1>2, <2>3
    <2>5. [m EXCEPT !.res = y] = [pc |-> a.pc, req |-> a.req, new |-> a.new, active |-> x, res |-> y]
        BY <2>4, SMT
    <2>6. [a EXCEPT !.active = x, !.res = y] = [m EXCEPT !.res = y]
        BY <2>3
    <2> QED  BY <1>1, <2>1, <2>2, <2>5, <2>6
  <1>6. Becomes(t, b)
      BY <1>4, <1>5, Updated
  <1> QED  BY <1>1, <1>g, <1>4, <1>6 DEF a

\* What the watchdog does to its agent.
LEMMA WdogEffect ==
  ASSUME TypeOK, NEW t \in Agents, _wdog(t)
  PROVE  /\ agents[t] \in AgentStates /\ agents[t].pc = "run"
         /\ agents[t].new = {} /\ agents[t].active = {}
         /\ \E b \in AgentStates :
              Becomes(t, b) /\ b.pc = "notify" /\ b.req = agents[t].req /\ b.res = agents[t].res
  <1> DEFINE a == agents[t]
  <1>1. a.pc = "run" /\ a \in AgentStates
      BY NotIdle DEF _wdog
  <1>2. /\ a.req \in Requests /\ a.new \in SUBSET SUBSET Nodes /\ a.active \in SUBSET SUBSET Nodes
        /\ DOMAIN a.res \in SUBSET Nodes /\ a.res \in [DOMAIN a.res -> Results]
        /\ a = [pc |-> a.pc, req |-> a.req, new |-> a.new, active |-> a.active, res |-> a.res]
      BY <1>1, StateFields
  <1> HIDE DEF a
  <1>e. a.new = {} /\ a.active = {}  BY DEF _wdog, a
  <1> DEFINE b == [pc |-> "notify", req |-> a.req, new |-> a.new, active |-> a.active, res |-> a.res]
  <1>3. b \in AgentStates
      BY <1>1, <1>2, StateMade, <1>e DEF Pcs, Results
  <1>4. agents' = [agents EXCEPT ![t] = b]
    <2>1. agents' = [agents EXCEPT ![t] = [a EXCEPT !.pc = "notify"]]
        BY DEF _wdog, a, TypeOK
    <2>2. [a EXCEPT !.pc = "notify"] = b
        BY <1>1, <1>2, SMT
    <2> QED  BY <2>1, <2>2
  <1>5. Becomes(t, b)
      BY <1>3, <1>4, Updated
  <1> QED  BY <1>1, <1>3, <1>5, <1>e DEF a

\* What the report to the node table does to its agent.
LEMMA NotifyEffect ==
  ASSUME TypeOK, NEW t \in Agents, _notify_slurmctld_nodes(t)
  PROVE  /\ agents[t] \in AgentStates /\ agents[t].pc = "notify"
         /\ \E b \in AgentStates :
              /\ Becomes(t, b) /\ b.pc = "cleanup" /\ b.req = agents[t].req
              /\ DOMAIN b.res = DOMAIN agents[t].res
  <1> DEFINE a == agents[t]
  <1>1. a.pc = "notify" /\ a \in AgentStates
      BY NotIdle DEF _notify_slurmctld_nodes
  <1>2. /\ a.req \in Requests /\ a.new \in SUBSET SUBSET Nodes /\ a.active \in SUBSET SUBSET Nodes
        /\ DOMAIN a.res \in SUBSET Nodes /\ a.res \in [DOMAIN a.res -> Results]
        /\ a = [pc |-> a.pc, req |-> a.req, new |-> a.new, active |-> a.active, res |-> a.res]
      BY <1>1, StateFields
  <1> HIDE DEF a
  <1> DEFINE res == [n \in DOMAIN a.res |-> "none"]
             b == [pc |-> "cleanup", req |-> a.req, new |-> a.new, active |-> a.active, res |-> res]
  <1>3. res \in [DOMAIN a.res -> Results]
      BY DEF Results
  <1>4. b \in AgentStates
      BY <1>1, <1>2, <1>3, StateMade DEF Pcs
  <1>5. agents' = [agents EXCEPT ![t] = b]
    <2>1. PICK x, y : x = "cleanup" /\ y = res  OBVIOUS
    <2>2. agents' = [agents EXCEPT ![t] = [a EXCEPT !.pc = x, !.res = y]]
        BY <2>1 DEF _notify_slurmctld_nodes, a, TypeOK
    <2>3. PICK m : m = [a EXCEPT !.pc = x]  OBVIOUS
    <2>4. m = [pc |-> x, req |-> a.req, new |-> a.new, active |-> a.active, res |-> a.res]
        BY <1>2, <2>3
    <2>5. [m EXCEPT !.res = y] = [pc |-> x, req |-> a.req, new |-> a.new, active |-> a.active, res |-> y]
        BY <2>4, SMT
    <2>6. [a EXCEPT !.pc = x, !.res = y] = [m EXCEPT !.res = y]
        BY <2>3
    <2> QED  BY <1>1, <2>1, <2>2, <2>5, <2>6
  <1>6. Becomes(t, b)
      BY <1>4, <1>5, Updated
  <1> QED  BY <1>1, <1>4, <1>6 DEF a

\* What the end of agent t does to the agents: those that waited try again.
LEMMA WakeEffect ==
  ASSUME TypeOK, NEW t \in Agents, agents' = wake(t)
  PROVE  /\ agents' \in [Agents -> AgentStates \cup {Idle}] /\ agents'[t] = Idle
         /\ \A u \in Agents \ {t} :
              /\ agents[u].pc # "wait" => agents'[u] = agents[u]
              /\ agents[u].pc = "wait" =>
                   /\ agents[u] \in AgentStates /\ agents'[u] \in AgentStates
                   /\ agents'[u].pc = "start" /\ agents'[u].req = agents[u].req
                   /\ agents'[u].new = agents[u].new /\ agents'[u].active = agents[u].active
                   /\ agents'[u].res = agents[u].res
  <1>1. /\ agents'[t] = Idle /\ DOMAIN agents' = Agents
        /\ agents' = [u \in Agents |-> agents'[u]]
        /\ \A u \in Agents \ {t} :
             agents'[u] = IF agents[u].pc = "wait" THEN [agents[u] EXCEPT !.pc = "start"] ELSE agents[u]
      BY DEF wake
  <1>2. ASSUME NEW u \in Agents \ {t}, agents[u].pc = "wait"
        PROVE  /\ agents[u] \in AgentStates /\ agents'[u] \in AgentStates
               /\ agents'[u].pc = "start" /\ agents'[u].req = agents[u].req
               /\ agents'[u].new = agents[u].new /\ agents'[u].active = agents[u].active
               /\ agents'[u].res = agents[u].res
    <2> DEFINE a == agents[u]
               b == [pc |-> "start", req |-> a.req, new |-> a.new, active |-> a.active, res |-> a.res]
    <2>1. a \in AgentStates
        BY <1>2, NotIdle
    <2>2. /\ a.req \in Requests /\ a.new \in SUBSET SUBSET Nodes /\ a.active \in SUBSET SUBSET Nodes
          /\ DOMAIN a.res \in SUBSET Nodes /\ a.res \in [DOMAIN a.res -> Results]
          /\ a = [pc |-> a.pc, req |-> a.req, new |-> a.new, active |-> a.active, res |-> a.res]
        BY <2>1, StateFields
    <2>3. b \in AgentStates
        BY <2>2, StateMade DEF Pcs
    <2>4. agents'[u] = b
        BY <1>1, <1>2, <2>2
    <2> QED  BY <2>1, <2>3, <2>4, SMT
  <1>3. \A u \in Agents : agents'[u] \in AgentStates \cup {Idle}
      BY <1>1, <1>2, SMT DEF TypeOK
  <1> QED  BY <1>1, <1>2, <1>3

\* A new agent starts where there was none.
LEMMA SpawnEffect ==
  ASSUME TypeOK, NEW r \in Requests, NEW nodes \in SUBSET Nodes, spawn(r, nodes)
  PROVE  \E t \in Agents, b \in AgentStates :
           /\ agents[t].pc = "idle" /\ Becomes(t, b)
           /\ b.pc = "start" /\ b.req = r /\ b.new = {} /\ b.active = {}
           /\ DOMAIN b.res = nodes /\ \A n \in nodes : b.res[n] = "none"
  <1>1. PICK t \in Agents :
          /\ agents[t].pc = "idle"
          /\ agents' = [agents EXCEPT ![t] = [pc |-> "start", req |-> r, new |-> {}, active |-> {},
                                              res |-> [n \in nodes |-> "none"]]]
      BY DEF spawn
  <1> DEFINE b == [pc |-> "start", req |-> r, new |-> {}, active |-> {}, res |-> [n \in nodes |-> "none"]]
  <1>2. [n \in nodes |-> "none"] \in [nodes -> Results]  BY DEF Results
  <1>3. b \in AgentStates
      BY <1>2, StateMade DEF Pcs
  <1>4. Becomes(t, b)
      BY <1>1, <1>3, Updated
  <1> QED  BY <1>1, <1>3, <1>4

-----------------------------------------------------------------------------
(* The queue                                                               *)

\* The queue and its entries.
LEMMA QueueFields ==
  ASSUME TypeOK
  PROVE  /\ Len(retry_list) \in Nat /\ DOMAIN retry_list = 1 .. Len(retry_list)
         /\ \A i \in DOMAIN retry_list :
              /\ retry_list[i] \in Entries /\ retry_list[i].req \in Requests
              /\ retry_list[i].nodes \in SUBSET Nodes /\ retry_list[i].age \in 0..2
              /\ retry_list[i].late \in BOOLEAN
  <1>1. /\ Len(retry_list) \in Nat /\ DOMAIN retry_list = 1 .. Len(retry_list)
        /\ \A i \in DOMAIN retry_list : retry_list[i] \in Entries
      BY SMT DEF TypeOK
  <1> QED  BY <1>1 DEF Entries

\* An entry with another age.
LEMMA EntryAged ==
  ASSUME NEW e \in Entries, NEW f, NEW k \in 1..2, f = [e EXCEPT !.age = k]
  PROVE  f \in Entries /\ f.req = e.req /\ f.nodes = e.nodes /\ f.age = k
  BY SMT DEF Entries

\* A search of the queue keeps entries in place: each entry afterwards stands
\* for one before, with the same request and nodes, and every other entry is
\* there unless it was taken or its launch is pointless.
Renumbered(old, taken) ==
  /\ old \in [DOMAIN retry_list' -> DOMAIN retry_list]
  /\ \A x \in DOMAIN retry_list' :
       /\ old[x] # taken
       /\ retry_list'[x].req = retry_list[old[x]].req
       /\ retry_list'[x].nodes = retry_list[old[x]].nodes
       /\ retry_list'[x].age = 0 => retry_list[old[x]].age = 0
  /\ \A x, y \in DOMAIN retry_list' : old[x] = old[y] => x = y
  /\ \A i \in DOMAIN retry_list \ {taken} :
       \/ \E x \in DOMAIN retry_list' : old[x] = i
       \/ msg_type[retry_list[i].req] = "launch" /\ (job[retry_list[i].req] = "gone" \/ retry_list[i].late)

\* Time passing changes the age of an entry and nothing else that matters.
LEMMA AgedEffect ==
  ASSUME TypeOK, NEW r \in Requests, grow_old(r) \/ resume_timeout(r)
  PROVE  /\ retry_list' \in Seq(Entries) /\ DOMAIN retry_list' = DOMAIN retry_list
         /\ \A i \in DOMAIN retry_list :
              /\ retry_list'[i].req = retry_list[i].req /\ retry_list'[i].nodes = retry_list[i].nodes
              /\ retry_list'[i].age = 0 => retry_list[i].age = 0
         /\ UNCHANGED <<pending_wait_time, pending_mail, retry_thread, agents, counts, cluster, msg_type>>
  \* An entry that becomes late.
  <1>EntryLate. ASSUME NEW e \in Entries, NEW f, f = [e EXCEPT !.late = TRUE]
                PROVE  f \in Entries /\ f.req = e.req /\ f.nodes = e.nodes /\ f.age = e.age
    BY <1>EntryLate DEF Entries
  <1>1. PICK i \in DOMAIN retry_list :
          \/ retry_list[i].age = 1 /\ retry_list' = [retry_list EXCEPT ![i].age = 2]
          \/ retry_list' = [retry_list EXCEPT ![i].late = TRUE]
      BY DEF grow_old, resume_timeout
  <1>2. PICK e \in Entries : e = retry_list[i]
      BY QueueFields
  <1>4. PICK f \in Entries : /\ retry_list' = [retry_list EXCEPT ![i] = f]
                             /\ f.req = e.req /\ f.nodes = e.nodes /\ (f.age = 0 => e.age = 0)
    <2>1. CASE retry_list[i].age = 1 /\ retry_list' = [retry_list EXCEPT ![i].age = 2]
      <3>1. PICK f : f = [e EXCEPT !.age = 2]  OBVIOUS
      <3>2. retry_list' = [retry_list EXCEPT ![i] = f]
          BY <1>2, <2>1, <3>1
      <3>3. f \in Entries /\ f.req = e.req /\ f.nodes = e.nodes /\ f.age = 2
          BY <3>1, EntryAged, SMT
      <3>4. f.age # 0  BY <3>3, SMT
      <3> QED  BY <3>2, <3>3, <3>4
    <2>2. CASE retry_list' = [retry_list EXCEPT ![i].late = TRUE]
      <3>1. PICK f : f = [e EXCEPT !.late = TRUE]  OBVIOUS
      <3>2. retry_list' = [retry_list EXCEPT ![i] = f]
          BY <1>2, <2>2, <3>1
      <3>3. f \in Entries /\ f.req = e.req /\ f.nodes = e.nodes /\ f.age = e.age
          BY <3>1, <1>EntryLate
      <3> QED  BY <3>2, <3>3
    <2> QED  BY <1>1, <2>1, <2>2
  <1>5. UNCHANGED <<pending_wait_time, pending_mail, retry_thread, agents, counts, cluster, msg_type>>
      BY DEF grow_old, resume_timeout
  <1>6. retry_list' \in Seq(Entries) /\ DOMAIN retry_list' = DOMAIN retry_list
      BY <1>4, SMT DEF TypeOK
  <1>7. \A k \in DOMAIN retry_list : retry_list'[k] = IF k = i THEN f ELSE retry_list[k]
      BY <1>4 DEF TypeOK
  <1> QED  BY <1>2, <1>4, <1>5, <1>6, <1>7

\* An entry is appended.
LEMMA AppendEffect ==
  ASSUME TypeOK, NEW e \in Entries, retry_list' = Append(retry_list, e)
  PROVE  /\ retry_list' \in Seq(Entries) /\ DOMAIN retry_list' = 1 .. Len(retry_list) + 1
         /\ retry_list'[Len(retry_list) + 1] = e
         /\ \A i \in DOMAIN retry_list : i \in DOMAIN retry_list' /\ retry_list'[i] = retry_list[i]
         /\ \A i \in DOMAIN retry_list' : i \in DOMAIN retry_list \/ i = Len(retry_list) + 1
         /\ Len(retry_list) + 1 \notin DOMAIN retry_list
  BY SMT DEF TypeOK

\* A search of the queue ends in one of three ways: there is no room for an
\* agent, an entry is taken, or there is none to take.
RetryFull ==
  /\ agent_thread_cnt + AGENT_THREAD_COUNT + 2 > MAX_SERVER_THREADS
  /\ retry_thread' = Waiting /\ UNCHANGED <<retry_list, agents>>
RetryTakes ==
  \E i \in DOMAIN retry_list :
    /\ spawn(retry_list[i].req, retry_list[i].nodes) /\ retry_thread' = Waiting
    /\ \E old : Renumbered(old, i)
RetryFinds ==
  /\ \A i \in DOMAIN retry_list : retry_list[i].age = 0 => msg_type[retry_list[i].req] = "launch"
  /\ \E old : Renumbered(old, 0)
  /\ UNCHANGED agents

\* This is what _agent_retry does.
LEMMA RetryEffect ==
  ASSUME TypeOK, _agent_retry
  PROVE  /\ retry_thread.pc = "retry" /\ retry_thread' \in {Waiting, [Waiting EXCEPT !.pc = "mail"]}
         /\ UNCHANGED <<pending_wait_time, pending_mail, counts, cluster, msg_type>>
         /\ retry_list' \in Seq(Entries)
         /\ RetryFull \/ RetryTakes \/ RetryFinds
  \* A function on 1..n with entries as values is a queue.
  <1>QueueMade. ASSUME NEW n \in Nat, NEW f, DOMAIN f = 1..n, f = [x \in 1..n |-> f[x]],
                       \A x \in 1..n : f[x] \in Entries
                PROVE  f \in Seq(Entries)
    BY <1>QueueMade, SMT
  \* This is what tested() does.
  <1>TestedEffect. ASSUME NEW taken \in Int, NEW stop \in Int, NEW up \in SUBSET Nodes, tested(taken, stop, up)
                   PROVE  retry_list' \in Seq(Entries) /\ \E old : Renumbered(old, taken)
    <2> USE <1>TestedEffect
    <2> DEFINE K == kept(taken, stop, up)
               n == Cardinality(K)
    <2>1. n \in Nat /\ K \subseteq DOMAIN retry_list
      <3>1. IsFiniteSet(1 .. Len(retry_list))
          BY QueueFields, FS_Interval, SMT
      <3>2. K \subseteq 1 .. Len(retry_list) /\ K \subseteq DOMAIN retry_list
          BY QueueFields DEF kept
      <3> QED  BY <3>1, <3>2, FS_Subset, FS_CardinalityType
    <2>2. PICK old \in [1 .. n -> K] :
            /\ \A i \in K : \E x \in DOMAIN old : old[x] = i
            /\ \A x, y \in DOMAIN old : x < y => old[x] < old[y]
            /\ retry_list' = [x \in DOMAIN old |-> IF old[x] < stop THEN deferred(retry_list[old[x]])
                                                   ELSE retry_list[old[x]]]
        BY DEF tested
    <2> HIDE DEF n
    <2>3. /\ DOMAIN retry_list' = 1 .. n /\ retry_list' = [x \in 1 .. n |-> retry_list'[x]]
          /\ \A x \in 1 .. n : retry_list'[x] = IF old[x] < stop THEN deferred(retry_list[old[x]])
                                                ELSE retry_list[old[x]]
        BY <2>2
    <2>4. ASSUME NEW x \in 1 .. n
          PROVE  /\ old[x] \in DOMAIN retry_list /\ old[x] # taken
                 /\ retry_list'[x] \in Entries
                 /\ retry_list'[x].req = retry_list[old[x]].req
                 /\ retry_list'[x].nodes = retry_list[old[x]].nodes
                 /\ retry_list'[x].age = 0 => retry_list[old[x]].age = 0
      <3>1. old[x] \in K /\ old[x] \in DOMAIN retry_list /\ old[x] # taken
          BY <2>1, <2>2 DEF kept
      <3>2. PICK e \in Entries : e = retry_list[old[x]]
          BY <3>1, QueueFields
      <3>3. deferred(e) = e \/ deferred(e) = [e EXCEPT !.age = 1]
          BY DEF deferred
      <3>4. retry_list'[x] = e \/ retry_list'[x] = [e EXCEPT !.age = 1]
          BY <2>3, <3>2, <3>3
      <3>5. PICK f : f = retry_list'[x]  OBVIOUS
      <3>6. f \in Entries /\ f.req = e.req /\ f.nodes = e.nodes /\ (f.age = 0 => e.age = 0)
        <4>1. CASE f = e  BY <4>1
        <4>2. CASE f = [e EXCEPT !.age = 1]  BY <4>2, EntryAged, SMT
        <4> QED  BY <3>4, <3>5, <4>1, <4>2
      <3> QED  BY <3>1, <3>2, <3>5, <3>6
    <2>5. retry_list' \in Seq(Entries)
        BY <2>1, <2>3, <2>4, <1>QueueMade DEF n
    <2>6. \A x, y \in 1 .. n : old[x] = old[y] => x = y
      <3>1. \A x \in 1 .. n : old[x] \in Int
          BY <2>4, QueueFields, SMT
      <3> QED  BY <2>1, <2>2, <3>1, SMT DEF n
    <2>7. ASSUME NEW i \in DOMAIN retry_list \ {taken}
          PROVE  \/ \E x \in 1 .. n : old[x] = i
                 \/ /\ msg_type[retry_list[i].req] = "launch"
                    /\ job[retry_list[i].req] = "gone" \/ retry_list[i].late
      <3>1. CASE i \in K
          BY <2>2, <3>1
      <3>2. CASE i \notin K
        <4>1. _batch_launch_defer(retry_list[i], up) = "abort"
            BY <3>2 DEF kept
        <4> QED  BY <4>1 DEF _batch_launch_defer
      <3> QED  BY <3>1, <3>2
    <2>8. Renumbered(old, taken)
        BY <2>2, <2>3, <2>4, <2>6, <2>7 DEF Renumbered
    <2> QED  BY <2>5, <2>8
  <1> DEFINE stop == Len(retry_list) + 1
  <1>1. /\ retry_thread.pc = "retry"
        /\ UNCHANGED <<pending_wait_time, pending_mail, counts, cluster, msg_type>>
      BY DEF _agent_retry
  <1>2. stop \in Int
      BY QueueFields, SMT
  <1>3. CASE agent_thread_cnt + AGENT_THREAD_COUNT + 2 > MAX_SERVER_THREADS
    <2>1. RetryFull
        BY <1>3 DEF _agent_retry, RetryFull
    <2>2. retry_list' \in Seq(Entries)
        BY <2>1 DEF RetryFull, TypeOK
    <2> QED  BY <1>1, <2>1, <2>2 DEF RetryFull
  <1>4. CASE ~(agent_thread_cnt + AGENT_THREAD_COUNT + 2 > MAX_SERVER_THREADS)
    <2>1. PICK up \in SUBSET Nodes :
            LET due == waited(retry_thread.min_wait, up) IN
            \/ fresh(up) # {} /\ take(Min(fresh(up)), Min(fresh(up)), up)
            \/ fresh(up) = {} /\ due # {} /\ take(Min(due), stop, up)
            \/ /\ fresh(up) = {} /\ due = {}
               /\ tested(0, stop, up)
               /\ retry_thread' = IF retry_thread.mail_too THEN [Waiting EXCEPT !.pc = "mail"] ELSE Waiting
               /\ UNCHANGED agents
        BY <1>4 DEF _agent_retry
    <2>2. /\ fresh(up) \subseteq DOMAIN retry_list
          /\ waited(retry_thread.min_wait, up) \subseteq DOMAIN retry_list
          /\ DOMAIN retry_list \subseteq Nat
        BY QueueFields, SMT DEF fresh, waited
    <2>3. ASSUME NEW i \in DOMAIN retry_list, NEW s \in Int, take(i, s, up)
          PROVE  RetryTakes /\ retry_list' \in Seq(Entries) /\ retry_thread' = Waiting
      <3>1. i \in Int  BY <2>2, SMT
      <3>2. retry_list' \in Seq(Entries) /\ \E old : Renumbered(old, i)
          BY <2>3, <3>1, <1>TestedEffect DEF take
      <3> QED  BY <2>3, <3>2 DEF take, RetryTakes
    <2>4. CASE fresh(up) # {} /\ take(Min(fresh(up)), Min(fresh(up)), up)
      <3>1. Min(fresh(up)) \in fresh(up)
          BY <2>2, <2>4, MinOfNaturals
      <3>2. Min(fresh(up)) \in DOMAIN retry_list /\ Min(fresh(up)) \in Int
          BY <2>2, <3>1, SMT
      <3> QED  BY <1>1, <2>3, <2>4, <3>2
    <2>5. CASE waited(retry_thread.min_wait, up) # {} /\ take(Min(waited(retry_thread.min_wait, up)), stop, up)
      <3>1. Min(waited(retry_thread.min_wait, up)) \in waited(retry_thread.min_wait, up)
          BY <2>2, <2>5, MinOfNaturals
      <3>2. Min(waited(retry_thread.min_wait, up)) \in DOMAIN retry_list
          BY <2>2, <3>1
      <3> QED  BY <1>1, <1>2, <2>3, <2>5, <3>2
    <2>6. CASE /\ fresh(up) = {} /\ tested(0, stop, up)
               /\ retry_thread' = IF retry_thread.mail_too THEN [Waiting EXCEPT !.pc = "mail"] ELSE Waiting
               /\ UNCHANGED agents
      <3>1. retry_list' \in Seq(Entries) /\ \E old : Renumbered(old, 0)
        <4>1. ASSUME NEW s \in Int, tested(0, s, up)
              PROVE  retry_list' \in Seq(Entries) /\ \E old : Renumbered(old, 0)
          <5>1. 0 \in Int  BY SMT
          <5> QED  BY <4>1, <5>1, <1>TestedEffect
        <4> QED  BY <1>2, <2>6, <4>1
      <3>2. \A i \in DOMAIN retry_list : retry_list[i].age = 0 => msg_type[retry_list[i].req] = "launch"
          BY <2>6 DEF fresh, _batch_launch_defer
      <3> QED  BY <1>1, <2>6, <3>1, <3>2 DEF RetryFinds
    <2> QED  BY <2>1, <2>4, <2>5, <2>6
  <1> QED  BY <1>3, <1>4

\* The watchdog leaves the queue alone, or appends the rest of its request.
LEMMA WdogQueue ==
  ASSUME TypeOK, NEW t \in Agents, _wdog(t)
  PROVE  \/ retry_list' = retry_list
         \/ \E e \in Entries :
              /\ retry_list' = Append(retry_list, e)
              /\ e.req = agents[t].req /\ msg_type[agents[t].req] = "signal"
              /\ e.nodes \subseteq noresp(agents[t]) /\ e.age = 1
  <1>1. agents[t].req \in Requests /\ noresp(agents[t]) \subseteq Nodes
      BY WdogEffect, StateFields DEF noresp
  <1>2. PICK down \in SUBSET noresp(agents[t]) :
          retry_list' = IF _queue_agent_retry(agents[t], down) = {} THEN retry_list
                        ELSE Append(retry_list, [req |-> agents[t].req,
                                                 nodes |-> _queue_agent_retry(agents[t], down),
                                                 age |-> 1, late |-> FALSE])
      BY DEF _wdog
  <1>3. CASE _queue_agent_retry(agents[t], down) = {}
      BY <1>2, <1>3
  <1>4. CASE _queue_agent_retry(agents[t], down) # {}
    <2>1. PICK again : again = noresp(agents[t]) \ down  OBVIOUS
    <2>2. _queue_agent_retry(agents[t], down) = again /\ msg_type[agents[t].req] = "signal"
        BY <1>4, <2>1 DEF _queue_agent_retry
    <2>3. PICK e : e = [req |-> agents[t].req, nodes |-> again, age |-> 1, late |-> FALSE]
        OBVIOUS
    <2>4. e \in Entries /\ e.req = agents[t].req /\ e.nodes = again /\ e.age = 1
        BY <1>1, <2>1, <2>3, SMT DEF Entries
    <2>5. retry_list' = Append(retry_list, e)
        BY <1>2, <1>4, <2>2, <2>3
    <2> QED  BY <2>1, <2>2, <2>4, <2>5
  <1> QED  BY <1>3, <1>4

\* A new request is queued, or an agent for it starts at once.
LEMMA RequestEffect ==
  ASSUME TypeOK, NEW r \in Requests, NEW type \in Types, agent_queue_request(r, type)
  PROVE  /\ msg_type[r] = "none" /\ msg_type' = [msg_type EXCEPT ![r] = type]
         /\ UNCHANGED <<counts, retry_thread, shutdown_time>> /\ ~shutdown_time
         /\ ping_count' = IF type = "ping" THEN ping_count + 1 ELSE ping_count
         /\ \/ /\ type = "shutdown" /\ spawn(r, NodeList[type]) /\ NodeList[type] \in SUBSET Nodes
               /\ UNCHANGED <<retry_list, pending_wait_time, pending_mail>>
            \/ /\ type # "shutdown" /\ UNCHANGED agents
               /\ pending_wait_time' \in {RPC_RETRY_INTERVAL, QUEUE_INTERVAL}
               /\ pending_mail' = pending_mail
               /\ \E e \in Entries : retry_list' = Append(retry_list, e) /\ e.req = r /\ e.nodes = NodeList[type]
  <1>1. /\ msg_type[r] = "none" /\ msg_type' = [msg_type EXCEPT ![r] = type]
        /\ UNCHANGED <<counts, retry_thread, shutdown_time>> /\ ~shutdown_time
        /\ ping_count' = IF type = "ping" THEN ping_count + 1 ELSE ping_count
        /\ NodeList[type] \in SUBSET Nodes
      BY AgentAssumption DEF agent_queue_request, AgentAssumption
  <1>2. CASE type = "shutdown"
      BY <1>1, <1>2 DEF agent_queue_request
  <1>3. CASE type # "shutdown"
    <2>1. PICK e : e = [req |-> r, nodes |-> NodeList[type], age |-> 0, late |-> FALSE]
        OBVIOUS
    <2>2. e \in Entries /\ e.req = r /\ e.nodes = NodeList[type]
        BY <1>1, <2>1, SMT DEF Entries
    <2>3. /\ retry_list' = Append(retry_list, e) /\ UNCHANGED agents
          /\ agent_trigger(QUEUE_INTERVAL, FALSE)
        BY <1>3, <2>1 DEF agent_queue_request
    <2>4. pending_wait_time \in {RPC_RETRY_INTERVAL, QUEUE_INTERVAL, NO_VAL16} /\ pending_mail \in BOOLEAN
        BY DEF TypeOK
    <2>5. pending_wait_time' \in {RPC_RETRY_INTERVAL, QUEUE_INTERVAL}
        BY <2>3, <2>4, MinPair, SMT DEF agent_trigger, RPC_RETRY_INTERVAL, QUEUE_INTERVAL, NO_VAL16
    <2>6. pending_mail' = pending_mail
        BY <2>3, <2>4 DEF agent_trigger
    <2> QED  BY <1>1, <1>3, <2>2, <2>3, <2>5, <2>6
  <1> QED  BY <1>2, <1>3

-----------------------------------------------------------------------------
(* Types                                                                   *)

\* The steps one by one.
LEMMA StepCases ==
  ASSUME Next
  PROVE  \/ \E r \in Requests, type \in Types : agent_queue_request(r, type)
         \/ \E r \in Requests : \/ prolog_complete(r) \/ job_complete(r)
                               \/ grow_old(r) \/ resume_timeout(r)
         \/ mail_job_info \/ background \/ agent_init \/ _agent_retry \/ send_mail \/ _mail_proc
         \/ \E t \in Agents : \/ agent_begin(t) \/ _wdog(t) \/ _notify_slurmctld_nodes(t)
                             \/ agent_cleanup(t)
         \/ \E t \in Agents, g \in SUBSET Nodes : start_thread(t, g) \/ _thread_per_group_rpc(t, g)
         \/ shutdown \/ agent_purge
  BY DEF Next, retry_step, agent_step

\* Types of the threads and processes that are counted.
CountType ==
  /\ agent_cnt \in Nat /\ agent_thread_cnt \in Nat
  /\ mail_list \in Nat /\ mail_procs \in Nat /\ mail_list + mail_procs =< MaxMails

\* Types of what triggers the queue.
TriggerType ==
  /\ pending_wait_time \in {RPC_RETRY_INTERVAL, QUEUE_INTERVAL, NO_VAL16} /\ pending_mail \in BOOLEAN
  /\ retry_thread \in [pc : {"wait", "retry", "mail", "ended"},
                       min_wait : {RPC_RETRY_INTERVAL, QUEUE_INTERVAL, NO_VAL16}, mail_too : BOOLEAN]

\* Types of the requests and their jobs.
RequestType ==
  /\ ping_count \in Nat
  /\ job \in [Requests -> {"none", "prolog", "run", "gone"}]
  /\ shutdown_time \in BOOLEAN /\ mail_ended \in BOOLEAN
  /\ msg_type \in [Requests -> Types \cup {"none"}]

\* TypeOK in parts.
LEMMA TypeParts ==
  TypeOK <=> /\ retry_list \in Seq(Entries) /\ agents \in [Agents -> AgentStates \cup {Idle}]
             /\ CountType /\ TriggerType /\ RequestType
  BY DEF TypeOK, CountType, TriggerType, RequestType

\* An agent takes at least two threads, and no more than the limit for one.
LEMMA ThreadCount ==
  ASSUME NEW a \in AgentStates
  PROVE  /\ rpc_thread_cnt(a) \in Nat /\ rpc_thread_cnt(a) >= 2
         /\ rpc_thread_cnt(a) =< AGENT_THREAD_COUNT + 2
  <1>1. Cardinality(DOMAIN a.res) \in Nat
      BY StateFields, AgentAssumption, FS_Subset, FS_CardinalityType DEF AgentAssumption
  <1>2. AGENT_THREAD_COUNT \in Nat  BY AgentAssumption DEF AgentAssumption
  <1> QED  BY <1>1, <1>2, MinPair, SMT DEF rpc_thread_cnt

\* agent_trigger leaves a request for the queue to be searched.
LEMMA TriggerEffect ==
  ASSUME TypeOK, agent_trigger(RPC_RETRY_INTERVAL, TRUE)
  PROVE  pending_wait_time' = RPC_RETRY_INTERVAL /\ pending_mail' = TRUE
  <1>1. pending_wait_time \in {RPC_RETRY_INTERVAL, QUEUE_INTERVAL, NO_VAL16}
      BY DEF TypeOK
  <1>2. pending_wait_time' = RPC_RETRY_INTERVAL
      BY <1>1, MinPair, SMT DEF agent_trigger, RPC_RETRY_INTERVAL, QUEUE_INTERVAL, NO_VAL16
  <1>3. pending_mail' = TRUE
      BY DEF agent_trigger, TypeOK
  <1> QED  BY <1>2, <1>3

\* How many mail processes send_mail starts.
LEMMA MailEffect ==
  ASSUME TypeOK, send_mail
  PROVE  \E n \in Nat :
           /\ n =< mail_list /\ (n > 0 => n =< MAX_SERVER_THREADS - agent_thread_cnt)
           /\ mail_list' = mail_list - n /\ mail_procs' = mail_procs + n
           /\ agent_thread_cnt' = agent_thread_cnt + n
           /\ retry_thread.pc = "mail" /\ retry_thread' = Waiting
           /\ UNCHANGED <<retry_list, pending_wait_time, pending_mail, agents, agent_cnt, mail_ended,
                          cluster, msg_type>>
  <1> DEFINE m == MAX_SERVER_THREADS - agent_thread_cnt
             n == Max({0, Min({mail_list, m})})
  <1>1. mail_list \in Nat /\ m \in Int
      BY AgentAssumption, SMT DEF TypeOK, AgentAssumption
  <1>2. Min({mail_list, m}) = IF mail_list =< m THEN mail_list ELSE m
      BY <1>1, MinPair, SMT
  <1>3. n = IF 0 =< Min({mail_list, m}) THEN Min({mail_list, m}) ELSE 0
      BY <1>1, <1>2, MaxPair, SMT
  <1>4. n \in Nat /\ n =< mail_list /\ (n > 0 => n =< m)
      BY <1>1, <1>2, <1>3, SMT
  <1>5. /\ mail_list' = mail_list - n /\ mail_procs' = mail_procs + n
        /\ agent_thread_cnt' = agent_thread_cnt + n
        /\ retry_thread.pc = "mail" /\ retry_thread' = Waiting
        /\ UNCHANGED <<retry_list, pending_wait_time, pending_mail, agents, agent_cnt, mail_ended,
                       cluster, msg_type>>
      BY DEF send_mail
  <1> HIDE DEF n
  <1> QED  BY <1>4, <1>5

\* The thread of agent_init when it waits for a trigger.
LEMMA WaitingType ==
  /\ Waiting \in [pc : {"wait", "retry", "mail", "ended"},
                  min_wait : {RPC_RETRY_INTERVAL, QUEUE_INTERVAL, NO_VAL16}, mail_too : BOOLEAN]
  /\ [Waiting EXCEPT !.pc = "mail"] \in
       [pc : {"wait", "retry", "mail", "ended"},
        min_wait : {RPC_RETRY_INTERVAL, QUEUE_INTERVAL, NO_VAL16}, mail_too : BOOLEAN]
  BY DEF Waiting

\* Every step keeps the types.
LEMMA TypeStep ==
  ASSUME TypeOK, Next
  PROVE  TypeOK'
  <1> USE AgentAssumption DEF AgentAssumption, queue, counts, cluster
  <1>p. /\ retry_list \in Seq(Entries) /\ agents \in [Agents -> AgentStates \cup {Idle}]
        /\ CountType /\ TriggerType /\ RequestType
      BY TypeParts
  <1>q. SUFFICES /\ retry_list' \in Seq(Entries) /\ agents' \in [Agents -> AgentStates \cup {Idle}]
                 /\ CountType' /\ TriggerType' /\ RequestType'
      BY DEF TypeOK, CountType, TriggerType, RequestType
  <1>1. ASSUME NEW r \in Requests, NEW type \in Types, agent_queue_request(r, type)
        PROVE  /\ retry_list' \in Seq(Entries) /\ agents' \in [Agents -> AgentStates \cup {Idle}]
               /\ CountType' /\ TriggerType' /\ RequestType'
    <2>1. CountType' /\ TriggerType'
        BY <1>p, <1>1, RequestEffect, SMT DEF CountType, TriggerType
    <2>2. retry_list' \in Seq(Entries) /\ agents' \in [Agents -> AgentStates \cup {Idle}]
        BY <1>p, <1>1, RequestEffect, SpawnEffect, AppendEffect, SMT DEF Becomes
    <2>3. RequestType'
        BY <1>p, <1>1, SMT DEF agent_queue_request, RequestType
    <2> QED  BY <2>1, <2>2, <2>3
  <1>2. ASSUME NEW r \in Requests, prolog_complete(r) \/ job_complete(r)
        PROVE  /\ retry_list' \in Seq(Entries) /\ agents' \in [Agents -> AgentStates \cup {Idle}]
               /\ CountType' /\ TriggerType' /\ RequestType'
      BY <1>p, <1>2 DEF prolog_complete, job_complete, CountType, TriggerType, RequestType
  <1>3. ASSUME NEW r \in Requests, grow_old(r) \/ resume_timeout(r)
        PROVE  /\ retry_list' \in Seq(Entries) /\ agents' \in [Agents -> AgentStates \cup {Idle}]
               /\ CountType' /\ TriggerType' /\ RequestType'
      BY <1>p, <1>3, AgedEffect DEF CountType, TriggerType, RequestType
  <1>4. CASE mail_job_info \/ shutdown \/ agent_purge
    <2>1. CountType' /\ TriggerType'
        BY <1>p, <1>4, SMT DEF mail_job_info, shutdown, agent_purge, CountType, TriggerType
    <2>2. RequestType'
        BY <1>p, <1>4 DEF mail_job_info, shutdown, agent_purge, RequestType
    <2>3. retry_list' \in Seq(Entries) /\ agents' = agents
      <3>1. retry_list' = retry_list \/ retry_list' = <<>>
          BY <1>4 DEF mail_job_info, shutdown, agent_purge
      <3>2. <<>> \in Seq(Entries)  BY SMT
      <3> QED  BY <1>p, <1>4, <3>1, <3>2 DEF mail_job_info, shutdown, agent_purge
    <2> QED  BY <1>p, <2>1, <2>2, <2>3
  <1>5. CASE background
      BY <1>p, <1>5, TriggerEffect DEF background, CountType, TriggerType, RequestType
  <1>6. CASE agent_init
    <2>1. TriggerType'
      <3>1. CASE shutdown_time /\ retry_thread' = [retry_thread EXCEPT !.pc = "ended"]
                   /\ UNCHANGED <<pending_wait_time, pending_mail>>
          BY <1>p, <3>1 DEF TriggerType
      <3>2. CASE /\ retry_thread' = [pc |-> "retry", min_wait |-> pending_wait_time, mail_too |-> pending_mail]
                 /\ pending_wait_time' = NO_VAL16 /\ pending_mail' = FALSE
          BY <1>p, <3>2 DEF TriggerType
      <3> QED  BY <1>6, <3>1, <3>2 DEF agent_init
    <2> QED  BY <1>p, <1>6, <2>1 DEF agent_init, CountType, RequestType
  <1>7. CASE _agent_retry
    <2>1. agents' \in [Agents -> AgentStates \cup {Idle}]
        BY <1>p, <1>7, RetryEffect, QueueFields, SpawnEffect DEF RetryFull, RetryTakes,
           RetryFinds, Becomes
    <2> QED  BY <1>p, <1>7, <2>1, RetryEffect, WaitingType DEF CountType, TriggerType, RequestType
  <1>8. CASE send_mail
    <2>1. CountType'
        BY <1>p, <1>8, MailEffect, SMT DEF CountType
    <2>2. TriggerType'
        BY <1>p, <1>8, MailEffect, WaitingType DEF TriggerType
    <2> QED  BY <1>p, <1>8, <2>1, <2>2, MailEffect DEF RequestType
  <1>9. CASE _mail_proc
    <2>1. agent_thread_cnt' \in Nat
        BY <1>p, <1>9, MaxPair, SMT DEF _mail_proc, CountType
    <2> QED  BY <1>p, <1>9, <2>1, SMT DEF _mail_proc, CountType, TriggerType, RequestType
  <1>10. ASSUME NEW t \in Agents, agent_begin(t)
         PROVE  /\ retry_list' \in Seq(Entries) /\ agents' \in [Agents -> AgentStates \cup {Idle}]
                /\ CountType' /\ TriggerType' /\ RequestType'
    <2>1. agents' \in [Agents -> AgentStates \cup {Idle}] /\ rpc_thread_cnt(agents[t]) \in Nat
        BY <1>10, BeginEffect, ThreadCount DEF Becomes
    <2>2. CountType'
        BY <1>p, <1>10, <2>1, SMTT(20) DEF agent_begin, CountType
    <2> QED  BY <1>p, <1>10, <2>1, <2>2 DEF agent_begin, TriggerType, RequestType
  <1>11. ASSUME NEW t \in Agents, _wdog(t)
         PROVE  /\ retry_list' \in Seq(Entries) /\ agents' \in [Agents -> AgentStates \cup {Idle}]
                /\ CountType' /\ TriggerType' /\ RequestType'
    <2>1. agents' \in [Agents -> AgentStates \cup {Idle}]
        BY <1>11, WdogEffect DEF Becomes
    <2>2. retry_list' \in Seq(Entries)
        BY <1>p, <1>11, WdogQueue, AppendEffect
    <2>3. RequestType'
      <3>1. agents[t].req \in Requests
          BY <1>11, WdogEffect, StateFields
      <3> QED  BY <1>p, <1>11, <3>1 DEF _wdog, RequestType
    <2> QED  BY <1>p, <1>11, <2>1, <2>2, <2>3 DEF _wdog, CountType, TriggerType
  <1>12. ASSUME NEW t \in Agents, _notify_slurmctld_nodes(t)
         PROVE  /\ retry_list' \in Seq(Entries) /\ agents' \in [Agents -> AgentStates \cup {Idle}]
                /\ CountType' /\ TriggerType' /\ RequestType'
    <2>1. agents' \in [Agents -> AgentStates \cup {Idle}]
        BY <1>12, NotifyEffect DEF Becomes
    <2>2. ping_count' \in Nat
      <3>1. ping_count \in Nat /\ Max({0, ping_count - 1}) \in Nat
          BY <1>p, MaxPair, SMT DEF RequestType
      <3> QED  BY <1>12, <3>1 DEF _notify_slurmctld_nodes
    <2> QED  BY <1>p, <1>12, <2>1, <2>2 DEF _notify_slurmctld_nodes, CountType, TriggerType, RequestType
  <1>13. ASSUME NEW t \in Agents, agent_cleanup(t)
         PROVE  /\ retry_list' \in Seq(Entries) /\ agents' \in [Agents -> AgentStates \cup {Idle}]
                /\ CountType' /\ TriggerType' /\ RequestType'
    <2>1. agents' \in [Agents -> AgentStates \cup {Idle}]
        BY <1>13, WakeEffect DEF agent_cleanup
    <2>2. rpc_thread_cnt(agents[t]) \in Nat
        BY <1>13, NotIdle, ThreadCount DEF agent_cleanup
    <2>3. CountType'
        BY <1>p, <1>13, <2>2, MaxPair, SMT DEF agent_cleanup, CountType
    <2>4. TriggerType'
        BY <1>p, <1>13, TriggerEffect DEF agent_cleanup, TriggerType
    <2> QED  BY <1>p, <1>13, <2>1, <2>3, <2>4 DEF agent_cleanup, RequestType
  <1>14. ASSUME NEW t \in Agents, NEW g \in SUBSET Nodes, start_thread(t, g)
         PROVE  /\ retry_list' \in Seq(Entries) /\ agents' \in [Agents -> AgentStates \cup {Idle}]
                /\ CountType' /\ TriggerType' /\ RequestType'
    <2>1. agents' \in [Agents -> AgentStates \cup {Idle}]
        BY <1>14, StartEffect DEF Becomes
    <2> QED  BY <1>p, <1>14, <2>1 DEF start_thread, CountType, TriggerType, RequestType
  <1>15. ASSUME NEW t \in Agents, NEW g \in SUBSET Nodes, _thread_per_group_rpc(t, g)
         PROVE  /\ retry_list' \in Seq(Entries) /\ agents' \in [Agents -> AgentStates \cup {Idle}]
                /\ CountType' /\ TriggerType' /\ RequestType'
    <2>1. agents' \in [Agents -> AgentStates \cup {Idle}]
        BY <1>15, ThreadEffect DEF Becomes
    <2>2. agents[t].req \in Requests
        BY <1>15, ThreadEffect, StateFields
    <2>3. RequestType'
        BY <1>p, <1>15, <2>2 DEF _thread_per_group_rpc, RequestType
    <2> QED  BY <1>p, <1>15, <2>1, <2>3 DEF _thread_per_group_rpc, CountType, TriggerType
  <1> QED  BY StepCases, <1>1, <1>2, <1>3, <1>4, <1>5, <1>6, <1>7, <1>8, <1>9, <1>10, <1>11, <1>12,
              <1>13, <1>14, <1>15

-----------------------------------------------------------------------------
(* Where a request is                                                      *)

\* Every step leaves a request in one place.
LEMMA HolderStep ==
  ASSUME TypeOK, OneHolder, Next
  PROVE  OneHolder'
  \* Steps that hand no request over: entries may leave the queue and agents may
  \* let go of their requests.
  <1>HolderKept. ASSUME UNCHANGED msg_type, NEW old,
                        \A x \in DOMAIN retry_list' :
                          old[x] \in DOMAIN retry_list /\ retry_list'[x].req = retry_list[old[x]].req,
                        \A x, y \in DOMAIN retry_list' : old[x] = old[y] => x = y,
                        \A t \in Agents :
                          /\ Holding(t)' => Holding(t)
                          /\ agents'[t].pc # "idle" => agents[t].pc # "idle" /\ agents'[t].req = agents[t].req
                 PROVE  OneHolder'
    <2> USE <1>HolderKept
    <2>1. \A t \in Agents : Holding(t)' => Holding(t) /\ agents'[t].req = agents[t].req
        BY DEF Holding
    <2>2. \A i \in DOMAIN retry_list' : msg_type'[retry_list'[i].req] # "none"
        BY SMT DEF OneHolder
    <2>3. \A t \in Agents : agents'[t].pc # "idle" => msg_type'[agents'[t].req] # "none"
        BY DEF OneHolder
    <2>4. \A i, k \in DOMAIN retry_list' : retry_list'[i].req = retry_list'[k].req => i = k
        BY SMT DEF OneHolder
    <2>5. \A t, u \in Agents : Holding(t)' /\ Holding(u)' /\ agents'[t].req = agents'[u].req => t = u
        BY <2>1 DEF OneHolder
    <2>6. \A i \in DOMAIN retry_list', t \in Agents : Holding(t)' => agents'[t].req # retry_list'[i].req
        BY <2>1, SMT DEF OneHolder
    <2> QED  BY <2>2, <2>3, <2>4, <2>5, <2>6 DEF OneHolder
  \* The same when the queue keeps its requests in place.
  <1>HolderSame. ASSUME UNCHANGED msg_type, DOMAIN retry_list' = DOMAIN retry_list,
                        \A x \in DOMAIN retry_list : retry_list'[x].req = retry_list[x].req,
                        \A t \in Agents :
                          /\ Holding(t)' => Holding(t)
                          /\ agents'[t].pc # "idle" => agents[t].pc # "idle" /\ agents'[t].req = agents[t].req
                 PROVE  OneHolder'
    <2> USE <1>HolderSame
    <2>1. PICK old : old = [x \in DOMAIN retry_list |-> x]  OBVIOUS
    <2>2. \A x \in DOMAIN retry_list : old[x] = x  BY <2>1
    <2>3. /\ \A x \in DOMAIN retry_list' :
               old[x] \in DOMAIN retry_list /\ retry_list'[x].req = retry_list[old[x]].req
          /\ \A x, y \in DOMAIN retry_list' : old[x] = old[y] => x = y
        BY <2>2
    <2> QED  BY <2>3, <1>HolderKept
  \* One agent goes on with the same request.
  <1>HolderBecomes. ASSUME UNCHANGED <<msg_type, retry_list>>, NEW t \in Agents, NEW b \in AgentStates,
                           agents[t] \in AgentStates, Becomes(t, b), b.req = agents[t].req,
                           \/ b.pc = "cleanup"
                           \/ agents[t].pc \in {"start", "run"}
                    PROVE  OneHolder'
    <2> USE <1>HolderBecomes
    <2>1. agents[t].pc # "idle"
        BY StateFields DEF Pcs
    <2>2. b.pc \in {"start", "wait", "run", "notify", "cleanup"}
        BY StateFields DEF Pcs
    <2>3. ASSUME NEW u \in Agents
          PROVE  /\ Holding(u)' => Holding(u)
                 /\ agents'[u].pc # "idle" => agents[u].pc # "idle" /\ agents'[u].req = agents[u].req
      <3>1. CASE u = t
          BY <2>1, <2>2, <3>1 DEF Becomes, Holding
      <3>2. CASE u # t
          BY <3>2 DEF Becomes, Holding
      <3> QED  BY <3>1, <3>2
    <2> QED  BY <2>3, <1>HolderSame
  \* A request that nobody has is put into the queue, or given to a new agent.
  <1>HolderRequest. ASSUME NEW r \in Requests, NEW type \in Types, agent_queue_request(r, type)
                    PROVE  OneHolder'
    <2> USE <1>HolderRequest
    <2>1. /\ msg_type[r] = "none" /\ type # "none" /\ msg_type'[r] = type
          /\ \A q \in Requests \ {r} : msg_type'[q] = msg_type[q]
        BY RequestEffect, SMT DEF Types, TypeOK
    <2>2. \A i \in DOMAIN retry_list :
            /\ retry_list[i].req \in Requests /\ retry_list[i].req # r
            /\ msg_type'[retry_list[i].req] = msg_type[retry_list[i].req]
        BY <2>1, QueueFields DEF OneHolder
    <2>3. ASSUME NEW t \in Agents, agents[t].pc # "idle"
          PROVE  agents[t].req # r /\ msg_type'[agents[t].req] = msg_type[agents[t].req]
      <3>1. agents[t].req \in Requests
          BY <2>3, NotIdle, StateFields
      <3> QED  BY <2>1, <2>3, <3>1 DEF OneHolder
    <2>4. CASE UNCHANGED agents /\ \E e \in Entries : retry_list' = Append(retry_list, e) /\ e.req = r
      <3>1. PICK e \in Entries : retry_list' = Append(retry_list, e) /\ e.req = r  BY <2>4
      <3>2. PICK last : last = Len(retry_list) + 1  OBVIOUS
      <3>3. /\ retry_list'[last].req = r
            /\ \A i \in DOMAIN retry_list' : i = last \/ (i \in DOMAIN retry_list /\ retry_list'[i] = retry_list[i])
          BY <3>1, <3>2, AppendEffect
      <3>4. \A t \in Agents : Holding(t)' => agents[t].pc # "idle" /\ Holding(t)
          BY <2>3, <2>4 DEF Holding
      <3>5. \A i \in DOMAIN retry_list' : msg_type'[retry_list'[i].req] # "none"
          BY <2>1, <2>2, <3>3, SMT DEF OneHolder
      <3>6. \A t \in Agents : agents'[t].pc # "idle" => msg_type'[agents'[t].req] # "none"
          BY <2>3, <2>4 DEF OneHolder
      <3>7. \A i, k \in DOMAIN retry_list' : retry_list'[i].req = retry_list'[k].req => i = k
          BY <2>2, <3>3, SMT DEF OneHolder
      <3>8. \A t, u \in Agents : Holding(t)' /\ Holding(u)' /\ agents'[t].req = agents'[u].req => t = u
          BY <2>4, <3>4 DEF OneHolder
      <3>9. \A i \in DOMAIN retry_list', t \in Agents : Holding(t)' => agents'[t].req # retry_list'[i].req
          BY <2>3, <2>4, <3>3, <3>4, SMT DEF OneHolder
      <3> QED  BY <3>5, <3>6, <3>7, <3>8, <3>9 DEF OneHolder
    <2>5. CASE UNCHANGED retry_list /\ type = "shutdown" /\ spawn(r, NodeList[type]) /\ NodeList[type] \in SUBSET Nodes
      <3>1. PICK t \in Agents, b \in AgentStates : agents[t].pc = "idle" /\ Becomes(t, b) /\ b.pc = "start" /\ b.req = r
          BY <2>5, SpawnEffect, SMT
      <3>2. \A u \in Agents : u # t /\ Holding(u)' => agents'[u] = agents[u] /\ agents[u].pc # "idle" /\ Holding(u)
          BY <2>3, <3>1 DEF Holding, Becomes
      <3>3. agents'[t].req = r /\ \A u \in Agents \ {t} : agents'[u] = agents[u]
          BY <3>1 DEF Becomes
      <3>5. \A i \in DOMAIN retry_list' : msg_type'[retry_list'[i].req] # "none"
          BY <2>2, <2>5 DEF OneHolder
      <3>6. \A u \in Agents : agents'[u].pc # "idle" => msg_type'[agents'[u].req] # "none"
          BY <2>1, <2>3, <3>3, SMT DEF OneHolder
      <3>7. \A i, k \in DOMAIN retry_list' : retry_list'[i].req = retry_list'[k].req => i = k
          BY <2>5 DEF OneHolder
      <3>8. \A v, u \in Agents : Holding(v)' /\ Holding(u)' /\ agents'[v].req = agents'[u].req => v = u
          BY <2>3, <3>2, <3>3, SMT DEF OneHolder
      <3>9. \A i \in DOMAIN retry_list', u \in Agents : Holding(u)' => agents'[u].req # retry_list'[i].req
          BY <2>2, <2>5, <3>2, <3>3, SMT DEF OneHolder
      <3> QED  BY <3>5, <3>6, <3>7, <3>8, <3>9 DEF OneHolder
    <2> QED  BY <2>4, <2>5, RequestEffect
  \* An entry of the queue is handed to a new agent, or stays where it is.
  <1>HolderRetry. ASSUME _agent_retry
                  PROVE  OneHolder'
    <2> USE <1>HolderRetry
    <2>1. UNCHANGED msg_type /\ (RetryFull \/ RetryTakes \/ RetryFinds)
        BY RetryEffect
    <2>2. CASE RetryFull
        BY <2>1, <2>2, <1>HolderSame DEF RetryFull, Holding
    <2>3. CASE RetryFinds
      <3>1. PICK old : Renumbered(old, 0)
          BY <2>3 DEF RetryFinds
      <3>2. \A t \in Agents : /\ Holding(t)' => Holding(t)
                              /\ agents'[t].pc # "idle" => agents[t].pc # "idle" /\ agents'[t].req = agents[t].req
          BY <2>1, <2>3 DEF RetryFinds, Holding
      <3>3. /\ \A x \in DOMAIN retry_list' :
                 old[x] \in DOMAIN retry_list /\ retry_list'[x].req = retry_list[old[x]].req
            /\ \A x, y \in DOMAIN retry_list' : old[x] = old[y] => x = y
          BY <3>1 DEF Renumbered
      <3> QED  BY <2>1, <3>2, <3>3, <1>HolderKept
    <2>4. CASE RetryTakes
      <3>1. PICK i \in DOMAIN retry_list :
              spawn(retry_list[i].req, retry_list[i].nodes) /\ \E old : Renumbered(old, i)
          BY <2>4 DEF RetryTakes
      <3>2. PICK old : Renumbered(old, i)  BY <3>1
      <3>3. PICK r \in Requests : r = retry_list[i].req  BY QueueFields
      <3>4. PICK t \in Agents, b \in AgentStates : agents[t].pc = "idle" /\ Becomes(t, b) /\ b.pc = "start" /\ b.req = r
          BY <3>1, <3>3, QueueFields, SpawnEffect, SMT
      <3>5. \A u \in Agents : u # t /\ Holding(u)' => Holding(u)
          BY <2>1, <3>4 DEF Holding, Becomes
      <3>6. agents'[t].req = r /\ \A u \in Agents \ {t} : agents'[u] = agents[u]
          BY <3>4 DEF Becomes
      <3>7. /\ \A x \in DOMAIN retry_list' :
                 old[x] \in DOMAIN retry_list /\ old[x] # i /\ retry_list'[x].req = retry_list[old[x]].req
            /\ \A x, y \in DOMAIN retry_list' : old[x] = old[y] => x = y
          BY <3>2 DEF Renumbered
      <3>8. msg_type[r] # "none" /\ \A x \in DOMAIN retry_list' : retry_list'[x].req # r
          BY <3>3, <3>7 DEF OneHolder
      <3>9. \A x \in DOMAIN retry_list' : msg_type'[retry_list'[x].req] # "none"
          BY <2>1, <3>7, SMT DEF OneHolder
      <3>10. \A u \in Agents : agents'[u].pc # "idle" => msg_type'[agents'[u].req] # "none"
          BY <2>1, <3>6, <3>8 DEF OneHolder
      <3>11. \A x, y \in DOMAIN retry_list' : retry_list'[x].req = retry_list'[y].req => x = y
          BY <3>7, SMT DEF OneHolder
      <3>12. \A v, u \in Agents : Holding(v)' /\ Holding(u)' /\ agents'[v].req = agents'[u].req => v = u
          BY <3>3, <3>5, <3>6, SMT DEF OneHolder
      <3>13. \A x \in DOMAIN retry_list', u \in Agents : Holding(u)' => agents'[u].req # retry_list'[x].req
          BY <3>5, <3>6, <3>7, <3>8, SMT DEF OneHolder
      <3> QED  BY <3>9, <3>10, <3>11, <3>12, <3>13 DEF OneHolder
    <2> QED  BY <2>1, <2>2, <2>3, <2>4
  \* The watchdog sends the rest of its request back to the queue, and lets it go.
  <1>HolderWdog. ASSUME NEW t \in Agents, _wdog(t)
                 PROVE  OneHolder'
    <2> USE <1>HolderWdog
    <2>1. UNCHANGED msg_type
        BY DEF _wdog
    <2>2. PICK b \in AgentStates : Becomes(t, b) /\ b.pc = "notify" /\ b.req = agents[t].req
        BY WdogEffect
    <2>3. agents[t] \in AgentStates /\ agents[t].pc = "run"
        BY WdogEffect
    <2>4. CASE UNCHANGED retry_list
        BY <2>1, <2>2, <2>3, <2>4, <1>HolderBecomes
    <2>5. CASE \E e \in Entries : /\ retry_list' = Append(retry_list, e)
                                   /\ e.req = agents[t].req /\ msg_type[agents[t].req] = "signal"
      <3>1. PICK e \in Entries : /\ retry_list' = Append(retry_list, e)
                                 /\ e.req = agents[t].req /\ msg_type[agents[t].req] = "signal"
          BY <2>5
      <3>2. PICK last, r : last = Len(retry_list) + 1 /\ r = agents[t].req  OBVIOUS
      <3>3. /\ retry_list'[last].req = r
            /\ \A i \in DOMAIN retry_list' : i = last \/ (i \in DOMAIN retry_list /\ retry_list'[i] = retry_list[i])
          BY <3>1, <3>2, AppendEffect
      <3>4. /\ Holding(t) /\ ~Holding(t)' /\ \A u \in Agents : Holding(u)' => Holding(u)
            /\ agents'[t].req = r /\ \A u \in Agents \ {t} : agents'[u] = agents[u]
          BY <2>1, <2>2, <2>3, <3>1, <3>2 DEF Holding, Becomes
      <3>5. \A i \in DOMAIN retry_list' : msg_type'[retry_list'[i].req] # "none"
          BY <2>1, <3>1, <3>2, <3>3, SMT DEF OneHolder
      <3>6. \A u \in Agents : agents'[u].pc # "idle" => msg_type'[agents'[u].req] # "none"
          BY <2>1, <3>1, <3>2, <3>4 DEF OneHolder
      <3>7. \A i, k \in DOMAIN retry_list' : retry_list'[i].req = retry_list'[k].req => i = k
          BY <3>2, <3>3, <3>4, SMT DEF OneHolder
      <3>8. \A v, u \in Agents : Holding(v)' /\ Holding(u)' /\ agents'[v].req = agents'[u].req => v = u
          BY <3>4 DEF OneHolder
      <3>9. \A i \in DOMAIN retry_list', u \in Agents : Holding(u)' => agents'[u].req # retry_list'[i].req
          BY <3>2, <3>3, <3>4, SMT DEF OneHolder
      <3> QED  BY <3>5, <3>6, <3>7, <3>8, <3>9 DEF OneHolder
    <2> QED  BY <2>4, <2>5, WdogQueue
  <1> USE DEF queue, counts, cluster
  <1>1. ASSUME UNCHANGED <<retry_list, agents, msg_type>>
        PROVE  OneHolder'
      BY <1>1, <1>HolderSame DEF Holding
  <1>2. ASSUME NEW r \in Requests, NEW type \in Types, agent_queue_request(r, type)
        PROVE  OneHolder'
      BY <1>2, <1>HolderRequest
  <1>3. ASSUME NEW r \in Requests, prolog_complete(r) \/ job_complete(r)
        PROVE  OneHolder'
      BY <1>1, <1>3 DEF prolog_complete, job_complete
  <1>4. ASSUME NEW r \in Requests, grow_old(r) \/ resume_timeout(r)
        PROVE  OneHolder'
      BY <1>4, AgedEffect, <1>HolderSame DEF Holding
  <1>5. CASE mail_job_info \/ background \/ agent_init \/ send_mail \/ _mail_proc \/ shutdown
      BY <1>1, <1>5 DEF mail_job_info, background, agent_init, send_mail, _mail_proc, shutdown
  <1>6. CASE _agent_retry
      BY <1>6, <1>HolderRetry
  <1>7. ASSUME NEW t \in Agents, agent_begin(t)
        PROVE  OneHolder'
    <2>1. UNCHANGED <<msg_type, retry_list>>  BY <1>7 DEF agent_begin
    <2> QED  BY <1>7, <2>1, BeginEffect, <1>HolderBecomes
  <1>8. ASSUME NEW t \in Agents, _wdog(t)
        PROVE  OneHolder'
      BY <1>8, <1>HolderWdog
  <1>9. ASSUME NEW t \in Agents, _notify_slurmctld_nodes(t)
        PROVE  OneHolder'
    <2>1. UNCHANGED <<msg_type, retry_list>>  BY <1>9 DEF _notify_slurmctld_nodes
    <2> QED  BY <1>9, <2>1, NotifyEffect, <1>HolderBecomes
  <1>10. ASSUME NEW t \in Agents, agent_cleanup(t)
         PROVE  OneHolder'
    <2>1. UNCHANGED <<msg_type, retry_list>> /\ agents' = wake(t)
        BY <1>10 DEF agent_cleanup
    <2>2. \A u \in Agents :
            /\ Holding(u)' => Holding(u)
            /\ agents'[u].pc # "idle" => agents[u].pc # "idle" /\ agents'[u].req = agents[u].req
        BY <2>1, WakeEffect, IdlePc DEF Holding
    <2> QED  BY <2>1, <2>2, <1>HolderSame
  <1>11. ASSUME NEW t \in Agents, NEW g \in SUBSET Nodes, start_thread(t, g)
         PROVE  OneHolder'
    <2>1. UNCHANGED <<msg_type, retry_list>>  BY <1>11 DEF start_thread
    <2> QED  BY <1>11, <2>1, StartEffect, <1>HolderBecomes
  <1>12. ASSUME NEW t \in Agents, NEW g \in SUBSET Nodes, _thread_per_group_rpc(t, g)
         PROVE  OneHolder'
    <2>1. UNCHANGED <<msg_type, retry_list>>  BY <1>12 DEF _thread_per_group_rpc
    <2> QED  BY <1>12, <2>1, ThreadEffect, <1>HolderBecomes
  <1>13. CASE agent_purge
    <2>1. retry_list' = <<>> /\ UNCHANGED <<agents, msg_type>>
        BY <1>13 DEF agent_purge
    <2>2. DOMAIN retry_list' = {}
        BY <2>1, SMT
    <2> QED  BY <2>1, <2>2, <1>HolderKept DEF Holding
  <1> QED  BY StepCases, <1>2, <1>3, <1>4, <1>5, <1>6, <1>7, <1>8, <1>9, <1>10, <1>11, <1>12, <1>13

-----------------------------------------------------------------------------
(* The groups of an agent's RPC threads                                    *)

\* A new agent, or one that ends, has no groups.
LEMMA GroupsNone ==
  /\ \A b \in AgentStates :
       b.pc = "start" /\ b.new = {} /\ b.active = {} /\ (\A n \in DOMAIN b.res : b.res[n] = "none")
         => GroupsOf(b)
  /\ \A b \in AgentStates : b.pc \in {"notify", "cleanup"} => GroupsOf(b)
  /\ GroupsOf(Idle)
  BY IdlePc DEF GroupsOf

\* Every step keeps the groups right.
LEMMA GroupsStep ==
  ASSUME TypeOK, GroupsOK, Next
  PROVE  GroupsOK'
  \* agent_begin makes groups of all its nodes.
  <1>GroupsBegin. ASSUME NEW a \in AgentStates, NEW b \in AgentStates, GroupsOf(a), a.pc = "start",
                         b.pc = "run", b.res = a.res, b.active = a.active, b.new = groups(a)
                  PROVE  GroupsOf(b)
    <2> USE <1>GroupsBegin
    <2>1. b.active = {} /\ \A n \in DOMAIN b.res : b.res[n] = "none"
        BY DEF GroupsOf
    <2>2. /\ \A n \in DOMAIN b.res : \E g \in b.new : n \in g
          /\ \A g \in b.new : \A n \in g : n \in DOMAIN b.res
          /\ \A g, h \in b.new : g # h => g \cap h = {}
      <3>1. CASE DOMAIN a.res = {}
          BY <3>1 DEF groups
      <3>2. CASE DOMAIN a.res # {} /\ msg_type[a.req] = "shutdown"
        <4>1. b.new = {{n} : n \in DOMAIN b.res}
            BY <3>2 DEF groups
        <4>2. \A n \in DOMAIN b.res : {n} \in b.new
            BY <4>1
        <4>3. \A g \in b.new : \E n \in DOMAIN b.res : g = {n}
            BY <4>1
        <4> QED  BY <4>2, <4>3
      <3>3. CASE DOMAIN a.res # {} /\ msg_type[a.req] # "shutdown"
        <4>1. b.new = {DOMAIN b.res}
            BY <3>3 DEF groups
        <4> QED  BY <4>1
      <3> QED  BY <3>1, <3>2, <3>3
    <2> QED  BY <2>1, <2>2 DEF GroupsOf
  \* A group goes from those that wait to those that run.
  <1>GroupsStart. ASSUME NEW a \in AgentStates, NEW b \in AgentStates, GroupsOf(a), NEW g \in a.new, a.pc = "run",
                         b.pc = "run", b.res = a.res, b.new = a.new \ {g}, b.active = a.active \cup {g}
                  PROVE  GroupsOf(b)
    <2> USE <1>GroupsStart
    <2>1. b.new \cup b.active = a.new \cup a.active /\ b.new \cap b.active = {}
        BY SMT DEF GroupsOf
    <2> QED  BY <2>1, SMT DEF GroupsOf
  \* The nodes of a group whose thread ends have their result.
  <1>GroupsEnd. ASSUME NEW a \in AgentStates, NEW b \in AgentStates, GroupsOf(a), NEW g \in a.active, a.pc = "run",
                       b.pc = "run", b.new = a.new, b.active = a.active \ {g},
                       DOMAIN b.res = DOMAIN a.res,
                       \A n \in DOMAIN b.res \ g : b.res[n] = a.res[n],
                       \A n \in DOMAIN b.res \cap g : b.res[n] \in {"done", "noresp"}
                PROVE  GroupsOf(b)
    <2> USE <1>GroupsEnd
    <2>1. \A h \in b.new \cup b.active : h \in a.new \cup a.active /\ h # g
        BY SMT DEF GroupsOf
    <2>2. \A h \in b.new \cup b.active : h \cap g = {}
        BY <2>1 DEF GroupsOf
    <2>3. \A n \in DOMAIN b.res : b.res[n] = "none" => n \notin g /\ a.res[n] = "none"
        OBVIOUS
    <2>4. \A n \in DOMAIN b.res : b.res[n] = "none" => \E h \in b.new \cup b.active : n \in h
      <3> SUFFICES ASSUME NEW n \in DOMAIN b.res, b.res[n] = "none"
                   PROVE  \E h \in b.new \cup b.active : n \in h
          OBVIOUS
      <3>1. PICK h \in a.new \cup a.active : n \in h
          BY <2>3 DEF GroupsOf
      <3>2. h # g  BY <2>3, <3>1
      <3> QED  BY <3>1, <3>2
    <2>5. \A h \in b.new \cup b.active : \A n \in h : n \in DOMAIN b.res /\ b.res[n] = "none"
      <3> SUFFICES ASSUME NEW h \in b.new \cup b.active, NEW n \in h
                   PROVE  n \in DOMAIN b.res /\ b.res[n] = "none"
          OBVIOUS
      <3>1. n \in DOMAIN a.res /\ a.res[n] = "none" /\ n \notin g
          BY <2>1, <2>2 DEF GroupsOf
      <3> QED  BY <3>1
    <2>6. b.new \cap b.active = {} /\ \A h, k \in b.new \cup b.active : h # k => h \cap k = {}
        BY <2>1 DEF GroupsOf
    <2> QED  BY <2>4, <2>5, <2>6 DEF GroupsOf
  <1> USE DEF queue, counts, cluster
  <1>b. ASSUME NEW t \in Agents, NEW b, Becomes(t, b), GroupsOf(b)
        PROVE  GroupsOK'
      BY <1>b DEF Becomes, GroupsOK
  <1>s. ASSUME NEW r \in Requests, NEW nodes \in SUBSET Nodes, spawn(r, nodes)
        PROVE  GroupsOK'
      BY <1>b, <1>s, SpawnEffect, GroupsNone, SMT
  <1>u. ASSUME UNCHANGED agents
        PROVE  GroupsOK'
      BY <1>u DEF GroupsOK
  <1>2. ASSUME NEW r \in Requests, NEW type \in Types, agent_queue_request(r, type)
        PROVE  GroupsOK'
      BY <1>2, <1>s, <1>u, RequestEffect
  <1>3. ASSUME NEW r \in Requests, \/ prolog_complete(r) \/ job_complete(r)
                                   \/ grow_old(r) \/ resume_timeout(r)
        PROVE  GroupsOK'
      BY <1>3, <1>u DEF prolog_complete, job_complete, grow_old, resume_timeout
  <1>5. CASE \/ mail_job_info \/ background \/ agent_init \/ send_mail \/ _mail_proc \/ shutdown
             \/ agent_purge
      BY <1>u, <1>5 DEF mail_job_info, background, agent_init, send_mail, _mail_proc, shutdown,
         agent_purge
  <1>6. CASE _agent_retry
      BY <1>6, <1>s, <1>u, RetryEffect, QueueFields DEF RetryFull, RetryTakes, RetryFinds
  <1>7. ASSUME NEW t \in Agents, agent_begin(t)
        PROVE  GroupsOK'
    <2>1. PICK b \in AgentStates :
            /\ Becomes(t, b) /\ b.res = agents[t].res /\ b.active = agents[t].active
            /\ \/ b.pc = "cleanup"
               \/ b.pc = "run" /\ b.new = groups(agents[t])
               \/ b.pc = "wait" /\ b.new = agents[t].new
        BY <1>7, BeginEffect
    <2>2. agents[t] \in AgentStates /\ agents[t].pc = "start" /\ GroupsOf(agents[t])
        BY <1>7, BeginEffect DEF GroupsOK
    <2>3. CASE b.pc = "cleanup"  BY <1>b, <2>1, <2>3, GroupsNone
    <2>4. CASE b.pc = "run" /\ b.new = groups(agents[t])  BY <1>b, <2>1, <2>2, <2>4, <1>GroupsBegin
    <2>5. CASE b.pc = "wait" /\ b.new = agents[t].new
      <3>1. GroupsOf(b)  BY <2>1, <2>2, <2>5 DEF GroupsOf
      <3> QED  BY <1>b, <2>1, <3>1
    <2> QED  BY <2>1, <2>3, <2>4, <2>5
  <1>8. ASSUME NEW t \in Agents, _wdog(t)
        PROVE  GroupsOK'
      BY <1>8, <1>b, WdogEffect, GroupsNone
  <1>9. ASSUME NEW t \in Agents, _notify_slurmctld_nodes(t)
        PROVE  GroupsOK'
      BY <1>9, <1>b, NotifyEffect, GroupsNone
  <1>10. ASSUME NEW t \in Agents, agent_cleanup(t)
         PROVE  GroupsOK'
    <2>1. agents' = wake(t)
        BY <1>10 DEF agent_cleanup
    <2>2. \A u \in Agents : GroupsOf(agents'[u])
      <3>1. GroupsOf(agents'[t])
          BY <2>1, WakeEffect, GroupsNone
      <3>2. ASSUME NEW u \in Agents \ {t}, agents[u].pc # "wait"
            PROVE  GroupsOf(agents'[u])
          BY <2>1, <3>2, WakeEffect DEF GroupsOK
      <3>3. ASSUME NEW u \in Agents \ {t}, agents[u].pc = "wait"
            PROVE  GroupsOf(agents'[u])
        <4>1. /\ agents'[u].pc = "start" /\ agents'[u].new = agents[u].new
              /\ agents'[u].active = agents[u].active /\ agents'[u].res = agents[u].res
            BY <2>1, <3>3, WakeEffect
        <4>2. GroupsOf(agents[u])  BY DEF GroupsOK
        <4> QED  BY <3>3, <4>1, <4>2 DEF GroupsOf
      <3> QED  BY <3>1, <3>2, <3>3
    <2> QED  BY <2>2 DEF GroupsOK
  <1>11. ASSUME NEW t \in Agents, NEW g \in SUBSET Nodes, start_thread(t, g)
         PROVE  GroupsOK'
    <2>1. GroupsOf(agents[t])  BY DEF GroupsOK
    <2> QED  BY <1>11, <1>b, <2>1, StartEffect, <1>GroupsStart, SMT
  <1>12. ASSUME NEW t \in Agents, NEW g \in SUBSET Nodes, _thread_per_group_rpc(t, g)
         PROVE  GroupsOK'
    <2>1. GroupsOf(agents[t])  BY DEF GroupsOK
    <2> QED  BY <1>12, <1>b, <2>1, ThreadEffect, <1>GroupsEnd, SMT
  <1> QED  BY StepCases, <1>2, <1>3, <1>5, <1>6, <1>7, <1>8, <1>9, <1>10, <1>11, <1>12

-----------------------------------------------------------------------------
(* Threads                                                                 *)

\* The threads 1..n[t] of every t in C.
Bundles(C, n) == UNION {{t} \X (1 .. n[t]) : t \in C}

\* There are finitely many.
LEMMA BundlesFinite ==
  ASSUME NEW C, IsFiniteSet(C), NEW n, NEW k \in Nat, \A t \in C : n[t] \in Nat /\ n[t] =< k
  PROVE  IsFiniteSet(Bundles(C, n)) /\ Cardinality(Bundles(C, n)) \in Nat
  <1>1. IsFiniteSet(1 .. k)  BY FS_Interval, SMT
  <1>2. IsFiniteSet(C \X (1 .. k))  BY <1>1, FS_Product
  <1>3. \A t \in C : {t} \X (1 .. n[t]) \subseteq C \X (1 .. k)  BY SMT
  <1>4. Bundles(C, n) \subseteq C \X (1 .. k)
      BY <1>3 DEF Bundles
  <1> QED  BY <1>2, <1>4, FS_Subset, FS_CardinalityType

\* A new bundle adds its threads.
LEMMA BundlesAdd ==
  ASSUME NEW C, IsFiniteSet(C), NEW n, NEW m, NEW k \in Nat, NEW u, u \notin C,
         m[u] \in Nat, \A t \in C : n[t] \in Nat /\ n[t] =< k /\ m[t] = n[t]
  PROVE  /\ Cardinality(Bundles(C, n)) \in Nat
         /\ Cardinality(Bundles(C \cup {u}, m)) = Cardinality(Bundles(C, n)) + m[u]
  <1> DEFINE own == {u} \X (1 .. m[u])
             old == Bundles(C, n)
  <1>1. IsFiniteSet(old) /\ Cardinality(old) \in Nat  BY BundlesFinite
  <1>2. IsFiniteSet(1 .. m[u]) /\ Cardinality(1 .. m[u]) = m[u]
    <2>1. 1 \in Int /\ m[u] \in Int  BY SMT
    <2>2. /\ IsFiniteSet(1 .. m[u])
          /\ Cardinality(1 .. m[u]) = IF 1 > m[u] THEN 0 ELSE m[u] - 1 + 1
        BY <2>1, FS_Interval
    <2> QED  BY <2>1, <2>2, SMT
  <1>3. IsFiniteSet({u}) /\ Cardinality({u}) = 1  BY FS_Singleton
  <1>4. IsFiniteSet(own) /\ Cardinality(own) = Cardinality({u}) * Cardinality(1 .. m[u])
      BY <1>2, <1>3, FS_Product
  <1>5. Cardinality(own) = m[u]
      BY <1>2, <1>3, <1>4, SMT
  <1>6. \A p \in old : \E t \in C : p \in {t} \X (1 .. n[t])
      BY DEF Bundles
  <1>7. old \cap own = {}
    <2> SUFFICES ASSUME NEW p \in old, p \in own  PROVE FALSE
        OBVIOUS
    <2>1. PICK t \in C : p \in {t} \X (1 .. n[t])  BY <1>6
    <2>2. p[1] = t /\ p[1] = u  BY <2>1
    <2> QED  BY <2>2
  <1>8. Bundles(C \cup {u}, m) = old \cup own
    <2>1. \A t \in C : {t} \X (1 .. m[t]) = {t} \X (1 .. n[t])  OBVIOUS
    <2>2. {{t} \X (1 .. m[t]) : t \in C \cup {u}} = {{t} \X (1 .. n[t]) : t \in C} \cup {own}
        BY <2>1
    <2> QED  BY <2>2 DEF Bundles
  <1>9. Cardinality(old \cap own) = 0  BY <1>7, FS_EmptySet
  <1>10. Cardinality(old \cup own) = Cardinality(old) + Cardinality(own) - Cardinality(old \cap own)
      BY <1>1, <1>4, FS_Union
  <1> HIDE DEF own, old
  <1>11. Cardinality(old \cup own) = Cardinality(old) + m[u]
      BY <1>1, <1>5, <1>9, <1>10, SMT
  <1> QED  BY <1>1, <1>8, <1>11 DEF old

\* How many threads each agent has taken.
Took == [t \in Agents |-> rpc_thread_cnt(agents[t])]

\* The agents that are counted, and their threads.
CountFacts ==
  /\ Counted \subseteq Agents /\ IsFiniteSet(Counted) /\ Cardinality(Counted) \in Nat
  /\ \A t \in Counted : /\ agents[t] \in AgentStates /\ Took[t] = rpc_thread_cnt(agents[t])
                        /\ Took[t] \in Nat /\ Took[t] =< AGENT_THREAD_COUNT + 2
                        /\ Took[t] >= 2
  /\ UNION {ThreadsOf(t) : t \in Counted} = Bundles(Counted, Took)
  /\ AGENT_THREAD_COUNT + 2 \in Nat
  /\ Cardinality(Bundles(Counted, Took)) \in Nat

\* They are finitely many, with at least two threads each.
LEMMA CountedFacts == TypeOK => CountFacts
  <1> SUFFICES ASSUME TypeOK  PROVE CountFacts  OBVIOUS
  <1>1. Counted \subseteq Agents  BY DEF Counted
  <1>2. IsFiniteSet(Counted) /\ Cardinality(Counted) \in Nat
      BY <1>1, AgentAssumption, FS_Subset, FS_CardinalityType DEF AgentAssumption
  <1>3. \A t \in Counted : agents[t] \in AgentStates
      BY NotIdle DEF Counted
  <1>4. \A t \in Counted : Took[t] = rpc_thread_cnt(agents[t])
      BY <1>1 DEF Took
  <1>5. \A t \in Counted : {t} \X (1 .. rpc_thread_cnt(agents[t])) = {t} \X (1 .. Took[t])
      BY <1>4
  <1>6. UNION {ThreadsOf(t) : t \in Counted} = Bundles(Counted, Took)
      BY <1>5 DEF Bundles, ThreadsOf
  <1>7. AGENT_THREAD_COUNT + 2 \in Nat  BY AgentAssumption, SMT DEF AgentAssumption
  <1>8. \A t \in Counted : Took[t] \in Nat /\ Took[t] =< AGENT_THREAD_COUNT + 2 /\ Took[t] >= 2
      BY <1>3, <1>4, ThreadCount
  <1>9. Cardinality(Bundles(Counted, Took)) \in Nat
      BY <1>2, <1>7, <1>8, BundlesFinite
  <1> QED  BY <1>1, <1>2, <1>3, <1>4, <1>6, <1>7, <1>8, <1>9 DEF CountFacts

\* Every step counts its threads.
LEMMA ThreadsStep ==
  ASSUME TypeOK, TypeOK', ThreadsCounted, Next
  PROVE  ThreadsCounted'
  \* The same after a step.
  <1>CountedNext. TypeOK' => CountFacts'
    BY CountedFacts, PTL
  \* ThreadsCounted in terms of bundles.
  <1>CountedBundles. ThreadsCounted <=>
                       /\ agent_cnt = Cardinality(Counted)
                       /\ agent_thread_cnt = mail_procs + Cardinality(Bundles(Counted, Took))
                       /\ ~shutdown_time => agent_thread_cnt <= MAX_SERVER_THREADS
    <2>1. UNION {ThreadsOf(t) : t \in Counted} = Bundles(Counted, Took)
        BY CountedFacts DEF CountFacts
    <2> QED  BY <2>1 DEF ThreadsCounted
  \* The same after a step.
  <1>CountedBundlesNext. ASSUME 
                                agent_cnt' = Cardinality(Counted'),
                                agent_thread_cnt' = mail_procs' + Cardinality(Bundles(Counted', Took')),
                                ~shutdown_time' => agent_thread_cnt' <= MAX_SERVER_THREADS
                         PROVE  ThreadsCounted'
    <2> USE <1>CountedBundlesNext
    <2>1. UNION {ThreadsOf(t)' : t \in Counted'} = Bundles(Counted', Took')
        BY <1>CountedNext DEF CountFacts
    <2> QED  BY <2>1 DEF ThreadsCounted
  \* Agents that go on, or new ones, keep the threads that are taken.
  <1>ThreadsKept. ASSUME Counted' = Counted,
                         \A t \in Counted : DOMAIN agents'[t].res = DOMAIN agents[t].res
                  PROVE  Bundles(Counted', Took') = Bundles(Counted, Took)
    <2> USE <1>ThreadsKept
    <2>1. \A t \in Counted : Took[t] = rpc_thread_cnt(agents[t]) /\ Took'[t] = rpc_thread_cnt(agents'[t])
        BY CountedFacts, <1>CountedNext DEF CountFacts
    <2>2. \A t \in Counted : rpc_thread_cnt(agents'[t]) = rpc_thread_cnt(agents[t])
        BY DEF rpc_thread_cnt
    <2>3. \A t \in Counted : {t} \X (1 .. Took'[t]) = {t} \X (1 .. Took[t])
        BY <2>1, <2>2
    <2> QED  BY <2>3, SMT DEF Bundles
  \* One agent goes on: it was counted and still is, or it was not and is not.
  <1>CountedBecomes. ASSUME NEW t \in Agents, NEW b \in AgentStates, Becomes(t, b),
                            \/ /\ agents[t].pc \in {"run", "notify", "cleanup"} /\ b.pc \in {"run", "notify", "cleanup"}
                               /\ DOMAIN b.res = DOMAIN agents[t].res
                            \/ agents[t].pc \in {"idle", "start"} /\ b.pc \in {"start", "wait"}
                     PROVE  Counted' = Counted /\ \A u \in Counted : DOMAIN agents'[u].res = DOMAIN agents[u].res
    BY <1>CountedBecomes DEF Counted, Becomes
  \* agent_begin takes the threads it counts.
  <1>ThreadsBegin. ASSUME NEW t \in Agents, agent_begin(t)
                   PROVE  ThreadsCounted'
    <2> USE <1>ThreadsBegin
    <2> DEFINE a == agents[t]
               room == shutdown_time \/ agent_thread_cnt + rpc_thread_cnt(a) <= MAX_SERVER_THREADS
    <2>1. /\ agent_cnt = Cardinality(Counted)
          /\ agent_thread_cnt = mail_procs + Cardinality(Bundles(Counted, Took))
          /\ ~shutdown_time => agent_thread_cnt <= MAX_SERVER_THREADS
        BY <1>CountedBundles
    <2>2. PICK b \in AgentStates :
            /\ Becomes(t, b) /\ b.res = a.res /\ b.pc \in {"cleanup", "run", "wait"}
            /\ b.pc = "wait" <=> ~room
        BY BeginEffect
    <2>3. a \in AgentStates /\ a.pc = "start" /\ mail_procs' = mail_procs /\ shutdown_time' = shutdown_time
        BY BeginEffect DEF agent_begin, cluster
    <2>4. CASE ~room
      <3>1. UNCHANGED <<agent_cnt, agent_thread_cnt>>
          BY <2>4 DEF agent_begin
      <3>2. Counted' = Counted /\ Bundles(Counted', Took') = Bundles(Counted, Took)
          BY <2>2, <2>3, <2>4, <1>CountedBecomes, <1>ThreadsKept
      <3> QED  BY <2>1, <2>3, <3>1, <3>2, <1>CountedBundlesNext
    <2>5. CASE room
      <3>1. agent_cnt' = agent_cnt + 1 /\ agent_thread_cnt' = agent_thread_cnt + rpc_thread_cnt(a)
          BY <2>5 DEF agent_begin
      <3>2. b.pc \in {"run", "cleanup"}
          BY <2>2, <2>5
      <3>3. t \notin Counted /\ Counted' = Counted \cup {t}
          BY <2>2, <2>3, <3>2 DEF Counted, Becomes
      <3>4. Took'[t] = rpc_thread_cnt(a) /\ Took'[t] \in Nat
        <4>1. Took'[t] = rpc_thread_cnt(b)
            BY <2>2 DEF Took, Becomes
        <4>2. rpc_thread_cnt(b) = rpc_thread_cnt(a)
            BY <2>2 DEF rpc_thread_cnt
        <4> QED  BY <2>3, <4>1, <4>2, ThreadCount
      <3>5. \A u \in Counted : Took'[u] = Took[u]
          BY <2>2, <3>3 DEF Took, Becomes, Counted
      <3>6. /\ IsFiniteSet(Counted) /\ AGENT_THREAD_COUNT + 2 \in Nat
            /\ \A u \in Counted : Took[u] \in Nat /\ Took[u] =< AGENT_THREAD_COUNT + 2 /\ Took'[u] = Took[u]
          BY <3>5, CountedFacts DEF CountFacts
      <3>7. /\ Cardinality(Bundles(Counted, Took)) \in Nat
            /\ Cardinality(Bundles(Counted \cup {t}, Took')) = Cardinality(Bundles(Counted, Took)) + Took'[t]
        <4>1. PICK n, m, k : n = Took /\ m = Took' /\ k = AGENT_THREAD_COUNT + 2  OBVIOUS
        <4>2. /\ k \in Nat /\ m[t] \in Nat /\ t \notin Counted /\ IsFiniteSet(Counted)
              /\ \A u \in Counted : n[u] \in Nat /\ n[u] =< k /\ m[u] = n[u]
            BY <3>3, <3>4, <3>6, <4>1
        <4>3. /\ Cardinality(Bundles(Counted, n)) \in Nat
              /\ Cardinality(Bundles(Counted \cup {t}, m)) = Cardinality(Bundles(Counted, n)) + m[t]
            BY <4>2, BundlesAdd, SMT
        <4> QED  BY <4>1, <4>3
      <3>8. Cardinality(Counted') = Cardinality(Counted) + 1
          BY <3>3, <3>6, FS_AddElement
      <3>9. mail_procs \in Nat /\ agent_thread_cnt \in Nat
          BY DEF TypeOK
      <3>10. agent_thread_cnt' = mail_procs' + Cardinality(Bundles(Counted', Took'))
          BY <2>1, <2>3, <3>1, <3>3, <3>4, <3>7, <3>9, SMT
      <3>11. ~shutdown_time' => agent_thread_cnt' <= MAX_SERVER_THREADS
          BY <2>3, <2>5, <3>1
      <3> QED  BY <2>1, <3>1, <3>8, <3>10, <3>11, <1>CountedBundlesNext
    <2> QED  BY <2>4, <2>5
  \* The end of an agent gives back exactly those.
  <1>ThreadsCleanup. ASSUME NEW t \in Agents, agent_cleanup(t)
                     PROVE  /\ ThreadsCounted' /\ agent_thread_cnt' = agent_thread_cnt - rpc_thread_cnt(agents[t])
                            /\ Counted' = Counted \ {t}
    <2> USE <1>ThreadsCleanup
    <2> DEFINE a == agents[t]
    <2>1. /\ agent_cnt = Cardinality(Counted)
          /\ agent_thread_cnt = mail_procs + Cardinality(Bundles(Counted, Took))
          /\ ~shutdown_time => agent_thread_cnt <= MAX_SERVER_THREADS
        BY <1>CountedBundles
    <2>2. /\ a.pc = "cleanup" /\ agents' = wake(t) /\ mail_procs' = mail_procs /\ shutdown_time' = shutdown_time
          /\ agent_cnt' = Max({0, agent_cnt - 1})
          /\ agent_thread_cnt' = Max({0, agent_thread_cnt - rpc_thread_cnt(a)})
        BY DEF agent_cleanup, cluster
    <2>3. t \in Counted /\ Counted' = Counted \ {t}
        BY <2>2, WakeEffect, IdlePc, SMT DEF Counted
    <2>4. \A u \in Counted' : Took[u] = Took'[u]
        BY <2>2, <2>3, WakeEffect DEF Took, Counted
    <2>5. /\ IsFiniteSet(Counted') /\ AGENT_THREAD_COUNT + 2 \in Nat
          /\ \A u \in Counted' : Took'[u] \in Nat /\ Took'[u] =< AGENT_THREAD_COUNT + 2 /\ Took[u] = Took'[u]
        BY <2>4, <1>CountedNext DEF CountFacts
    <2>6. Took[t] = rpc_thread_cnt(a) /\ Took[t] \in Nat /\ IsFiniteSet(Counted) /\ Cardinality(Counted) \in Nat
        BY <2>3, CountedFacts DEF CountFacts
    <2>7. t \notin Counted' /\ Counted' \cup {t} = Counted
        BY <2>3
    <2>8. /\ Cardinality(Bundles(Counted', Took')) \in Nat
          /\ Cardinality(Bundles(Counted' \cup {t}, Took)) = Cardinality(Bundles(Counted', Took')) + Took[t]
        BY <2>5, <2>6, <2>7, BundlesAdd, SMT
    <2>9. Cardinality(Counted') = Cardinality(Counted) - 1 /\ Cardinality(Counted') \in Nat
        BY <2>3, <2>5, <2>6, FS_RemoveElement, FS_CardinalityType
    <2>10. mail_procs \in Nat /\ agent_thread_cnt \in Nat
        BY DEF TypeOK
    <2>11. PICK k \in Nat : k = Cardinality(Bundles(Counted', Took'))  BY <2>8
    <2>12. agent_thread_cnt - rpc_thread_cnt(a) = mail_procs + k
      <3>1. PICK c \in Nat : c = Took[t]  BY <2>6
      <3>2. Cardinality(Bundles(Counted, Took)) = k + c
          BY <2>7, <2>8, <2>11, <3>1
      <3>3. agent_thread_cnt = mail_procs + (k + c)  BY <2>1, <3>2
      <3>4. rpc_thread_cnt(a) = c  BY <2>6, <3>1
      <3> QED  BY <2>10, <3>3, <3>4, SMT
    <2>13. agent_thread_cnt' = mail_procs + k
      <3>1. PICK m \in Nat : m = mail_procs + k  BY <2>10, SMT
      <3>2. Max({0, m}) = m  BY <3>1, MaxPair, SMT
      <3> QED  BY <2>2, <2>12, <3>1, <3>2
    <2>14. agent_cnt' = Cardinality(Counted')
        BY <2>1, <2>2, <2>9, MaxPair, SMT
    <2>15. ~shutdown_time' => agent_thread_cnt' <= MAX_SERVER_THREADS
        BY <2>1, <2>2, <2>6, <2>10, <2>12, <2>13, AgentAssumption, SMT DEF AgentAssumption
    <2> QED  BY <2>2, <2>3, <2>11, <2>12, <2>13, <2>14, <2>15, <1>CountedBundlesNext
  <1> USE DEF queue, counts, cluster
  <1>1. /\ agent_cnt = Cardinality(Counted)
        /\ agent_thread_cnt = mail_procs + Cardinality(Bundles(Counted, Took))
        /\ ~shutdown_time => agent_thread_cnt <= MAX_SERVER_THREADS
      BY <1>CountedBundles
  <1>k. ASSUME UNCHANGED <<agent_cnt, agent_thread_cnt, mail_procs>>, shutdown_time => shutdown_time',
               Counted' = Counted, \A t \in Counted : DOMAIN agents'[t].res = DOMAIN agents[t].res
        PROVE  ThreadsCounted'
    <2>1. Bundles(Counted', Took') = Bundles(Counted, Took)
        BY <1>k, <1>ThreadsKept
    <2> QED  BY <1>1, <1>k, <2>1, <1>CountedBundlesNext
  <1>u. ASSUME UNCHANGED <<agents, agent_cnt, agent_thread_cnt, mail_procs>>, shutdown_time => shutdown_time'
        PROVE  ThreadsCounted'
    <2>1. Counted' = Counted  BY <1>u DEF Counted
    <2> QED  BY <1>k, <1>u, <2>1
  <1>b. ASSUME NEW t \in Agents, NEW b \in AgentStates, Becomes(t, b),
               \/ /\ agents[t].pc \in {"run", "notify", "cleanup"} /\ b.pc \in {"run", "notify", "cleanup"}
                  /\ DOMAIN b.res = DOMAIN agents[t].res
               \/ agents[t].pc \in {"idle", "start"} /\ b.pc \in {"start", "wait"},
               UNCHANGED <<agent_cnt, agent_thread_cnt, mail_procs, shutdown_time>>
        PROVE  ThreadsCounted'
      BY <1>b, <1>k, <1>CountedBecomes
  <1>s. ASSUME NEW r \in Requests, NEW nodes \in SUBSET Nodes, spawn(r, nodes),
               UNCHANGED <<agent_cnt, agent_thread_cnt, mail_procs, shutdown_time>>
        PROVE  ThreadsCounted'
      BY <1>b, <1>s, SpawnEffect
  <1>2. ASSUME NEW r \in Requests, NEW type \in Types, agent_queue_request(r, type)
        PROVE  ThreadsCounted'
    <2>1. UNCHANGED <<agent_cnt, agent_thread_cnt, mail_procs, shutdown_time>>
        BY <1>2 DEF agent_queue_request
    <2> QED  BY <1>2, <1>s, <1>u, <2>1, RequestEffect
  <1>3. ASSUME NEW r \in Requests, \/ prolog_complete(r) \/ job_complete(r)
                                   \/ grow_old(r) \/ resume_timeout(r)
        PROVE  ThreadsCounted'
      BY <1>3, <1>u DEF prolog_complete, job_complete, grow_old, resume_timeout
  <1>4. CASE mail_job_info \/ background \/ agent_init \/ shutdown \/ agent_purge
      BY <1>u, <1>4 DEF mail_job_info, background, agent_init, shutdown, agent_purge
  <1>5. CASE send_mail
    <2>1. PICK n \in Nat :
            /\ n > 0 => n =< MAX_SERVER_THREADS - agent_thread_cnt
            /\ mail_procs' = mail_procs + n /\ agent_thread_cnt' = agent_thread_cnt + n
            /\ UNCHANGED <<agents, agent_cnt, shutdown_time>>
        BY <1>5, MailEffect
    <2>2. Counted' = Counted  BY <2>1 DEF Counted
    <2>3. Bundles(Counted', Took') = Bundles(Counted, Took)
        BY <2>1, <2>2, <1>ThreadsKept
    <2>4. mail_procs \in Nat /\ agent_thread_cnt \in Nat /\ Cardinality(Bundles(Counted, Took)) \in Nat
          /\ MAX_SERVER_THREADS \in Nat
        BY CountedFacts, AgentAssumption DEF TypeOK, CountFacts, AgentAssumption
    <2>5. /\ agent_thread_cnt' = mail_procs' + Cardinality(Bundles(Counted', Took'))
          /\ ~shutdown_time' => agent_thread_cnt' <= MAX_SERVER_THREADS
        BY <1>1, <2>1, <2>3, <2>4, SMT
    <2> QED  BY <1>1, <2>1, <2>2, <2>5, <1>CountedBundlesNext
  <1>6. CASE _mail_proc
    <2>1. /\ mail_procs > 0 /\ mail_procs' = mail_procs - 1
          /\ agent_thread_cnt' = Max({0, agent_thread_cnt - 1})
          /\ UNCHANGED <<agents, agent_cnt, shutdown_time>>
        BY <1>6 DEF _mail_proc
    <2>2. Counted' = Counted  BY <2>1 DEF Counted
    <2>3. Bundles(Counted', Took') = Bundles(Counted, Took)
        BY <2>1, <2>2, <1>ThreadsKept
    <2>4. mail_procs \in Nat /\ agent_thread_cnt \in Nat /\ Cardinality(Bundles(Counted, Took)) \in Nat
          /\ MAX_SERVER_THREADS \in Nat
        BY CountedFacts, AgentAssumption DEF TypeOK, CountFacts, AgentAssumption
    <2>5. agent_thread_cnt' = agent_thread_cnt - 1
        BY <1>1, <2>1, <2>4, MaxPair, SMT
    <2>6. /\ agent_thread_cnt' = mail_procs' + Cardinality(Bundles(Counted', Took'))
          /\ ~shutdown_time' => agent_thread_cnt' <= MAX_SERVER_THREADS
        BY <1>1, <2>1, <2>3, <2>4, <2>5, SMT
    <2> QED  BY <1>1, <2>1, <2>2, <2>6, <1>CountedBundlesNext
  <1>7. CASE _agent_retry
    <2>1. UNCHANGED <<agent_cnt, agent_thread_cnt, mail_procs, shutdown_time>>
        BY <1>7 DEF _agent_retry
    <2> QED  BY <1>7, <1>s, <1>u, <2>1, RetryEffect, QueueFields DEF RetryFull, RetryTakes, RetryFinds
  <1>8. ASSUME NEW t \in Agents, _wdog(t)
        PROVE  ThreadsCounted'
    <2>1. UNCHANGED <<agent_cnt, agent_thread_cnt, mail_procs, shutdown_time>>
        BY <1>8 DEF _wdog
    <2> QED  BY <1>8, <1>b, <2>1, WdogEffect
  <1>9. ASSUME NEW t \in Agents, _notify_slurmctld_nodes(t)
        PROVE  ThreadsCounted'
    <2>1. UNCHANGED <<agent_cnt, agent_thread_cnt, mail_procs, shutdown_time>>
        BY <1>9 DEF _notify_slurmctld_nodes
    <2> QED  BY <1>9, <1>b, <2>1, NotifyEffect
  <1>11. ASSUME NEW t \in Agents, NEW g \in SUBSET Nodes, start_thread(t, g)
         PROVE  ThreadsCounted'
    <2>1. UNCHANGED <<agent_cnt, agent_thread_cnt, mail_procs, shutdown_time>>
        BY <1>11 DEF start_thread
    <2> QED  BY <1>11, <1>b, <2>1, StartEffect
  <1>12. ASSUME NEW t \in Agents, NEW g \in SUBSET Nodes, _thread_per_group_rpc(t, g)
         PROVE  ThreadsCounted'
    <2>1. UNCHANGED <<agent_cnt, agent_thread_cnt, mail_procs, shutdown_time>>
        BY <1>12 DEF _thread_per_group_rpc
    <2> QED  BY <1>12, <1>b, <2>1, ThreadEffect
  <1> QED  BY StepCases, <1>2, <1>3, <1>4, <1>5, <1>6, <1>7, <1>8, <1>9, <1>11, <1>12,
              <1>ThreadsBegin, <1>ThreadsCleanup

-----------------------------------------------------------------------------
(* Pings                                                                   *)

\* Every step keeps the nodes of pings.
LEMMA PingNodesStep ==
  ASSUME TypeOK, OneHolder, PingNodes, Next
  PROVE  PingNodes'
  <1> USE DEF queue, counts, cluster
  <1>k. ASSUME UNCHANGED msg_type,
               \A x \in DOMAIN retry_list' : msg_type[retry_list'[x].req] = "ping" =>
                 \E i \in DOMAIN retry_list : /\ retry_list'[x].req = retry_list[i].req
                                             /\ retry_list'[x].nodes = retry_list[i].nodes,
               \A t \in Agents : agents'[t].pc \in {"start", "wait"} =>
                 /\ agents[t].pc \in {"start", "wait"} /\ agents'[t].req = agents[t].req
                 /\ DOMAIN agents'[t].res = DOMAIN agents[t].res
        PROVE  PingNodes'
      BY <1>k DEF PingNodes
  <1>b. ASSUME UNCHANGED <<msg_type, retry_list>>, NEW t \in Agents, NEW b, Becomes(t, b),
               b.pc \in {"start", "wait"} =>
                 /\ agents[t].pc \in {"start", "wait"} /\ b.req = agents[t].req
                 /\ DOMAIN b.res = DOMAIN agents[t].res
        PROVE  PingNodes'
    <2>1. \A u \in Agents : agents'[u].pc \in {"start", "wait"} =>
                 /\ agents[u].pc \in {"start", "wait"} /\ agents'[u].req = agents[u].req
                 /\ DOMAIN agents'[u].res = DOMAIN agents[u].res
        BY <1>b DEF Becomes
    <2> QED  BY <1>b, <1>k, <2>1
  <1>u. ASSUME UNCHANGED <<retry_list, agents, msg_type>>
        PROVE  PingNodes'
      BY <1>u DEF PingNodes
  <1>2. ASSUME NEW r \in Requests, NEW type \in Types, agent_queue_request(r, type)
        PROVE  PingNodes'
    <2>1. /\ msg_type[r] = "none" /\ msg_type'[r] = type /\ \A q \in Requests \ {r} : msg_type'[q] = msg_type[q]
          /\ type = "ping" => NodeList[type] # {}
        BY <1>2, RequestEffect, AgentAssumption, SMT DEF TypeOK, AgentAssumption
    <2>2. \A i \in DOMAIN retry_list : retry_list[i].req \in Requests \ {r}
        BY <2>1, QueueFields DEF OneHolder
    <2>3. \A t \in Agents : agents[t].pc # "idle" => agents[t].req \in Requests \ {r}
        BY <2>1, NotIdle, StateFields DEF OneHolder
    <2>4. CASE UNCHANGED agents /\ \E e \in Entries : /\ retry_list' = Append(retry_list, e)
                                                     /\ e.req = r /\ e.nodes = NodeList[type]
      <3>1. PICK e \in Entries : retry_list' = Append(retry_list, e) /\ e.req = r /\ e.nodes = NodeList[type]
          BY <2>4
      <3>2. \A x \in DOMAIN retry_list' : \/ x \in DOMAIN retry_list /\ retry_list'[x] = retry_list[x]
                                          \/ retry_list'[x] = e
          BY <3>1, AppendEffect
      <3>3. \A x \in DOMAIN retry_list' :
              msg_type'[retry_list'[x].req] = "ping" => retry_list'[x].nodes # {}
          BY <2>1, <2>2, <3>1, <3>2 DEF PingNodes
      <3>4. \A t \in Agents : agents[t].pc \in {"start", "wait"} /\ msg_type'[agents[t].req] = "ping"
                              => DOMAIN agents[t].res # {}
          BY <2>1, <2>3 DEF PingNodes
      <3> QED  BY <2>4, <3>3, <3>4 DEF PingNodes
    <2>5. CASE /\ UNCHANGED retry_list /\ type = "shutdown" /\ spawn(r, NodeList[type])
               /\ NodeList[type] \in SUBSET Nodes
      <3>1. PICK t \in Agents, b \in AgentStates : Becomes(t, b) /\ b.req = r
          BY <2>5, SpawnEffect, SMT
      <3>2. \A x \in DOMAIN retry_list' :
              msg_type'[retry_list'[x].req] = "ping" => retry_list'[x].nodes # {}
          BY <2>1, <2>2, <2>5 DEF PingNodes
      <3>3. \A u \in Agents : agents'[u].pc \in {"start", "wait"} /\ msg_type'[agents'[u].req] = "ping"
                              => DOMAIN agents'[u].res # {}
          BY <2>1, <2>3, <2>5, <3>1, SMT DEF PingNodes, Becomes
      <3> QED  BY <3>2, <3>3 DEF PingNodes
    <2> QED  BY <1>2, <2>4, <2>5, RequestEffect, SMT
  <1>3. ASSUME NEW r \in Requests, prolog_complete(r) \/ job_complete(r)
        PROVE  PingNodes'
      BY <1>3, <1>u DEF prolog_complete, job_complete
  <1>4. ASSUME NEW r \in Requests, grow_old(r) \/ resume_timeout(r)
        PROVE  PingNodes'
      BY <1>4, <1>k, AgedEffect
  <1>5. CASE mail_job_info \/ background \/ agent_init \/ send_mail \/ _mail_proc \/ shutdown
      BY <1>u, <1>5 DEF mail_job_info, background, agent_init, send_mail, _mail_proc, shutdown
  <1>6. CASE agent_purge
    <2>1. retry_list' = <<>> /\ UNCHANGED <<agents, msg_type>>
        BY <1>6 DEF agent_purge
    <2>2. DOMAIN retry_list' = {}
        BY <2>1, SMT
    <2> QED  BY <1>k, <2>1, <2>2
  <1>7. CASE _agent_retry
    <2>1. UNCHANGED msg_type /\ (RetryFull \/ RetryTakes \/ RetryFinds)
        BY <1>7, RetryEffect
    <2>2. CASE RetryFull
        BY <1>u, <2>1, <2>2 DEF RetryFull
    <2>3. ASSUME NEW i, \E old : Renumbered(old, i)
          PROVE  \A x \in DOMAIN retry_list' :
                   \E k \in DOMAIN retry_list : /\ retry_list'[x].req = retry_list[k].req
                                               /\ retry_list'[x].nodes = retry_list[k].nodes
        BY <2>3 DEF Renumbered
    <2>4. CASE RetryFinds
        BY <1>k, <2>1, <2>3, <2>4 DEF RetryFinds
    <2>5. CASE RetryTakes
      <3>1. PICK i \in DOMAIN retry_list :
              spawn(retry_list[i].req, retry_list[i].nodes) /\ \E old : Renumbered(old, i)
          BY <2>5 DEF RetryTakes
      <3>2. PICK t \in Agents, b \in AgentStates :
              Becomes(t, b) /\ b.req = retry_list[i].req /\ DOMAIN b.res = retry_list[i].nodes
          BY <3>1, QueueFields, SpawnEffect, SMT
      <3>3. \A x \in DOMAIN retry_list' : msg_type'[retry_list'[x].req] = "ping" => retry_list'[x].nodes # {}
          BY <2>1, <2>3, <3>1 DEF PingNodes
      <3>4. \A u \in Agents : agents'[u].pc \in {"start", "wait"} /\ msg_type'[agents'[u].req] = "ping"
                              => DOMAIN agents'[u].res # {}
          BY <2>1, <3>1, <3>2 DEF PingNodes, Becomes
      <3> QED  BY <3>3, <3>4 DEF PingNodes
    <2> QED  BY <2>1, <2>2, <2>4, <2>5
  <1>8. ASSUME NEW t \in Agents, agent_begin(t)
        PROVE  PingNodes'
    <2>1. UNCHANGED <<msg_type, retry_list>>  BY <1>8 DEF agent_begin
    <2> QED  BY <1>8, <1>b, <2>1, BeginEffect
  <1>9. ASSUME NEW t \in Agents, _wdog(t)
        PROVE  PingNodes'
    <2>1. UNCHANGED msg_type  BY <1>9 DEF _wdog
    <2>2. PICK b \in AgentStates : Becomes(t, b) /\ b.pc = "notify"  BY <1>9, WdogEffect
    <2>3. CASE UNCHANGED retry_list  BY <1>b, <2>1, <2>2, <2>3
    <2>4. CASE \E e \in Entries : /\ retry_list' = Append(retry_list, e)
                                  /\ e.req = agents[t].req /\ msg_type[agents[t].req] = "signal"
      <3>1. PICK e \in Entries : retry_list' = Append(retry_list, e) /\ msg_type[e.req] = "signal"
          BY <2>4
      <3>2. \A x \in DOMAIN retry_list' : \/ x \in DOMAIN retry_list /\ retry_list'[x] = retry_list[x]
                                          \/ retry_list'[x] = e
          BY <3>1, AppendEffect
      <3> QED  BY <1>k, <2>1, <2>2, <3>1, <3>2 DEF Becomes
    <2> QED  BY <1>9, <2>3, <2>4, WdogQueue
  <1>10. ASSUME NEW t \in Agents, _notify_slurmctld_nodes(t)
         PROVE  PingNodes'
    <2>1. UNCHANGED <<msg_type, retry_list>>  BY <1>10 DEF _notify_slurmctld_nodes
    <2> QED  BY <1>10, <1>b, <2>1, NotifyEffect
  <1>11. ASSUME NEW t \in Agents, agent_cleanup(t)
         PROVE  PingNodes'
    <2>1. UNCHANGED <<msg_type, retry_list>> /\ agents' = wake(t)
        BY <1>11 DEF agent_cleanup
    <2> QED  BY <1>k, <2>1, WakeEffect, IdlePc
  <1>12. ASSUME NEW t \in Agents, NEW g \in SUBSET Nodes, start_thread(t, g)
         PROVE  PingNodes'
    <2>1. UNCHANGED <<msg_type, retry_list>>  BY <1>12 DEF start_thread
    <2> QED  BY <1>12, <1>b, <2>1, StartEffect
  <1>13. ASSUME NEW t \in Agents, NEW g \in SUBSET Nodes, _thread_per_group_rpc(t, g)
         PROVE  PingNodes'
    <2>1. UNCHANGED <<msg_type, retry_list>>  BY <1>13 DEF _thread_per_group_rpc
    <2> QED  BY <1>13, <1>b, <2>1, ThreadEffect
  <1> QED  BY StepCases, <1>2, <1>3, <1>4, <1>5, <1>6, <1>7, <1>8, <1>9, <1>10, <1>11, <1>12, <1>13

\* A request is in the queue, or with an agent that has not reported it.
Busy(r) ==
  \/ \E i \in DOMAIN retry_list : retry_list[i].req = r
  \/ \E t \in Agents : agents[t].pc \in {"start", "wait", "run", "notify"} /\ agents[t].req = r
Pinged == {r \in Requests : msg_type[r] = "ping" /\ Busy(r)}

\* PingsCounted in these terms.
LEMMA PingedFacts ==
  /\ IsFiniteSet(Pinged) /\ Cardinality(Pinged) \in Nat
  /\ PingsCounted <=> (~shutdown_time => ping_count = Cardinality(Pinged))
  <1>1. Pinged \subseteq Requests  BY DEF Pinged
  <1>2. IsFiniteSet(Pinged) /\ Cardinality(Pinged) \in Nat
      BY <1>1, AgentAssumption, FS_Subset, FS_CardinalityType DEF AgentAssumption
  <1> QED  BY <1>2 DEF PingsCounted, Pinged, Busy

\* Every step counts the pings.
LEMMA PingsStep ==
  ASSUME TypeOK, OneHolder, PingNodes, PingsCounted, Next
  PROVE  PingsCounted'
  \* The same after a step.
  <1>PingedNext. ASSUME ~shutdown_time' => ping_count' = Cardinality(Pinged')
                 PROVE  PingsCounted'
    BY <1>PingedNext DEF PingsCounted, Pinged, Busy
  \* A step after which the same pings are outstanding.
  <1>PingsKept. ASSUME UNCHANGED <<msg_type, ping_count>>, shutdown_time => shutdown_time',
                       \A q \in Requests : msg_type[q] = "ping" => (Busy(q)' <=> Busy(q))
                PROVE  PingsCounted'
    <2> USE <1>PingsKept
    <2>1. Pinged' = Pinged
        BY DEF Pinged
    <2> QED  BY <2>1, PingedFacts, <1>PingedNext
  \* One agent goes on with its request and the queue stays: the request is busy
  \* as before, or no longer if the agent has reported it.
  <1>BusyBecomes. ASSUME UNCHANGED <<retry_list, msg_type>>, NEW t \in Agents, NEW b \in AgentStates,
                         Becomes(t, b), agents[t].pc \in {"start", "run", "notify"}, b.req = agents[t].req, NEW q \in Requests
                  PROVE  /\ b.pc # "cleanup" \/ q # agents[t].req => (Busy(q)' <=> Busy(q))
                         /\ b.pc = "cleanup" /\ q = agents[t].req /\ msg_type[q] = "ping" => ~Busy(q)' /\ Busy(q)
    <2> USE <1>BusyBecomes
    <2>1. b.pc \in {"start", "wait", "run", "notify", "cleanup"}
        BY StateFields DEF Pcs
    <2>2. agents'[t] = b /\ \A u \in Agents \ {t} : agents'[u] = agents[u]
        BY DEF Becomes
    <2>3. ASSUME b.pc # "cleanup" \/ q # agents[t].req
          PROVE  Busy(q)' <=> Busy(q)
        BY <2>1, <2>2, <2>3 DEF Busy
    <2>4. ASSUME b.pc = "cleanup", q = agents[t].req, msg_type[q] = "ping"
          PROVE  ~Busy(q)' /\ Busy(q)
      <3>1. Holding(t)
          BY <2>4 DEF Holding
      <3>2. \A i \in DOMAIN retry_list : retry_list[i].req # q
          BY <2>4, <3>1 DEF OneHolder
      <3>3. \A u \in Agents \ {t} : agents[u].pc \in {"start", "wait", "run", "notify"} => agents[u].req # q
        <4> SUFFICES ASSUME NEW u \in Agents \ {t}, agents[u].pc \in {"start", "wait", "run", "notify"},
                            agents[u].req = q
                     PROVE  FALSE
            OBVIOUS
        <4>1. Holding(u)  BY <2>4 DEF Holding
        <4> QED  BY <2>4, <3>1, <4>1 DEF OneHolder
      <3> QED  BY <2>2, <2>4, <3>2, <3>3, SMT DEF Busy
    <2> QED  BY <2>3, <2>4
  \* A ping is counted when it is made.
  <1>PingsRequest. ASSUME NEW r \in Requests, NEW type \in Types, agent_queue_request(r, type)
                   PROVE  PingsCounted'
    <2> USE <1>PingsRequest
    <2>1. /\ msg_type[r] = "none" /\ msg_type'[r] = type /\ \A q \in Requests \ {r} : msg_type'[q] = msg_type[q]
          /\ ~shutdown_time /\ ~shutdown_time'
          /\ ping_count' = IF type = "ping" THEN ping_count + 1 ELSE ping_count
        BY RequestEffect, SMT DEF TypeOK
    <2>2. /\ \A q \in Requests \ {r} : Busy(q)' <=> Busy(q)
          /\ type = "ping" => Busy(r)'
      <3>1. CASE UNCHANGED agents /\ \E e \in Entries : retry_list' = Append(retry_list, e) /\ e.req = r
        <4>1. PICK e \in Entries : retry_list' = Append(retry_list, e) /\ e.req = r
            BY <3>1
        <4>2. PICK last : last = Len(retry_list) + 1  OBVIOUS
        <4>d. /\ retry_list'[last] = e /\ last \in 1 .. Len(retry_list) + 1
              /\ DOMAIN retry_list' = 1 .. Len(retry_list) + 1
            BY <4>1, <4>2, QueueFields, AppendEffect, SMT
        <4>3. /\ last \in DOMAIN retry_list' /\ retry_list'[last].req = r
              /\ \A i \in DOMAIN retry_list : i \in DOMAIN retry_list' /\ retry_list'[i] = retry_list[i]
              /\ \A i \in DOMAIN retry_list' : i \in DOMAIN retry_list \/ i = last
            BY <4>1, <4>2, <4>d, AppendEffect
        <4> QED  BY <3>1, <4>3 DEF Busy
      <3>2. CASE /\ UNCHANGED retry_list /\ type = "shutdown" /\ spawn(r, NodeList[type])
                 /\ NodeList[type] \in SUBSET Nodes
        <4>n. PICK nodes \in SUBSET Nodes : spawn(r, nodes)  BY <3>2
        <4>1. PICK t \in Agents, b \in AgentStates : agents[t].pc = "idle" /\ Becomes(t, b) /\ b.req = r
            BY <4>n, SpawnEffect, SMT
        <4> QED  BY <3>2, <4>1, SMT DEF Busy, Becomes
      <3> QED  BY <3>1, <3>2, RequestEffect, SMT
    <2>3. ping_count = Cardinality(Pinged) /\ IsFiniteSet(Pinged) /\ Cardinality(Pinged) \in Nat /\ r \notin Pinged
        BY <2>1, PingedFacts DEF Pinged
    <2>4. CASE type = "ping"
      <3>1. Pinged' = Pinged \cup {r}
          BY <2>1, <2>2, <2>4 DEF Pinged
      <3> QED  BY <2>1, <2>3, <2>4, <3>1, FS_AddElement, <1>PingedNext
    <2>5. CASE type # "ping"
      <3>1. Pinged' = Pinged
          BY <2>1, <2>2, <2>5 DEF Pinged
      <3> QED  BY <2>1, <2>3, <2>5, <3>1, <1>PingedNext
    <2> QED  BY <2>4, <2>5
  \* A ping is no longer counted when its agent reports.
  <1>PingsNotify. ASSUME NEW t \in Agents, _notify_slurmctld_nodes(t)
                  PROVE  PingsCounted'
    <2> USE <1>PingsNotify
    <2>1. /\ UNCHANGED <<retry_list, msg_type, shutdown_time>>
          /\ ping_count' = IF msg_type[agents[t].req] = "ping" THEN Max({0, ping_count - 1}) ELSE ping_count
        BY DEF _notify_slurmctld_nodes, queue
    <2>2. PICK b \in AgentStates : Becomes(t, b) /\ b.pc = "cleanup" /\ b.req = agents[t].req
        BY NotifyEffect
    <2>3. agents[t].pc = "notify" /\ agents[t].req \in Requests
        BY NotifyEffect, StateFields
    <2>4. \A q \in Requests : /\ q # agents[t].req => (Busy(q)' <=> Busy(q))
                              /\ q = agents[t].req /\ msg_type[q] = "ping" => ~Busy(q)' /\ Busy(q)
        BY <2>1, <2>2, <2>3, <1>BusyBecomes
    <2>5. CASE msg_type[agents[t].req] # "ping"
        BY <2>1, <2>4, <2>5, <1>PingsKept
    <2>6. CASE msg_type[agents[t].req] = "ping"
      <3>1. PICK r \in Requests : r = agents[t].req  BY <2>3
      <3>2. r \in Pinged /\ Pinged' = Pinged \ {r}
          BY <2>1, <2>4, <2>6, <3>1 DEF Pinged
      <3>3. IsFiniteSet(Pinged) /\ Cardinality(Pinged) \in Nat  BY PingedFacts
      <3>4. Cardinality(Pinged') = Cardinality(Pinged) - 1
          BY <3>2, <3>3, FS_RemoveElement
      <3>5. Cardinality(Pinged') \in Nat
          BY <3>2, <3>3, FS_RemoveElement, FS_CardinalityType
      <3>6. ASSUME ~shutdown_time'  PROVE ping_count' = Cardinality(Pinged')
        <4>1. ping_count = Cardinality(Pinged)
            BY <2>1, <3>6, PingedFacts
        <4>2. PICK k \in Nat : k = Cardinality(Pinged')  BY <3>5
        <4>3. Max({0, ping_count - 1}) = Max({0, k})
            BY <3>4, <4>1, <4>2
        <4>4. Max({0, k}) = k  BY <4>2, MaxPair, SMT
        <4> QED  BY <2>1, <2>6, <4>2, <4>3, <4>4
      <3> QED  BY <3>6, <1>PingedNext
    <2> QED  BY <2>5, <2>6
  \* A ping that goes from the queue to an agent stays outstanding.
  <1>PingsRetry. ASSUME _agent_retry
                 PROVE  PingsCounted'
    <2> USE <1>PingsRetry
    <2>1. /\ UNCHANGED <<msg_type, ping_count, shutdown_time>>
          /\ RetryFull \/ RetryTakes \/ RetryFinds
        BY RetryEffect DEF cluster
    <2>2. CASE RetryFull
        BY <2>1, <2>2, <1>PingsKept DEF RetryFull, Busy
    <2>3. CASE RetryFinds
      <3>1. PICK old : Renumbered(old, 0)  BY <2>3 DEF RetryFinds
      <3>2. 0 \notin DOMAIN retry_list  BY QueueFields, SMT
      <3>3. /\ \A x \in DOMAIN retry_list' : \E i \in DOMAIN retry_list : retry_list'[x].req = retry_list[i].req
            /\ \A i \in DOMAIN retry_list : msg_type[retry_list[i].req] = "ping" =>
                 \E x \in DOMAIN retry_list' : retry_list'[x].req = retry_list[i].req
          BY <3>1, <3>2, SMT DEF Renumbered
      <3>4. \A q \in Requests : msg_type[q] = "ping" => (Busy(q)' <=> Busy(q))
          BY <2>3, <3>3, SMT DEF Busy, RetryFinds
      <3> QED  BY <2>1, <3>4, <1>PingsKept
    <2>4. CASE RetryTakes
      <3>1. PICK i \in DOMAIN retry_list :
              spawn(retry_list[i].req, retry_list[i].nodes) /\ \E old : Renumbered(old, i)
          BY <2>4 DEF RetryTakes
      <3>2. PICK old : Renumbered(old, i)  BY <3>1
      <3>3. PICK t \in Agents, b \in AgentStates :
              agents[t].pc = "idle" /\ Becomes(t, b) /\ b.pc = "start" /\ b.req = retry_list[i].req
          BY <3>1, QueueFields, SpawnEffect, SMT
      <3>4. /\ \A x \in DOMAIN retry_list' : \E k \in DOMAIN retry_list : retry_list'[x].req = retry_list[k].req
            /\ \A k \in DOMAIN retry_list : k # i /\ msg_type[retry_list[k].req] = "ping" =>
                 \E x \in DOMAIN retry_list' : retry_list'[x].req = retry_list[k].req
          BY <3>2, SMT DEF Renumbered
      <3>5. /\ agents'[t].pc = "start" /\ agents'[t].req = retry_list[i].req /\ agents[t].pc = "idle"
            /\ \A u \in Agents \ {t} : agents'[u] = agents[u]
          BY <3>3 DEF Becomes
      <3>6. ASSUME NEW q \in Requests, msg_type[q] = "ping", Busy(q)
            PROVE  Busy(q)'
          BY <3>4, <3>5, <3>6 DEF Busy
      <3>7. ASSUME NEW q \in Requests, Busy(q)'
            PROVE  Busy(q)
          BY <3>1, <3>4, <3>5, <3>7, SMT DEF Busy
      <3> QED  BY <2>1, <3>6, <3>7, <1>PingsKept
    <2> QED  BY <2>1, <2>2, <2>3, <2>4
  <1> USE DEF queue, counts, cluster
  <1>u. ASSUME UNCHANGED <<retry_list, agents, msg_type, ping_count>>, shutdown_time => shutdown_time'
        PROVE  PingsCounted'
      BY <1>u, <1>PingsKept DEF Busy
  <1>b. ASSUME UNCHANGED <<retry_list, msg_type, ping_count, shutdown_time>>, NEW t \in Agents,
               NEW b \in AgentStates, Becomes(t, b), agents[t].pc \in {"start", "run", "notify"},
               b.req = agents[t].req, b.pc # "cleanup" \/ msg_type[agents[t].req] # "ping"
        PROVE  PingsCounted'
    <2>1. \A q \in Requests : b.pc # "cleanup" \/ q # agents[t].req => (Busy(q)' <=> Busy(q))
        BY <1>b, <1>BusyBecomes
    <2> QED  BY <1>b, <2>1, <1>PingsKept
  <1>d. ASSUME shutdown_time' PROVE PingsCounted'
      BY <1>d DEF PingsCounted
  <1>3. ASSUME NEW r \in Requests, prolog_complete(r) \/ job_complete(r)
        PROVE  PingsCounted'
      BY <1>3, <1>u DEF prolog_complete, job_complete
  <1>4. ASSUME NEW r \in Requests, grow_old(r) \/ resume_timeout(r)
        PROVE  PingsCounted'
      BY <1>4, <1>PingsKept, AgedEffect DEF Busy
  <1>5. CASE mail_job_info \/ background \/ agent_init \/ send_mail \/ _mail_proc
      BY <1>u, <1>5 DEF mail_job_info, background, agent_init, send_mail, _mail_proc
  <1>6. CASE shutdown \/ agent_purge
      BY <1>d, <1>6, SMT DEF agent_purge, shutdown
  <1>7. ASSUME NEW t \in Agents, agent_begin(t)
        PROVE  PingsCounted'
    <2>1. UNCHANGED <<retry_list, msg_type, ping_count, shutdown_time>>  BY <1>7 DEF agent_begin
    <2>2. PICK b \in AgentStates :
            /\ Becomes(t, b) /\ b.req = agents[t].req
            /\ b.pc = "cleanup" => (shutdown_time \/ DOMAIN agents[t].res = {})
        BY <1>7, BeginEffect
    <2>3. agents[t].pc = "start"
        BY <1>7, BeginEffect
    <2>4. shutdown_time \/ b.pc # "cleanup" \/ msg_type[agents[t].req] # "ping"
        BY <2>2, <2>3 DEF PingNodes
    <2> QED  BY <1>b, <1>d, <2>1, <2>2, <2>3, <2>4
  <1>8. ASSUME NEW t \in Agents, _wdog(t)
        PROVE  PingsCounted'
    <2>1. UNCHANGED <<msg_type, ping_count, shutdown_time>>  BY <1>8 DEF _wdog
    <2>2. PICK b \in AgentStates : Becomes(t, b) /\ b.pc = "notify" /\ b.req = agents[t].req
        BY <1>8, WdogEffect
    <2>3. agents[t].pc = "run"  BY <1>8, WdogEffect
    <2>4. CASE UNCHANGED retry_list  BY <1>b, <2>1, <2>2, <2>3, <2>4
    <2>5. CASE \E e \in Entries : /\ retry_list' = Append(retry_list, e)
                                  /\ e.req = agents[t].req /\ msg_type[agents[t].req] = "signal"
      <3>1. PICK e \in Entries : retry_list' = Append(retry_list, e) /\ msg_type[e.req] = "signal"
          BY <2>5
      <3>2. /\ \A x \in DOMAIN retry_list' : \/ x \in DOMAIN retry_list /\ retry_list'[x] = retry_list[x]
                                             \/ retry_list'[x] = e
            /\ \A x \in DOMAIN retry_list : x \in DOMAIN retry_list' /\ retry_list'[x] = retry_list[x]
          BY <3>1, AppendEffect
      <3>3. \A q \in Requests : msg_type[q] = "ping" =>
              ((\E i \in DOMAIN retry_list' : retry_list'[i].req = q)
                <=> (\E i \in DOMAIN retry_list : retry_list[i].req = q))
          BY <3>1, <3>2
      <3>4. \A q \in Requests : msg_type[q] = "ping" => (Busy(q)' <=> Busy(q))
          BY <2>2, <2>3, <3>3, SMT DEF Busy, Becomes
      <3> QED  BY <2>1, <3>4, <1>PingsKept
    <2> QED  BY <1>8, <2>4, <2>5, WdogQueue
  <1>9. ASSUME NEW t \in Agents, agent_cleanup(t)
         PROVE  PingsCounted'
    <2>1. UNCHANGED <<msg_type, retry_list, ping_count, shutdown_time>> /\ agents' = wake(t)
          /\ agents[t].pc = "cleanup"
        BY <1>9 DEF agent_cleanup
    <2>2. \A u \in Agents : /\ agents'[u].pc \in {"start", "wait", "run", "notify"}
                               <=> agents[u].pc \in {"start", "wait", "run", "notify"}
                            /\ agents[u].pc \in {"start", "wait", "run", "notify"}
                                => agents'[u].req = agents[u].req
        BY <2>1, WakeEffect, IdlePc
    <2>3. \A q \in Requests : Busy(q)' <=> Busy(q)
        BY <2>1, <2>2 DEF Busy
    <2> QED  BY <2>1, <2>3, <1>PingsKept
  <1>10. ASSUME NEW t \in Agents, NEW g \in SUBSET Nodes, start_thread(t, g)
         PROVE  PingsCounted'
    <2>1. UNCHANGED <<retry_list, msg_type, ping_count, shutdown_time>>  BY <1>10 DEF start_thread
    <2> QED  BY <1>10, <1>b, <2>1, StartEffect
  <1>11. ASSUME NEW t \in Agents, NEW g \in SUBSET Nodes, _thread_per_group_rpc(t, g)
         PROVE  PingsCounted'
    <2>1. UNCHANGED <<retry_list, msg_type, ping_count, shutdown_time>>
        BY <1>11 DEF _thread_per_group_rpc
    <2> QED  BY <1>11, <1>b, <2>1, ThreadEffect
  <1> QED  BY StepCases, <1>3, <1>4, <1>5, <1>6, <1>7, <1>8, <1>9, <1>10, <1>11,
              <1>PingsRequest, <1>PingsNotify, <1>PingsRetry

-----------------------------------------------------------------------------
(* Nobody is forgotten                                                     *)

\* The two parts of NobodyForgotten.
NoRoom ==
  \A t \in Agents :
    agents[t].pc = "wait" /\ agent_thread_cnt + rpc_thread_cnt(agents[t]) <= MAX_SERVER_THREADS
      => mail_ended
Untried == \E i \in DOMAIN retry_list : retry_list[i].age = 0 /\ msg_type[retry_list[i].req] # "launch"
Served ==
  \/ pending_wait_time # NO_VAL16 \/ retry_thread.pc = "retry"
  \/ \E t \in Agents : agents[t].pc \notin {"idle", "wait"}
  \/ mail_procs > 0 \/ mail_ended \/ shutdown_time

\* NobodyForgotten is their conjunction.
LEMMA ForgottenParts == NobodyForgotten <=> NoRoom /\ (Untried => Served)
  BY DEF NobodyForgotten, NoRoom, Untried, Served

\* Threads that are in use belong to a counted agent or to a mail process.
LEMMA InUse == TypeOK /\ ThreadsCounted /\ agent_thread_cnt > 0 => mail_procs > 0 \/ Counted # {}
  <1> SUFFICES ASSUME TypeOK, ThreadsCounted, agent_thread_cnt > 0, Counted = {}
               PROVE  mail_procs > 0
      OBVIOUS
  <1>1. {ThreadsOf(t) : t \in Counted} = {}  OBVIOUS
  <1>2. UNION {ThreadsOf(t) : t \in Counted} = {}  BY <1>1
  <1>3. Cardinality(UNION {ThreadsOf(t) : t \in Counted}) = 0
      BY <1>2, FS_EmptySet
  <1> QED  BY <1>3, SMT DEF ThreadsCounted, TypeOK

\* Every step leaves an agent waiting only while there is no room.
LEMMA NoRoomStep ==
  ASSUME TypeOK, NoRoom, Next
  PROVE  NoRoom'
  <1> USE DEF queue, counts, cluster
  <1>t. agent_thread_cnt \in Nat /\ MAX_SERVER_THREADS \in Nat
      BY AgentAssumption DEF TypeOK, AgentAssumption
  <1>k. ASSUME NEW n \in Nat, agent_thread_cnt' = agent_thread_cnt + n, UNCHANGED mail_ended,
               \A t \in Agents : agents'[t].pc = "wait" => agents'[t] = agents[t]
        PROVE  NoRoom'
    <2>1. ASSUME NEW t \in Agents, agents'[t].pc = "wait",
                 agent_thread_cnt' + rpc_thread_cnt(agents'[t]) <= MAX_SERVER_THREADS
          PROVE  mail_ended'
      <3>1. agents'[t] = agents[t] /\ agents[t].pc = "wait"  BY <1>k, <2>1
      <3>2. PICK c \in Nat : c = rpc_thread_cnt(agents[t])
          BY <3>1, NotIdle, ThreadCount
      <3>3. agent_thread_cnt + c <= MAX_SERVER_THREADS
          BY <1>k, <1>t, <2>1, <3>1, <3>2, SMT
      <3> QED  BY <1>k, <3>1, <3>2, <3>3 DEF NoRoom
    <2> QED  BY <2>1 DEF NoRoom
  <1>u. ASSUME UNCHANGED <<agents, agent_thread_cnt, mail_ended>>
        PROVE  NoRoom'
      BY <1>u DEF NoRoom
  <1>b. ASSUME UNCHANGED <<agent_thread_cnt, mail_ended>>, NEW t \in Agents, NEW b, Becomes(t, b), b.pc # "wait"
        PROVE  NoRoom'
    <2>1. \A u \in Agents : agents'[u].pc = "wait" => agents'[u] = agents[u]
        BY <1>b DEF Becomes
    <2>2. 0 \in Nat /\ agent_thread_cnt' = agent_thread_cnt + 0
        BY <1>b, <1>t, SMT
    <2> QED  BY <1>b, <1>k, <2>1, <2>2
  <1>s. ASSUME UNCHANGED <<agent_thread_cnt, mail_ended>>, NEW r \in Requests, NEW nodes \in SUBSET Nodes,
               spawn(r, nodes)
        PROVE  NoRoom'
    <2>1. PICK t \in Agents, b \in AgentStates : Becomes(t, b) /\ b.pc = "start"
        BY <1>s, SpawnEffect, SMT
    <2>2. b.pc # "wait"  BY <2>1
    <2> QED  BY <1>b, <1>s, <2>1, <2>2
  <1>2. ASSUME NEW r \in Requests, NEW type \in Types, agent_queue_request(r, type)
        PROVE  NoRoom'
    <2>1. UNCHANGED <<agent_thread_cnt, mail_ended>>  BY <1>2 DEF agent_queue_request
    <2> QED  BY <1>2, <1>s, <1>u, <2>1, RequestEffect
  <1>3. ASSUME NEW r \in Requests, \/ prolog_complete(r) \/ job_complete(r)
                                   \/ grow_old(r) \/ resume_timeout(r)
        PROVE  NoRoom'
      BY <1>3, <1>u DEF prolog_complete, job_complete, grow_old, resume_timeout
  <1>4. CASE mail_job_info \/ background \/ agent_init \/ shutdown \/ agent_purge
      BY <1>u, <1>4 DEF mail_job_info, background, agent_init, shutdown, agent_purge
  <1>5. CASE send_mail
      BY <1>5, <1>k, MailEffect
  <1>6. CASE _mail_proc
      BY <1>6 DEF _mail_proc, NoRoom
  <1>7. CASE _agent_retry
    <2>1. UNCHANGED <<agent_thread_cnt, mail_ended>>  BY <1>7 DEF _agent_retry
    <2> QED  BY <1>7, <1>s, <1>u, <2>1, RetryEffect, QueueFields DEF RetryFull, RetryTakes, RetryFinds
  <1>8. ASSUME NEW t \in Agents, agent_begin(t)
        PROVE  NoRoom'
    <2> DEFINE a == agents[t]
               room == shutdown_time \/ agent_thread_cnt + rpc_thread_cnt(a) <= MAX_SERVER_THREADS
    <2>1. PICK b \in AgentStates : /\ Becomes(t, b) /\ b.res = a.res
                                   /\ b.pc = "wait" <=> ~room
        BY <1>8, BeginEffect
    <2>2. agents'[t] = b /\ \A u \in Agents \ {t} : agents'[u] = agents[u]
        BY <2>1 DEF Becomes
    <2>3. a \in AgentStates /\ UNCHANGED mail_ended
        BY <1>8, BeginEffect DEF agent_begin
    <2>4. CASE room
      <3>1. agent_thread_cnt' = agent_thread_cnt + rpc_thread_cnt(a)
          BY <1>8, <2>4 DEF agent_begin
      <3>2. \A u \in Agents : agents'[u].pc = "wait" => agents'[u] = agents[u]
          BY <2>1, <2>2, <2>4
      <3> QED  BY <1>k, <2>3, <3>1, <3>2, ThreadCount
    <2>5. CASE ~room
      <3>1. UNCHANGED agent_thread_cnt
          BY <1>8, <2>5 DEF agent_begin
      <3>2. rpc_thread_cnt(b) = rpc_thread_cnt(a)
          BY <2>1 DEF rpc_thread_cnt
      <3> QED  BY <2>2, <2>3, <2>5, <3>1, <3>2 DEF NoRoom
    <2> QED  BY <2>4, <2>5
  <1>9. ASSUME NEW t \in Agents, _wdog(t)
        PROVE  NoRoom'
    <2>1. UNCHANGED <<agent_thread_cnt, mail_ended>>  BY <1>9 DEF _wdog
    <2> QED  BY <1>9, <1>b, <2>1, WdogEffect
  <1>10. ASSUME NEW t \in Agents, _notify_slurmctld_nodes(t)
         PROVE  NoRoom'
    <2>1. UNCHANGED <<agent_thread_cnt, mail_ended>>  BY <1>10 DEF _notify_slurmctld_nodes
    <2> QED  BY <1>10, <1>b, <2>1, NotifyEffect
  <1>11. ASSUME NEW t \in Agents, agent_cleanup(t)
         PROVE  NoRoom'
    <2>1. \A u \in Agents : agents'[u].pc # "wait"
        BY <1>11, WakeEffect, IdlePc DEF agent_cleanup
    <2> QED  BY <2>1 DEF NoRoom
  <1>12. ASSUME NEW t \in Agents, NEW g \in SUBSET Nodes, start_thread(t, g)
         PROVE  NoRoom'
    <2>1. UNCHANGED <<agent_thread_cnt, mail_ended>>  BY <1>12 DEF start_thread
    <2> QED  BY <1>12, <1>b, <2>1, StartEffect
  <1>13. ASSUME NEW t \in Agents, NEW g \in SUBSET Nodes, _thread_per_group_rpc(t, g)
         PROVE  NoRoom'
    <2>1. UNCHANGED <<agent_thread_cnt, mail_ended>>  BY <1>13 DEF _thread_per_group_rpc
    <2> QED  BY <1>13, <1>b, <2>1, ThreadEffect
  <1> QED  BY StepCases, <1>2, <1>3, <1>4, <1>5, <1>6, <1>7, <1>8, <1>9, <1>10, <1>11, <1>12, <1>13

\* Every step leaves somebody who will look at an untried request.
LEMMA ServedStep ==
  ASSUME TypeOK, TypeOK', ThreadsCounted, ThreadsCounted', Untried => Served, Next
  PROVE  Untried' => Served'
  \* The same after a step.
  <1>InUseNext. TypeOK' /\ ThreadsCounted' /\ (agent_thread_cnt > 0)' => (mail_procs > 0)' \/ (Counted # {})'
    BY InUse, PTL
  <1> USE DEF queue, counts, cluster
  <1>t. /\ agent_thread_cnt \in Nat /\ MAX_SERVER_THREADS \in Nat /\ AGENT_THREAD_COUNT \in Nat
        /\ AGENT_THREAD_COUNT + 2 < MAX_SERVER_THREADS
      BY AgentAssumption DEF TypeOK, AgentAssumption
  <1>a. ASSUME NEW t \in Agents, agents'[t].pc \notin {"idle", "wait"}
        PROVE  Served'
      BY <1>a DEF Served
  <1>b. ASSUME NEW t \in Agents, NEW b, Becomes(t, b), b.pc \notin {"idle", "wait"}
        PROVE  Served'
      BY <1>a, <1>b DEF Becomes
  <1>s. ASSUME NEW r \in Requests, NEW nodes \in SUBSET Nodes, spawn(r, nodes)
        PROVE  Served'
    <2>1. PICK t \in Agents, b \in AgentStates : Becomes(t, b) /\ b.pc = "start"
        BY <1>s, SpawnEffect, SMT
    <2>2. b.pc \notin {"idle", "wait"}  BY <2>1
    <2> QED  BY <1>b, <2>1, <2>2
  <1>u. ASSUME UNCHANGED <<retry_list, agents, msg_type, pending_wait_time, retry_thread, mail_procs, mail_ended,
                           shutdown_time>>
        PROVE  Untried' => Served'
      BY <1>u DEF Untried, Served
  <1>i. ASSUME agent_thread_cnt > 0, UNCHANGED <<agents, mail_procs>>
        PROVE  Served'
    <2>1. CASE mail_procs > 0  BY <1>i, <2>1 DEF Served
    <2>2. CASE Counted # {}
      <3>1. PICK u \in Agents : agents[u].pc \in {"run", "notify", "cleanup"}
          BY <2>2 DEF Counted
      <3>2. agents'[u].pc \notin {"idle", "wait"}  BY <1>i, <3>1
      <3> QED  BY <1>a, <3>2
    <2> QED  BY <1>i, <2>1, <2>2, InUse
  <1>2. ASSUME NEW r \in Requests, NEW type \in Types, agent_queue_request(r, type)
        PROVE  Untried' => Served'
    <2>1. CASE pending_wait_time' \in {RPC_RETRY_INTERVAL, QUEUE_INTERVAL}
        BY <2>1, SMT DEF Served, RPC_RETRY_INTERVAL, QUEUE_INTERVAL, NO_VAL16
    <2> QED  BY <1>2, <1>s, <2>1, RequestEffect
  <1>3. ASSUME NEW r \in Requests, prolog_complete(r) \/ job_complete(r)
        PROVE  Untried' => Served'
      BY <1>3, <1>u DEF prolog_complete, job_complete
  <1>4. ASSUME NEW r \in Requests, grow_old(r) \/ resume_timeout(r)
        PROVE  Untried' => Served'
    <2>1. Untried' => Untried
        BY <1>4, AgedEffect DEF Untried
    <2>2. Served => Served'
        BY <1>4, AgedEffect DEF Served
    <2> QED  BY <2>1, <2>2
  <1>5. CASE mail_job_info
      BY <1>u, <1>5 DEF mail_job_info
  <1>6. CASE background
      BY <1>6, TriggerEffect, SMT DEF background, Served, RPC_RETRY_INTERVAL, NO_VAL16
  <1>7. CASE agent_init
    <2>1. CASE shutdown_time
        BY <1>7, <2>1 DEF agent_init, Served
    <2>2. CASE ~shutdown_time
      <3>1. retry_thread'.pc = "retry"
          BY <1>7, <2>2, SMT DEF agent_init
      <3> QED  BY <3>1 DEF Served
    <2> QED  BY <2>1, <2>2
  <1>8. CASE _agent_retry
    <2>1. UNCHANGED <<msg_type, mail_procs>> /\ (RetryFull \/ RetryTakes \/ RetryFinds)
        BY <1>8, RetryEffect
    <2>2. CASE RetryFull
      <3>1. agent_thread_cnt > 0  BY <1>t, <2>2, SMT DEF RetryFull
      <3> QED  BY <1>i, <2>1, <2>2, <3>1 DEF RetryFull
    <2>3. CASE RetryTakes
        BY <1>s, <2>3, QueueFields DEF RetryTakes
    <2>4. CASE RetryFinds
      <3>1. PICK old : Renumbered(old, 0)  BY <2>4 DEF RetryFinds
      <3>2. \A x \in DOMAIN retry_list' : retry_list'[x].age = 0 => msg_type[retry_list'[x].req] = "launch"
          BY <2>4, <3>1, SMT DEF RetryFinds, Renumbered
      <3> QED  BY <2>1, <3>2 DEF Untried
    <2> QED  BY <2>1, <2>2, <2>3, <2>4
  <1>9. CASE send_mail
    <2>1. PICK n \in Nat : /\ mail_procs' = mail_procs + n /\ retry_thread.pc = "mail"
                           /\ UNCHANGED <<retry_list, agents, msg_type, pending_wait_time, mail_ended, shutdown_time>>
        BY <1>9, MailEffect
    <2>2. mail_procs > 0 => mail_procs' > 0
        BY <2>1, SMT DEF TypeOK
    <2>3. Served => Served'
        BY <2>1, <2>2 DEF Served
    <2> QED  BY <2>1, <2>3 DEF Untried
  <1>10. CASE _mail_proc
      BY <1>10 DEF _mail_proc, Served
  <1>11. CASE shutdown \/ agent_purge
      BY <1>11 DEF shutdown, agent_purge, Served
  <1>12. ASSUME NEW t \in Agents, agent_begin(t)
         PROVE  Served'
    <2>1. PICK b \in AgentStates :
            /\ Becomes(t, b) /\ b.pc \in {"cleanup", "run", "wait"}
            /\ b.pc = "wait" => ~(shutdown_time \/ agent_thread_cnt + rpc_thread_cnt(agents[t]) <= MAX_SERVER_THREADS)
        BY <1>12, BeginEffect
    <2>2. CASE b.pc # "wait"
        BY <1>b, <2>1, <2>2
    <2>3. CASE b.pc = "wait"
      <3>1. PICK c \in Nat : c = rpc_thread_cnt(agents[t]) /\ c =< AGENT_THREAD_COUNT + 2
          BY <1>12, BeginEffect, ThreadCount
      <3>2. agent_thread_cnt > 0
          BY <1>t, <2>1, <2>3, <3>1, SMT
      <3>3. CASE mail_procs > 0
          BY <1>12, <3>3 DEF agent_begin, Served
      <3>4. CASE Counted # {}
        <4>1. PICK u \in Agents : agents[u].pc \in {"run", "notify", "cleanup"}
            BY <3>4 DEF Counted
        <4>2. u # t  BY <1>12, <4>1 DEF agent_begin
        <4>3. agents'[u].pc \notin {"idle", "wait"}  BY <2>1, <4>1, <4>2 DEF Becomes
        <4> QED  BY <1>a, <4>3
      <3> QED  BY <3>2, <3>3, <3>4, InUse
    <2> QED  BY <2>2, <2>3
  <1>13. ASSUME NEW t \in Agents, _wdog(t)
         PROVE  Served'
      BY <1>13, <1>b, WdogEffect
  <1>14. ASSUME NEW t \in Agents, _notify_slurmctld_nodes(t)
         PROVE  Served'
      BY <1>14, <1>b, NotifyEffect
  <1>15. ASSUME NEW t \in Agents, agent_cleanup(t)
         PROVE  Served'
    <2>1. CASE agent_trigger(RPC_RETRY_INTERVAL, TRUE)
        BY <2>1, TriggerEffect, SMT DEF Served, RPC_RETRY_INTERVAL, NO_VAL16
    <2>2. CASE ~(agent_thread_cnt' + AGENT_THREAD_COUNT + 2 < MAX_SERVER_THREADS)
      <3>1. agent_thread_cnt' \in Nat  BY DEF TypeOK
      <3>2. agent_thread_cnt' > 0
        <4>1. PICK left \in Nat : left = agent_thread_cnt'  BY <3>1
        <4>2. ~(left + AGENT_THREAD_COUNT + 2 < MAX_SERVER_THREADS)  BY <2>2, <4>1
        <4>3. left > 0  BY <1>t, <4>2, SMT
        <4> QED  BY <4>1, <4>3
      <3>3. CASE mail_procs' > 0  BY <3>3 DEF Served
      <3>4. CASE Counted' # {}
        <4>1. PICK u \in Agents : agents'[u].pc \in {"run", "notify", "cleanup"}
            BY <3>4 DEF Counted
        <4> QED  BY <1>a, <4>1
      <3> QED  BY <3>2, <3>3, <3>4, <1>InUseNext
    <2> QED  BY <1>15, <2>1, <2>2 DEF agent_cleanup
  <1>16. ASSUME NEW t \in Agents, NEW g \in SUBSET Nodes, start_thread(t, g)
         PROVE  Served'
      BY <1>16, <1>b, StartEffect
  <1>17. ASSUME NEW t \in Agents, NEW g \in SUBSET Nodes, _thread_per_group_rpc(t, g)
         PROVE  Served'
      BY <1>17, <1>b, ThreadEffect
  <1> QED  BY StepCases, <1>2, <1>3, <1>4, <1>5, <1>6, <1>7, <1>8, <1>9, <1>10, <1>11, <1>12, <1>13,
              <1>14, <1>15, <1>16, <1>17

-----------------------------------------------------------------------------
(* Calls                                                                   *)

\* What CallsKept says of a step and of one call.
CallStep(r, n) ==
  /\ Pending(r, n) /\ ~Pending(r, n)' =>
       \/ shutdown_time
       \/ \E t \in InAgent(r, n) :
            \/ agents'[t].pc = "run" /\ agents'[t].res[n] = "done"
            \/ agents'[t].pc = "notify" /\ agents[t].res[n] = "noresp"
       \/ \E i \in InQueue(r, n) :
            msg_type[r] = "launch" /\ (job[r] = "gone" \/ retry_list[i].late)
  /\ ~Pending(r, n) /\ Pending(r, n)' => msg_type[r] = "none"

\* Agent t has the call of r to n to make.
Calls(a, r, n) ==
  /\ a.pc \in {"start", "wait", "run"} /\ a.req = r
  /\ n \in DOMAIN a.res /\ a.res[n] # "done"

\* No step forgets or revives a call.
LEMMA CallsStep ==
  ASSUME TypeOK, GroupsOK, NEW r, NEW n, Next
  PROVE  CallStep(r, n)
  \* Pending in terms of Calls.
  <1>PendingCalls. /\ Pending(r, n) <=> \/ \E i \in DOMAIN retry_list : retry_list[i].req = r /\ n \in retry_list[i].nodes
                                        \/ \E t \in Agents : Calls(agents[t], r, n)
                   /\ Pending(r, n)' <=> \/ \E i \in DOMAIN retry_list' : retry_list'[i].req = r /\ n \in retry_list'[i].nodes
                                         \/ \E t \in Agents : Calls(agents'[t], r, n)
                   /\ \A t \in Agents : Calls(agents[t], r, n) <=> t \in InAgent(r, n)
                   /\ \A i \in DOMAIN retry_list :
                        retry_list[i].req = r /\ n \in retry_list[i].nodes <=> i \in InQueue(r, n)
    BY DEF Pending, InQueue, InAgent, Calls
  \* The queue stays, and so do the calls of every agent.
  <1>CallsSame. ASSUME UNCHANGED retry_list,
                       \A t \in Agents : Calls(agents'[t], r, n) <=> Calls(agents[t], r, n)
                PROVE  CallStep(r, n)
    BY <1>CallsSame, <1>PendingCalls DEF CallStep
  \* The same when one agent goes on.
  <1>CallsBecomes. ASSUME UNCHANGED retry_list, NEW t \in Agents, NEW b, Becomes(t, b),
                          Calls(b, r, n) <=> Calls(agents[t], r, n)
                   PROVE  CallStep(r, n)
    <2> USE <1>CallsBecomes
    <2>1. \A u \in Agents : Calls(agents'[u], r, n) <=> Calls(agents[u], r, n)
        BY DEF Becomes
    <2> QED  BY <2>1, <1>CallsSame
  \* A new request makes its calls pending and keeps the others.
  <1>CallsRequest. ASSUME NEW q \in Requests, NEW type \in Types, agent_queue_request(q, type)
                   PROVE  CallStep(r, n)
    <2> USE <1>CallsRequest
    <2>1. msg_type[q] = "none"  BY RequestEffect
    <2>2. CASE UNCHANGED agents /\ \E e \in Entries : retry_list' = Append(retry_list, e) /\ e.req = q
      <3>1. PICK e \in Entries : retry_list' = Append(retry_list, e) /\ e.req = q
          BY <2>2
      <3>2. PICK last : last = Len(retry_list) + 1  OBVIOUS
      <3>3. /\ retry_list'[last].req = q
            /\ \A i \in DOMAIN retry_list : i \in DOMAIN retry_list' /\ retry_list'[i] = retry_list[i]
            /\ \A i \in DOMAIN retry_list' : i \in DOMAIN retry_list \/ i = last
          BY <3>1, <3>2, AppendEffect
      <3>4. Pending(r, n) => Pending(r, n)'
          BY <2>2, <3>3, <1>PendingCalls
      <3>5. r # q /\ Pending(r, n)' => Pending(r, n)
          BY <2>2, <3>3, <1>PendingCalls
      <3> QED  BY <2>1, <3>4, <3>5 DEF CallStep
    <2>3. CASE /\ UNCHANGED retry_list /\ type = "shutdown" /\ spawn(q, NodeList[type])
               /\ NodeList[type] \in SUBSET Nodes
      <3>1. PICK t \in Agents, b \in AgentStates : agents[t].pc = "idle" /\ Becomes(t, b) /\ b.req = q
          BY <2>3, SpawnEffect, SMT
      <3>2. \A u \in Agents : Calls(agents[u], r, n) => Calls(agents'[u], r, n)
          BY <3>1 DEF Becomes, Calls
      <3>3. r # q => \A u \in Agents : Calls(agents'[u], r, n) => Calls(agents[u], r, n)
          BY <3>1 DEF Becomes, Calls
      <3>4. Pending(r, n) => Pending(r, n)'
          BY <2>3, <3>2, <1>PendingCalls
      <3>5. r # q /\ Pending(r, n)' => Pending(r, n)
          BY <2>3, <3>3, <1>PendingCalls
      <3> QED  BY <2>1, <3>4, <3>5 DEF CallStep
    <2> QED  BY <2>2, <2>3, RequestEffect
  \* A search of the queue drops nothing but launches that are pointless.
  <1>CallsRetry. ASSUME _agent_retry
                 PROVE  CallStep(r, n)
    <2> USE <1>CallsRetry
    <2>1. RetryFull \/ RetryTakes \/ RetryFinds
        BY RetryEffect
    <2>2. CASE RetryFull
        BY <2>2, <1>CallsSame DEF RetryFull
    <2>k. ASSUME NEW i, NEW old, Renumbered(old, i)
          PROVE  /\ \A x \in DOMAIN retry_list' :
                      \E k \in DOMAIN retry_list : /\ retry_list'[x].req = retry_list[k].req
                                                   /\ retry_list'[x].nodes = retry_list[k].nodes
                 /\ \A k \in DOMAIN retry_list \ {i} :
                      \/ \E x \in DOMAIN retry_list' : /\ retry_list'[x].req = retry_list[k].req
                                                       /\ retry_list'[x].nodes = retry_list[k].nodes
                      \/ /\ msg_type[retry_list[k].req] = "launch"
                         /\ job[retry_list[k].req] = "gone" \/ retry_list[k].late
        BY <2>k, SMT DEF Renumbered
    <2>3. CASE RetryFinds
      <3>1. PICK old : Renumbered(old, 0)  BY <2>3 DEF RetryFinds
      <3>2. 0 \notin DOMAIN retry_list /\ UNCHANGED agents  BY <2>3, QueueFields, SMT DEF RetryFinds
      <3>3. Pending(r, n)' => Pending(r, n)
          BY <2>k, <3>1, <3>2, <1>PendingCalls
      <3>4. ASSUME Pending(r, n), ~Pending(r, n)'
            PROVE  \E i \in InQueue(r, n) : msg_type[r] = "launch" /\ (job[r] = "gone" \/ retry_list[i].late)
        <4>1. PICK k \in DOMAIN retry_list : retry_list[k].req = r /\ n \in retry_list[k].nodes
            BY <3>2, <3>4, <1>PendingCalls
        <4>2. msg_type[r] = "launch" /\ (job[r] = "gone" \/ retry_list[k].late)
          <5>1. ~\E x \in DOMAIN retry_list' : retry_list'[x].req = r /\ n \in retry_list'[x].nodes
              BY <3>4, <1>PendingCalls
          <5>2. k \in DOMAIN retry_list \ {0}  BY <3>2
          <5>3. \/ \E x \in DOMAIN retry_list' : /\ retry_list'[x].req = retry_list[k].req
                                                 /\ retry_list'[x].nodes = retry_list[k].nodes
                \/ /\ msg_type[retry_list[k].req] = "launch"
                   /\ job[retry_list[k].req] = "gone" \/ retry_list[k].late
              BY <2>k, <3>1, <5>2
          <5> QED  BY <4>1, <5>1, <5>3
        <4>3. k \in InQueue(r, n)  BY <4>1 DEF InQueue
        <4> QED  BY <4>2, <4>3
      <3> QED  BY <3>3, <3>4 DEF CallStep
    <2>4. CASE RetryTakes
      <3>1. PICK i \in DOMAIN retry_list :
              spawn(retry_list[i].req, retry_list[i].nodes) /\ \E old : Renumbered(old, i)
          BY <2>4 DEF RetryTakes
      <3>2. PICK old : Renumbered(old, i)  BY <3>1
      <3>3. PICK t \in Agents, b \in AgentStates :
              /\ agents[t].pc = "idle" /\ Becomes(t, b) /\ b.pc = "start" /\ b.req = retry_list[i].req
              /\ DOMAIN b.res = retry_list[i].nodes /\ \A m \in retry_list[i].nodes : b.res[m] = "none"
          BY <3>1, QueueFields, SpawnEffect, SMT
      <3>4. /\ Calls(agents'[t], r, n) <=> retry_list[i].req = r /\ n \in retry_list[i].nodes
            /\ ~Calls(agents[t], r, n)
            /\ \A u \in Agents \ {t} : Calls(agents'[u], r, n) <=> Calls(agents[u], r, n)
          BY <3>3 DEF Calls, Becomes
      <3>5. ASSUME Pending(r, n)'  PROVE Pending(r, n)
        <4>1. CASE \E x \in DOMAIN retry_list' : retry_list'[x].req = r /\ n \in retry_list'[x].nodes
          <5>1. PICK x \in DOMAIN retry_list' : retry_list'[x].req = r /\ n \in retry_list'[x].nodes
              BY <4>1
          <5>2. PICK k \in DOMAIN retry_list : /\ retry_list'[x].req = retry_list[k].req
                                               /\ retry_list'[x].nodes = retry_list[k].nodes
              BY <2>k, <3>2
          <5>3. retry_list[k].req = r /\ n \in retry_list[k].nodes  BY <5>1, <5>2
          <5> QED  BY <5>3, <1>PendingCalls
        <4>2. CASE \E u \in Agents : Calls(agents'[u], r, n)
            BY <3>1, <3>4, <4>2, <1>PendingCalls
        <4> QED  BY <3>5, <4>1, <4>2, <1>PendingCalls
      <3>6. ASSUME Pending(r, n), ~Pending(r, n)'
            PROVE  \E k \in InQueue(r, n) : msg_type[r] = "launch" /\ (job[r] = "gone" \/ retry_list[k].late)
        <4>1. PICK k \in DOMAIN retry_list : retry_list[k].req = r /\ n \in retry_list[k].nodes
            BY <3>4, <3>6, <1>PendingCalls
        <4>2. k # i
            BY <3>4, <3>6, <4>1, <1>PendingCalls
        <4>3. msg_type[r] = "launch" /\ (job[r] = "gone" \/ retry_list[k].late)
          <5>1. ~\E x \in DOMAIN retry_list' : retry_list'[x].req = r /\ n \in retry_list'[x].nodes
              BY <3>6, <1>PendingCalls
          <5>2. k \in DOMAIN retry_list \ {i}  BY <4>2
          <5>3. \/ \E x \in DOMAIN retry_list' : /\ retry_list'[x].req = retry_list[k].req
                                                 /\ retry_list'[x].nodes = retry_list[k].nodes
                \/ /\ msg_type[retry_list[k].req] = "launch"
                   /\ job[retry_list[k].req] = "gone" \/ retry_list[k].late
              BY <2>k, <3>2, <5>2
          <5> QED  BY <4>1, <5>1, <5>3
        <4>4. k \in InQueue(r, n)  BY <4>1 DEF InQueue
        <4> QED  BY <4>3, <4>4
      <3> QED  BY <3>5, <3>6 DEF CallStep
    <2> QED  BY <2>1, <2>2, <2>3, <2>4
  \* The end of an RPC thread ends the calls that were answered.
  <1>CallsThread. ASSUME NEW t \in Agents, NEW g \in SUBSET Nodes, _thread_per_group_rpc(t, g)
                  PROVE  CallStep(r, n)
    <2> USE <1>CallsThread
    <2>1. UNCHANGED retry_list  BY DEF _thread_per_group_rpc, queue
    <2>2. PICK b \in AgentStates :
            /\ Becomes(t, b) /\ b.pc = "run" /\ b.req = agents[t].req
            /\ DOMAIN b.res = DOMAIN agents[t].res
            /\ \A m \in DOMAIN b.res \ g : b.res[m] = agents[t].res[m]
            /\ \A m \in DOMAIN b.res \cap g : b.res[m] \in {"done", "noresp"}
      <3>1. PICK b \in AgentStates :
              /\ Becomes(t, b) /\ b.pc = "run" /\ b.req = agents[t].req
              /\ b.new = agents[t].new /\ b.active = agents[t].active \ {g}
              /\ DOMAIN b.res = DOMAIN agents[t].res
              /\ \A m \in DOMAIN b.res \ g : b.res[m] = agents[t].res[m]
              /\ \A m \in DOMAIN b.res \cap g : b.res[m] \in {"done", "noresp"}
          BY ThreadEffect, SMT
      <3> WITNESS b \in AgentStates
      <3> QED  BY <3>1
    <2>3. agents[t].pc = "run" /\ g \in agents[t].active  BY ThreadEffect
    <2>4. \A m \in g : m \in DOMAIN agents[t].res /\ agents[t].res[m] = "none"
        BY <2>3 DEF GroupsOK, GroupsOf
    <2>5. Calls(b, r, n) => Calls(agents[t], r, n)
        BY <2>2, <2>3, <2>4 DEF Calls
    <2>6. agents'[t] = b /\ \A u \in Agents \ {t} : agents'[u] = agents[u]
        BY <2>2 DEF Becomes
    <2>7. Pending(r, n)' => Pending(r, n)
        BY <2>1, <2>5, <2>6, <1>PendingCalls
    <2>8. ASSUME Pending(r, n), ~Pending(r, n)'
          PROVE  \E u \in InAgent(r, n) : agents'[u].pc = "run" /\ agents'[u].res[n] = "done"
      <3>1. Calls(agents[t], r, n) /\ ~Calls(b, r, n)
          BY <2>1, <2>6, <2>8, <1>PendingCalls
      <3>2. b.res[n] = "done"
          BY <2>2, <3>1 DEF Calls
      <3>3. t \in InAgent(r, n)  BY <3>1, <1>PendingCalls
      <3> QED  BY <2>2, <2>6, <3>2, <3>3
    <2> QED  BY <2>7, <2>8 DEF CallStep
  \* The watchdog gives up the calls that were not answered, or queues them.
  <1>CallsWdog. ASSUME NEW t \in Agents, _wdog(t)
                PROVE  CallStep(r, n)
    <2> USE <1>CallsWdog
    <2>1. PICK b \in AgentStates : Becomes(t, b) /\ b.pc = "notify"
        BY WdogEffect
    <2>2. agents[t] \in AgentStates /\ agents[t].pc = "run" /\ agents[t].new = {} /\ agents[t].active = {}
        BY WdogEffect
    <2>3. agents'[t] = b /\ \A u \in Agents \ {t} : agents'[u] = agents[u]
        BY <2>1 DEF Becomes
    <2>4. \A m \in DOMAIN agents[t].res : agents[t].res[m] \in {"done", "noresp"}
      <3>1. \A m \in DOMAIN agents[t].res : agents[t].res[m] # "none"
          BY <2>2 DEF GroupsOK, GroupsOf
      <3>2. agents[t].res \in [DOMAIN agents[t].res -> Results]
          BY <2>2, StateFields
      <3> QED  BY <3>1, <3>2 DEF Results
    <2>5. ~Calls(agents'[t], r, n)
        BY <2>1, <2>3 DEF Calls
    <2>6. Calls(agents[t], r, n) => /\ \E u \in InAgent(r, n) : agents'[u].pc = "notify" /\ agents[u].res[n] = "noresp"
      <3> SUFFICES ASSUME Calls(agents[t], r, n)
                   PROVE  agents'[t].pc = "notify" /\ agents[t].res[n] = "noresp" /\ t \in InAgent(r, n)
          OBVIOUS
      <3> QED  BY <2>1, <2>3, <2>4, <1>PendingCalls DEF Calls
    <2>7. \A i \in DOMAIN retry_list : i \in DOMAIN retry_list' /\ retry_list'[i] = retry_list[i]
        BY WdogQueue, AppendEffect
    <2>8. \A x \in DOMAIN retry_list' :
            \/ x \in DOMAIN retry_list /\ retry_list'[x] = retry_list[x]
            \/ retry_list'[x].req = agents[t].req /\ retry_list'[x].nodes \subseteq noresp(agents[t])
      <3>1. CASE retry_list' = retry_list  BY <3>1
      <3>2. CASE \E e \in Entries : /\ retry_list' = Append(retry_list, e)
                                    /\ e.req = agents[t].req /\ e.nodes \subseteq noresp(agents[t])
        <4>1. PICK e \in Entries : /\ retry_list' = Append(retry_list, e)
                                   /\ e.req = agents[t].req /\ e.nodes \subseteq noresp(agents[t])
            BY <3>2
        <4>2. \A x \in DOMAIN retry_list' : \/ x \in DOMAIN retry_list /\ retry_list'[x] = retry_list[x]
                                            \/ retry_list'[x] = e
            BY <4>1, AppendEffect
        <4> QED  BY <4>1, <4>2
      <3> QED  BY <3>1, <3>2, WdogQueue
    <2>9. ASSUME Pending(r, n)'  PROVE Pending(r, n)
      <3>1. CASE \E x \in DOMAIN retry_list' : retry_list'[x].req = r /\ n \in retry_list'[x].nodes
        <4>1. PICK x \in DOMAIN retry_list' : retry_list'[x].req = r /\ n \in retry_list'[x].nodes
            BY <3>1
        <4>2. CASE x \in DOMAIN retry_list /\ retry_list'[x] = retry_list[x]
            BY <4>1, <4>2, <1>PendingCalls
        <4>3. CASE agents[t].req = r /\ n \in noresp(agents[t])
          <5>1. Calls(agents[t], r, n)  BY <2>2, <4>3 DEF Calls, noresp
          <5> QED  BY <5>1, <1>PendingCalls
        <4> QED  BY <2>8, <4>1, <4>2, <4>3
      <3>2. CASE \E u \in Agents : Calls(agents'[u], r, n)
          BY <2>3, <2>5, <3>2, <1>PendingCalls
      <3> QED  BY <2>9, <3>1, <3>2, <1>PendingCalls
    <2>10. ASSUME Pending(r, n), ~Pending(r, n)'  PROVE Calls(agents[t], r, n)
        BY <2>3, <2>7, <2>10, <1>PendingCalls
    <2> QED  BY <2>6, <2>9, <2>10 DEF CallStep
  <1> USE DEF queue, counts, cluster
  <1>u. ASSUME UNCHANGED <<retry_list, agents>>  PROVE CallStep(r, n)
      BY <1>u, <1>CallsSame
  <1>3. ASSUME NEW q \in Requests, prolog_complete(q) \/ job_complete(q)
        PROVE  CallStep(r, n)
      BY <1>3, <1>u DEF prolog_complete, job_complete
  <1>4. ASSUME NEW q \in Requests, grow_old(q) \/ resume_timeout(q)
        PROVE  CallStep(r, n)
    <2>1. /\ DOMAIN retry_list' = DOMAIN retry_list /\ UNCHANGED agents
          /\ \A i \in DOMAIN retry_list :
               retry_list'[i].req = retry_list[i].req /\ retry_list'[i].nodes = retry_list[i].nodes
        BY <1>4, AgedEffect
    <2> QED  BY <2>1, <1>PendingCalls DEF CallStep
  <1>5. CASE mail_job_info \/ background \/ agent_init \/ send_mail \/ _mail_proc \/ shutdown
      BY <1>u, <1>5 DEF mail_job_info, background, agent_init, send_mail, _mail_proc, shutdown
  <1>6. CASE agent_purge
    <2>1. retry_list' = <<>> /\ UNCHANGED agents /\ shutdown_time
        BY <1>6 DEF agent_purge
    <2>2. DOMAIN retry_list' = {}
        BY <2>1, SMT
    <2> QED  BY <2>1, <2>2, <1>PendingCalls DEF CallStep
  <1>7. ASSUME NEW t \in Agents, agent_begin(t)
        PROVE  CallStep(r, n)
    <2>1. UNCHANGED <<retry_list, shutdown_time>>  BY <1>7 DEF agent_begin
    <2>2. PICK b \in AgentStates :
            /\ Becomes(t, b) /\ b.req = agents[t].req /\ b.res = agents[t].res
            /\ b.pc \in {"cleanup", "run", "wait"}
            /\ b.pc = "cleanup" => (shutdown_time \/ DOMAIN agents[t].res = {})
        BY <1>7, BeginEffect
    <2>3. agents[t].pc = "start"
        BY <1>7, BeginEffect
    <2>4. Calls(b, r, n) => Calls(agents[t], r, n)
        BY <2>2, <2>3 DEF Calls
    <2>5. agents'[t] = b /\ \A u \in Agents \ {t} : agents'[u] = agents[u]
        BY <2>2 DEF Becomes
    <2>6. Pending(r, n)' => Pending(r, n)
        BY <2>1, <2>4, <2>5, <1>PendingCalls
    <2>7. CASE shutdown_time
        BY <2>6, <2>7 DEF CallStep
    <2>8. CASE ~shutdown_time
      <3>1. Calls(b, r, n) <=> Calls(agents[t], r, n)
          BY <2>2, <2>3, <2>8 DEF Calls
      <3> QED  BY <2>1, <2>2, <3>1, <1>CallsBecomes
    <2> QED  BY <2>7, <2>8
  <1>8. ASSUME NEW t \in Agents, _notify_slurmctld_nodes(t)
        PROVE  CallStep(r, n)
    <2>1. UNCHANGED retry_list  BY <1>8 DEF _notify_slurmctld_nodes
    <2>2. PICK b \in AgentStates : Becomes(t, b) /\ b.pc = "cleanup"  BY <1>8, NotifyEffect
    <2>3. Calls(b, r, n) <=> Calls(agents[t], r, n)
        BY <1>8, <2>2, NotifyEffect DEF Calls
    <2> QED  BY <2>1, <2>2, <2>3, <1>CallsBecomes
  <1>9. ASSUME NEW t \in Agents, agent_cleanup(t)
        PROVE  CallStep(r, n)
    <2>1. UNCHANGED retry_list /\ agents' = wake(t) /\ agents[t].pc = "cleanup"
        BY <1>9 DEF agent_cleanup
    <2>2. \A u \in Agents : Calls(agents'[u], r, n) <=> Calls(agents[u], r, n)
        BY <2>1, WakeEffect, IdlePc, SMT DEF Calls
    <2> QED  BY <2>1, <2>2, <1>CallsSame
  <1>10. ASSUME NEW t \in Agents, NEW g \in SUBSET Nodes, start_thread(t, g)
         PROVE  CallStep(r, n)
    <2>1. UNCHANGED retry_list  BY <1>10 DEF start_thread
    <2>2. PICK b \in AgentStates :
            Becomes(t, b) /\ b.pc = "run" /\ b.req = agents[t].req /\ b.res = agents[t].res
        BY <1>10, StartEffect
    <2>3. Calls(b, r, n) <=> Calls(agents[t], r, n)
        BY <1>10, <2>2, StartEffect DEF Calls
    <2> QED  BY <2>1, <2>2, <2>3, <1>CallsBecomes
  <1> QED  BY StepCases, <1>3, <1>4, <1>5, <1>6, <1>7, <1>8, <1>9, <1>10,
              <1>CallsRequest, <1>CallsRetry, <1>CallsThread, <1>CallsWdog

-----------------------------------------------------------------------------
(* The theorems                                                            *)

\* The invariant holds when slurmctld starts.
LEMMA AgentInit == Init => AgentInv
  <1> SUFFICES ASSUME Init  PROVE AgentInv  OBVIOUS
  <1>1. TypeOK
    <2>1. <<>> \in Seq(Entries)  BY SMT
    <2>2. CountType /\ RequestType
      <3>1. CountType
          BY AgentAssumption, SMT DEF Init, CountType, AgentAssumption
      <3>2. RequestType
          BY DEF Init, RequestType
      <3> QED  BY <3>1, <3>2
    <2>3. TriggerType
        BY WaitingType DEF Init, TriggerType
    <2> QED  BY <2>1, <2>2, <2>3, TypeParts DEF Init
  <1>2. DOMAIN retry_list = {} /\ \A t \in Agents : agents[t] = Idle
      BY SMT DEF Init
  <1>3. \A t \in Agents : agents[t].pc = "idle"
      BY <1>2, IdlePc
  <1>4. OneHolder /\ PingNodes /\ NobodyForgotten
      BY <1>2, <1>3 DEF OneHolder, Holding, PingNodes, NobodyForgotten
  <1>5. GroupsOK
      BY <1>2, GroupsNone DEF GroupsOK
  <1>6. ThreadsCounted
    <2>1. Counted = {}  BY <1>3 DEF Counted
    <2>2. {ThreadsOf(t) : t \in Counted} = {}  BY <2>1
    <2>3. UNION {ThreadsOf(t) : t \in Counted} = {}  BY <2>2
    <2>4. Cardinality(Counted) = 0 /\ Cardinality(UNION {ThreadsOf(t) : t \in Counted}) = 0
        BY <2>1, <2>3, FS_EmptySet
    <2> QED  BY <2>4, AgentAssumption, SMT DEF Init, ThreadsCounted, AgentAssumption
  <1>7. PingsCounted
    <2>1. Pinged = {}  BY <1>2, <1>3 DEF Pinged, Busy
    <2> QED  BY <2>1, FS_EmptySet, PingedFacts DEF Init
  <1> QED  BY <1>1, <1>4, <1>5, <1>6, <1>7 DEF AgentInv

\* Every step keeps it.
LEMMA AgentStep == AgentInv /\ [Next]_vars => AgentInv'
  <1> SUFFICES ASSUME AgentInv, [Next]_vars  PROVE AgentInv'  OBVIOUS
  <1>0. TypeOK /\ OneHolder /\ GroupsOK /\ PingNodes /\ ThreadsCounted /\ PingsCounted /\ NobodyForgotten
      BY DEF AgentInv
  <1>1. CASE Next
    <2>1. TypeOK'  BY <1>0, <1>1, TypeStep
    <2>2. OneHolder'  BY <1>0, <1>1, HolderStep
    <2>3. GroupsOK'  BY <1>0, <1>1, GroupsStep
    <2>4. PingNodes'  BY <1>0, <1>1, PingNodesStep
    <2>5. ThreadsCounted'  BY <1>0, <1>1, <2>1, ThreadsStep
    <2>6. PingsCounted'  BY <1>0, <1>1, PingsStep
    <2>7. NoRoom /\ (Untried => Served)  BY <1>0, ForgottenParts
    <2>8. NoRoom'  BY <1>0, <1>1, <2>7, NoRoomStep
    <2>9. Untried' => Served'  BY <1>0, <1>1, <2>1, <2>5, <2>7, ServedStep
    <2>10. NobodyForgotten'
        BY <2>8, <2>9 DEF NobodyForgotten, NoRoom, Untried, Served
    <2> QED  BY <2>1, <2>2, <2>3, <2>4, <2>5, <2>6, <2>10 DEF AgentInv
  <1>2. CASE UNCHANGED vars
    <2> USE DEF vars
    <2>1. TypeOK'  BY <1>0, <1>2 DEF TypeOK
    <2>2. OneHolder'  BY <1>0, <1>2 DEF OneHolder, Holding
    <2>3. GroupsOK' /\ PingNodes'  BY <1>0, <1>2 DEF GroupsOK, PingNodes
    <2>4. ThreadsCounted'  BY <1>0, <1>2 DEF ThreadsCounted, Counted, ThreadsOf
    <2>5. PingsCounted'  BY <1>0, <1>2 DEF PingsCounted
    <2>6. NobodyForgotten'  BY <1>0, <1>2 DEF NobodyForgotten
    <2> QED  BY <2>1, <2>2, <2>3, <2>4, <2>5, <2>6 DEF AgentInv
  <1> QED  BY <1>1, <1>2

\* The invariant of the queue and its agents.
THEOREM AgentCorrect == Spec => []AgentInv
  BY AgentInit, AgentStep, PTL DEF Spec

\* Types: no counter of agents, threads, mails or pings becomes negative.
THEOREM TypeCorrect == Spec => []TypeOK
  <1>1. AgentInv => TypeOK  BY DEF AgentInv
  <1> QED  BY <1>1, AgentCorrect, PTL

\* agent_thread_cnt is the number of threads that are taken, and stays within
\* MAX_SERVER_THREADS until slurmctld shuts down, for any number of agents,
\* nodes and mails.
THEOREM ThreadsExact == Spec => []ThreadsCounted
  <1>1. AgentInv => ThreadsCounted  BY DEF AgentInv
  <1> QED  BY <1>1, AgentCorrect, PTL

\* ping_count is the number of pings that were not reported yet.
THEOREM PingsExact == Spec => []PingsCounted
  <1>1. AgentInv => PingsCounted  BY DEF AgentInv
  <1> QED  BY <1>1, AgentCorrect, PTL

\* No agent waits for threads that are free, and no untried request waits for
\* a trigger that nobody will give, except when a mail process freed them.
THEOREM NoneForgotten == Spec => []NobodyForgotten
  <1>1. AgentInv => NobodyForgotten  BY DEF AgentInv
  <1> QED  BY <1>1, AgentCorrect, PTL

\* A set in which any two elements are equal.
LEMMA AtMostOne ==
  ASSUME NEW S, \A x, y \in S : x = y
  PROVE  Cardinality(S) = IF S = {} THEN 0 ELSE 1
  <1>1. CASE S = {}  BY <1>1, FS_EmptySet
  <1>2. CASE S # {}
    <2>1. PICK x : x \in S  BY <1>2
    <2>2. S = {x}  BY <2>1
    <2>3. Cardinality({x}) = 1  BY FS_Singleton
    <2> QED  BY <1>2, <2>2, <2>3
  <1> QED  BY <1>1, <1>2

\* A call is in the queue once or with one agent: no node gets a request twice
\* at a time.
THEOREM SinglePlace == Spec => []OnePlace
  <1>1. AgentInv => OnePlace
    <2> SUFFICES ASSUME AgentInv, NEW r \in Requests, NEW n \in Nodes
                 PROVE  Cardinality(InQueue(r, n)) + Cardinality(InAgent(r, n)) <= 1
        BY DEF OnePlace
    <2>1. \A i \in InQueue(r, n) : i \in DOMAIN retry_list /\ retry_list[i].req = r
        BY DEF InQueue
    <2>2. \A t \in InAgent(r, n) : t \in Agents /\ agents[t].req = r /\ Holding(t)
        BY DEF InAgent, Holding
    <2>3. \A i, k \in InQueue(r, n) : i = k
        BY <2>1 DEF AgentInv, OneHolder
    <2>4. \A t, u \in InAgent(r, n) : t = u
        BY <2>2 DEF AgentInv, OneHolder
    <2>5. InQueue(r, n) = {} \/ InAgent(r, n) = {}
        BY <2>1, <2>2 DEF AgentInv, OneHolder
    <2>6. /\ Cardinality(InQueue(r, n)) = IF InQueue(r, n) = {} THEN 0 ELSE 1
          /\ Cardinality(InAgent(r, n)) = IF InAgent(r, n) = {} THEN 0 ELSE 1
        BY <2>3, <2>4, AtMostOne
    <2> QED  BY <2>5, <2>6, SMT
  <1> QED  BY <1>1, AgentCorrect, PTL

\* A pending call is pending until it is answered, given up unanswered or, for
\* a launch, pointless; and a call that is over does not come back.
THEOREM CallsAccounted == Spec => CallsKept
  <1>1. AgentInv /\ [Next]_vars =>
          [\A r \in Requests, n \in Nodes :
             /\ Pending(r, n) /\ ~Pending(r, n)' =>
                  \/ shutdown_time
                  \/ \E t \in InAgent(r, n) :
                       \/ agents'[t].pc = "run" /\ agents'[t].res[n] = "done"
                       \/ agents'[t].pc = "notify" /\ agents[t].res[n] = "noresp"
                  \/ \E i \in InQueue(r, n) :
                       msg_type[r] = "launch" /\ (job[r] = "gone" \/ retry_list[i].late)
             /\ ~Pending(r, n) /\ Pending(r, n)' => msg_type[r] = "none"]_vars
    <2>1. ASSUME AgentInv, Next, NEW r \in Requests, NEW n \in Nodes
          PROVE  CallStep(r, n)
        BY <2>1, CallsStep DEF AgentInv
    <2> QED  BY <2>1 DEF CallStep
  <1> QED  BY <1>1, AgentCorrect, PTL DEF Spec, CallsKept

=============================================================================
