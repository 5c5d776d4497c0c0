---------------------------- MODULE SimSemantics ----------------------------
(***************************************************************************)
(* What the simulator promises to someone who reads its job trace: time is *)
(* a sequence of seconds, and in each of them first the jobs that are due  *)
(* are submitted and then, with the clock standing still, jobs finish and  *)
(* start on the nodes they free.  No daemon, message or counter appears.   *)
(***************************************************************************)
EXTENDS Integers, FiniteSets

CONSTANTS NJobs, Submit, Duration, Nodes

Jobs == 1..NJobs

VARIABLES
  clock,
  turn,     \* whose turn it is in this second: "mgr" or "daemons"
  phase,    \* of a job: "none", "pending", "running" (it holds a node), "done"
  started   \* when a job was started

vars == <<clock, turn, phase, started>>

Running == {j \in Jobs : phase[j] = "running"}

Init ==
  /\ clock = 1 /\ turn = "mgr"
  /\ phase = [j \in Jobs |-> "none"] /\ started = [j \in Jobs |-> 0]

\* Jobs are submitted in the order of the trace and not before their time.
SubmitJob(j) ==
  /\ turn = "mgr" /\ phase[j] = "none"
  /\ Submit[j] =< clock
  /\ \A i \in 1..j - 1 : phase[i] # "none"
  /\ phase' = [phase EXCEPT ![j] = "pending"]
  /\ UNCHANGED <<clock, turn, started>>

\* No job that is due is left for a later second.
HandOver ==
  /\ turn = "mgr" /\ turn' = "daemons"
  /\ \A j \in Jobs : Submit[j] =< clock => phase[j] # "none"
  /\ UNCHANGED <<clock, phase, started>>

\* A job starts on an idle node, and no job that came earlier waits.
Start(j) ==
  /\ turn = "daemons" /\ phase[j] = "pending"
  /\ Cardinality(Running) < Nodes
  /\ \A i \in 1..j - 1 : phase[i] # "pending"
  /\ phase' = [phase EXCEPT ![j] = "running"]
  /\ started' = [started EXCEPT ![j] = clock]
  /\ UNCHANGED <<clock, turn>>

\* A job gives its node back after it has run for its duration.
Finish(j) ==
  /\ turn = "daemons" /\ phase[j] = "running"
  /\ started[j] + Duration[j] =< clock
  /\ phase' = [phase EXCEPT ![j] = "done"]
  /\ UNCHANGED <<clock, turn, started>>

Tick ==
  /\ turn = "daemons" /\ turn' = "mgr"
  /\ clock' = clock + 1
  /\ UNCHANGED <<phase, started>>

Next == HandOver \/ Tick \/ \E j \in Jobs : SubmitJob(j) \/ Start(j) \/ Finish(j)

Spec == Init /\ [][Next]_vars
=============================================================================
