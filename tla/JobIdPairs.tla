----------------------------- MODULE JobIdPairs -----------------------------
(***************************************************************************)
(* The table in which sim_mgr remembers which id slurmctld gave to a job   *)
(* of the trace; the dependencies of later jobs are rewritten with it      *)
(* (contribs/simulator/sim_mgr.c).                                         *)
(***************************************************************************)
EXTENDS Integers, Sequences, FiniteSets, FiniteSetsExt

CONSTANTS
  TraceIds,   \* job ids of the trace
  RealIds,    \* ids slurmctld may give
  NoVal,      \* NO_VAL
  Ordered     \* do job ids grow along the trace?

ASSUME PairsAssumption ==
  /\ TraceIds \subseteq Nat /\ IsFiniteSet(TraceIds)
  /\ RealIds \subseteq Nat /\ NoVal \notin RealIds
  /\ Ordered \in BOOLEAN

VARIABLES
  job_id_list,  \* the list of pairs
  real          \* what the list stands for: the real id of a submitted job

vars == <<job_id_list, real>>

Pairs == [trace_job_id : TraceIds, real_job_id : RealIds]

TypeOK ==
  /\ job_id_list \in Seq(Pairs)
  /\ real \in [TraceIds -> RealIds \cup {NoVal}]

Init == job_id_list = <<>> /\ real = [t \in TraceIds |-> NoVal]

\* Mutant of _add_job_pair: the pair is appended.
append_job_pair(t, r) ==
  job_id_list' = job_id_list \o <<[trace_job_id |-> t, real_job_id |-> r]>>

_add_job_pair(t, r) ==
  job_id_list' = <<[trace_job_id |-> t, real_job_id |-> r]>> \o job_id_list

\* The walk stops at the first pair whose trace id is not larger.
StopsAt(list, t) == {i \in 1..Len(list) : list[i].trace_job_id =< t}

_get_real_job_id(list, t) ==
  IF StopsAt(list, t) = {} THEN NoVal
  ELSE LET pair == list[Min(StopsAt(list, t))]
       IN IF pair.trace_job_id = t THEN pair.real_job_id ELSE NoVal

\* generateJob submits the next job of the trace.  If slurmctld refuses it
\* the id is whatever the reply held before, so nothing is assumed of r.
generateJob(t, r) ==
  /\ real[t] = NoVal
  /\ Ordered => \A i \in 1..Len(job_id_list) : job_id_list[i].trace_job_id < t
  /\ _add_job_pair(t, r)
  /\ real' = [real EXCEPT ![t] = r]

Next == \E t \in TraceIds, r \in RealIds : generateJob(t, r)

Spec == Init /\ [][Next]_vars

\* _get_real_job_id "returns the real job id corresponding to the trace job
\* id trace_job_id. If id not found, returns NO_VAL."
LookupExact == \A t \in TraceIds : _get_real_job_id(job_id_list, t) = real[t]
=============================================================================
