--------------------------- MODULE MCSimLockstep ---------------------------
(* Small workloads for SimLockstep.                                        *)
EXTENDS SimLockstep, TLC

\* Three jobs that compete for two nodes; the third is submitted when the
\* first may already have ended, and the second outlives it.
ThreeSubmits   == <<1, 1, 2>>
ThreeDurations == <<1, 2, 1>>

\* Two jobs for one node.
TwoSubmits     == <<1, 2>>
TwoDurations   == <<1, 1>>

\* One job, and messages that time out.
OneSubmit      == <<1>>
OneDuration    == <<1>>

\* The third job outlives the run.
LongDurations  == <<1, 1, 9>>

\* A job is killed when a late message keeps its completion back.
NoLimits       == [j \in Jobs |-> 9]
TightLimits    == [j \in Jobs |-> 2]
=============================================================================
