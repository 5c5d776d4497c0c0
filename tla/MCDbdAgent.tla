----------------------------- MODULE MCDbdAgent -----------------------------
(* Small instances of the accounting agent for TLC.  With a queue of three *)
(* both purges happen, and with a fifth message it also overflows.         *)
EXTENDS DbdAgent

FourKinds == <<"step", "job_complete", "job_start", "job_complete">>
FiveKinds == <<"step", "job_complete", "job_complete", "job_start", "job_complete">>
=============================================================================
