----------------------------- MODULE MCAppendLog -----------------------------
(* Instances of AppendLog for TLC, and the absence of waits without end.    *)
EXTENDS AppendLog

\* What the reactor, the worker thread and recovery do by themselves once the
\* files are inspected: kernel IO completes, threads run.
Advance ==
  \/ AppendStep \/ WorkerStep \/ StartRecovered \/ FinishRecovery
  \/ \E s \in Doomed : RepairFile(s)

\* Nothing waits for ever: a started flush cohort and every recovery that passed
\* inspection (RecoveryOpens), whichever instant the image stopped at, have a
\* step of the log's own left that changes something until the cohort has
\* completed and the image serves, and a selected compaction can be loaded,
\* unless IO failed.
NeverStuck ==
  /\ CompactionReadable
  /\ ~failed /\ mode # "down" /\ (mode # "serving" \/ cohort # NoCohort) =>
       ENABLED <<Advance>>_vars
=============================================================================
