----------------------------- MODULE JobLedger -----------------------------
(***************************************************************************)
(* What the job queue of rekanvault/storage/jobs.py promises the parts of  *)
(* the system that put work on it, without workers, sessions or locks: a   *)
(* job is submitted at most once, its effects take place at most once, and *)
(* a job that is done or dead stays so.                                    *)
(***************************************************************************)
EXTENDS Naturals

CONSTANT Jobs           \* the rows processing_jobs may ever hold

VARIABLES state,        \* state[j]: where job j stands
          runs          \* runs[j]: how often the effects of j took place

ledgerVars == <<state, runs>>

LedgerInit ==
    /\ state = [j \in Jobs |-> "absent"]
    /\ runs = [j \in Jobs |-> 0]

\* A producer's transaction commits the row of job j.
Submit(j) ==
    /\ state[j] = "absent"
    /\ state' = [state EXCEPT ![j] = "queued"]
    /\ UNCHANGED runs

\* The effects of j take place, and j is done in the same instant.
Perform(j) ==
    /\ state[j] = "queued"
    /\ state' = [state EXCEPT ![j] = "done"]
    /\ runs' = [runs EXCEPT ![j] = @ + 1]

\* The queue gives up on j, which has had no effect.
Bury(j) ==
    /\ state[j] = "queued"
    /\ state' = [state EXCEPT ![j] = "dead"]
    /\ UNCHANGED runs

LedgerNext == \E j \in Jobs : Submit(j) \/ Perform(j) \/ Bury(j)

LedgerSpec == LedgerInit /\ [][LedgerNext]_ledgerVars
============================================================================
