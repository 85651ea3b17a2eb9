--------------------------- MODULE BuildRefinement ---------------------------
(***************************************************************************)
(* The rows of BuildLifecycle as a BuildContract.                          *)
(***************************************************************************)
EXTENDS BuildLifecycle

\* What the status column of a job means to the reader of the page.
OutcomeOf(status) ==
    CASE status \in {Initialized, Started} -> "open"
      [] status = Passed                   -> "passed"
      [] status = Failed                   -> "failed"
      [] status = Errored                  -> "errored"
      [] status = Cancelled                -> "skipped"

VerdictOf(status) ==
    CASE status = Passed  -> "passed"
      [] status = Failed  -> "failed"
      [] status = Errored -> "errored"
      [] OTHER            -> "none"

Contract == INSTANCE BuildContract WITH
    outcome <- [j \in Jobs |-> OutcomeOf(job[j])],
    verdict <- VerdictOf(build),
    run     <- runs

\* Every step of the status consumer, the log consumer and the restarts is a
\* step of the contract or invisible to it.
ImplementsContract == Contract!Spec
=============================================================================
