---------------------------- MODULE BuildContract ----------------------------
(***************************************************************************)
(* What a project is promised about a build, without messages, rows or     *)
(* locks: jobs end one after another, deploy jobs behind a red regular job *)
(* are skipped, the build is judged by its worst job in the very step in   *)
(* which its last job ends, and the judgement stands until everything is   *)
(* run again.                                                              *)
(***************************************************************************)
EXTENDS Naturals

CONSTANTS Regular, Deploy

Jobs == Regular \cup Deploy

VARIABLES
    outcome,  \* of each job: open, passed, failed, errored or skipped
    verdict,  \* of the build: none, passed, failed or errored
    run       \* which run this is

contractVars == <<outcome, verdict, run>>

Ends == {"passed", "failed", "errored"}

\* The worst of the outcomes; a skipped job is not counted.
Worst(out) ==
    CASE \E j \in Jobs : out[j] = "errored" -> "errored"
      [] (\E j \in Jobs : out[j] = "failed")
             /\ ~\E j \in Jobs : out[j] = "errored" -> "failed"
      [] OTHER -> "passed"

Init ==
    /\ outcome = [j \in Jobs |-> "open"]
    /\ verdict = "none"
    /\ run = 1

\* The run is spoiled for deployment: all regular jobs ended, one of them red.
Spoiled(out) ==
    /\ \A j \in Regular : out[j] \in Ends
    /\ \E j \in Regular : out[j] # "passed"

JobEnds(j, end) ==
    /\ outcome[j] = "open"
    /\ \E skipped \in SUBSET {d \in Deploy \ {j} : outcome[d] = "open"} :
         /\ outcome' = [i \in Jobs |-> IF i = j THEN end
                                      ELSE IF i \in skipped THEN "skipped"
                                      ELSE outcome[i]]
         /\ skipped # {} => Spoiled(outcome')
    /\ verdict' = IF \E i \in Jobs : outcome'[i] = "open"
                  THEN "none" ELSE Worst(outcome')
    /\ run' = run

RunAgain ==
    /\ verdict # "none"
    /\ outcome' = [j \in Jobs |-> "open"]
    /\ verdict' = "none"
    /\ run' = run + 1

Next ==
    \/ \E j \in Jobs, end \in Ends : JobEnds(j, end)
    \/ RunAgain

Spec == Init /\ [][Next]_contractVars
=============================================================================
