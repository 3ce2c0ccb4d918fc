---------------------------- MODULE JobContract ----------------------------
(***************************************************************************)
(* What Job::run_job promises its caller (job.h, HOWITWORKS.md), with      *)
(* nothing of how: workers are started, a job moves through its phases in  *)
(* order, and its verdict is TRUE only if no worker had reported an error  *)
(* when the measurement was closed and no worker is left that could still  *)
(* touch the results.                                                      *)
(***************************************************************************)

CONSTANT Threads

VARIABLES
  phase,      \* where the job is
  running,    \* workers that may still do I/O and write results
  broken      \* workers that have reported an error

vars == <<phase, running, broken>>

Open    == {"starting", "warming", "measuring"}
Verdict == {"passed", "failed"}

TypeOK ==
  /\ phase \in Open \cup {"draining"} \cup Verdict
  /\ running \subseteq Threads
  /\ broken \subseteq Threads

Init ==
  /\ phase = "starting"
  /\ running = {}
  /\ broken = {}

(* Workers.  A worker is started once, may report an error and then stops. *)
Start(t) ==
  /\ phase = "starting"
  /\ t \notin running
  /\ running' = running \cup {t}
  /\ UNCHANGED <<phase, broken>>

Report(t) ==
  /\ t \in running
  /\ broken' = broken \cup {t}
  /\ running' \in {running, running \ {t}}
  /\ UNCHANGED phase

Stop(t) ==
  /\ t \in running
  /\ running' = running \ {t}
  /\ UNCHANGED <<phase, broken>>

(* The job.  Every phase is left for the next one with no error reported.  *)
Advance(from, to) ==
  /\ phase = from
  /\ phase' = to
  /\ broken = {}
  /\ UNCHANGED <<running, broken>>

Pass ==
  /\ phase = "draining"
  /\ running = {}
  /\ phase' = "passed"
  /\ UNCHANGED <<running, broken>>

Fail ==
  /\ phase \in Open
  /\ phase' = "failed"
  /\ UNCHANGED <<running, broken>>

Next ==
  \/ \E t \in Threads : Start(t) \/ Report(t) \/ Stop(t)
  \/ Advance("starting", "warming")
  \/ Advance("starting", "measuring")
  \/ Advance("warming", "measuring")
  \/ Advance("measuring", "draining")
  \/ Pass
  \/ Fail

Spec == Init /\ [][Next]_vars

=============================================================================
