--------------------------- MODULE MeasurementProps ---------------------------
(***************************************************************************)
(* What the measurements of an experiment promise.                         *)
(***************************************************************************)
EXTENDS Measurement

(***************************************************************************)
(* A verdict of the investigator stands for a command that succeeded at    *)
(* once: measurement.log says so, and a retry that succeeded later never   *)
(* makes a failed command a measurement (rc in c, a, apj; sd_rc in         *)
(* status_data_create).                                                    *)
(***************************************************************************)
VerdictOfFirstAttempt ==
    \A cmd \in Command :
        junit[cmd] \in {"PASS", "FAIL"} =>
            /\ attempts[cmd][1] = "ok"
            /\ [cmd |-> cmd, rc |-> "ok"] \in Range(log)

(***************************************************************************)
(* Nothing is measured on an environment that failed its check: a status   *)
(* data job exists only for commands after generic_environment_check, and  *)
(* then every command of the check, those of the forked rebuild included,  *)
(* had succeeded at its first execution.                                   *)
(***************************************************************************)
MeasuredAfterCheck ==
    \A cmd \in Command :
        job[cmd] # "none" =>
            /\ ~InCheck(cmd)
            /\ \A other \in Command :
                 InCheck(other) => attempts[other] # <<>> /\ attempts[other][1] = "ok"

\* The experiment ends, whatever fails, and so does every job it left behind, as
\* long as its commands return and it does not wait for a ping.
RunEnds ==
    <>(/\ shell["main"] \in {"ended", "died"}
       /\ \A cmd \in Command : job[cmd] \in {"none", "gone"})

(***************************************************************************)
(* A measured command that failed reaches junit.xml as ERROR: its job      *)
(* meets no set -e and no early return of status_data_create.              *)
(***************************************************************************)
FailureReported ==
    \A cmd \in Command :
        golden /\ elastic /\ job[cmd] = "working" /\ Rc(cmd) = "fail"
            ~> junit[cmd] = "ERROR"

(***************************************************************************)
(* run-library.sh on status_data_create: for every measurement, add the    *)
(* test result to junit.xml for further analysis.  It is latest-junit.xml  *)
(* that is analysed.                                                       *)
(***************************************************************************)
EveryMeasurementUploaded ==
    \A cmd \in Command :
        upload # NoCopy /\ elastic /\ KindOf(cmd) \in {"c", "a", "ap", "apj", "job"}
            /\ ~InCheck(cmd)
        => upload[cmd] # "none"

\* A verdict is of a command that succeeded at once, on a checked environment.
VerdictIsEarned == VerdictOfFirstAttempt /\ MeasuredAfterCheck
=============================================================================
