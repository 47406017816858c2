----------------------------- MODULE Measurement -----------------------------
(***************************************************************************)
(* How an experiment runs and measures its commands: the wrappers c, a,    *)
(* ap, apj, e and ej of experiment/run-library.sh, the environment check   *)
(* that comes first, and the status data jobs they leave behind.  An       *)
(* experiment is one shell; the environment check forks a second one to    *)
(* rebuild the containers, and every measured command forks a job that     *)
(* judges it and adds it to junit.xml.  What a command does is left out:   *)
(* it returns, with success or failure.                                    *)
(*   The environment check is the one with wait_for_ping unset, as every   *)
(* experiment but rex_insights-client.sh calls it: the last ping is a      *)
(* command like any other.  The loop that repeats it until the Satellite   *)
(* answers is not modelled.                                                *)
(***************************************************************************)
EXTENDS Naturals, Sequences, SequencesExt

CONSTANTS
    Before, Beside, After,  \* the environment check: up to the fork, beside the
                            \* containers, and after the wait, as kinds of commands
    Rebuild,                \* the commands of the forked shell
    Measured                \* the commands of the experiment proper

Kind == {"c", "a", "ap", "apj", "job", "e", "ej"}

ASSUME MeasurementAssumption ==
    /\ Before \in Seq({"a", "ap"}) /\ Beside \in Seq({"a"}) /\ After \in Seq({"a"})
    /\ Rebuild \in Seq({"a", "ap"})
    /\ Measured \in Seq(Kind)

Shell == {"main", "tierup"}
Check == Before \o Beside \o After
Program == [sh \in Shell |-> IF sh = "main" THEN Check \o Measured ELSE Rebuild]
Command == UNION {{sh} \X (1 .. Len(Program[sh])) : sh \in Shell}
KindOf(cmd) == Program[cmd[1]][cmd[2]]
InCheck(cmd) == cmd[1] = "tierup" \/ cmd[2] <= Len(Check)

\* max_retries of a and apj, the one retry of c; ap and a job invocation have none.
Retries(kind) ==
    CASE kind \in {"a", "apj"} -> 5
      [] kind = "c" -> 1
      [] OTHER -> 0

VARIABLES
    golden,     \* GOLDEN = true
    elastic,    \* elasticsearch_host is set
    judging,    \* investigator_config is set
    at,         \* the command each shell is at
    shell,      \* "unborn", "running", "ended", or "died" by set -e
    errexit,    \* set -e is in force in the main shell
    skip,       \* skip_measurement in the main shell
    attempts,   \* what each execution of a command returned
    log,        \* measurement.log: the commands and their rc
    job,        \* the status data job of each command
    junit,      \* the results in junit.xml
    upload      \* latest-junit.xml, once it was copied

setting == <<golden, elastic, judging>>
shells == <<at, shell, errexit, skip>>
vars == <<setting, shells, attempts, log, job, junit, upload>>

NoResult == [cmd \in Command |-> "none"]
NoCopy == [cmd \in Command |-> "no copy"]

Init ==
    /\ golden \in BOOLEAN /\ elastic \in BOOLEAN /\ judging \in BOOLEAN
    /\ at = [sh \in Shell |-> 1]
    /\ shell = [sh \in Shell |-> IF sh = "main" THEN "running" ELSE "unborn"]
    /\ errexit = TRUE /\ skip = TRUE
    /\ attempts = [cmd \in Command |-> <<>>]
    /\ log = <<>>
    /\ job = [cmd \in Command |-> "none"]
    /\ junit = NoResult
    /\ upload = NoCopy

\* The forked shell keeps the set -e and the skip_measurement it was born with.
Strict(sh) == sh = "tierup" \/ errexit
Skipping(sh) == sh = "tierup" \/ skip

\* The tierup fork, the wait for it and the end of the check stand before these.
ForkPoint == Len(Before) + 1
WaitPoint == Len(Before) + Len(Beside) + 1
EndOfCheck == Len(Check) + 1

Passed(sh) ==
    sh = "main" =>
        /\ at["main"] >= ForkPoint => shell["tierup"] # "unborn"
        /\ at["main"] >= WaitPoint => shell["tierup"] = "ended"
        /\ at["main"] >= EndOfCheck => ~errexit

\* The command a running shell works on.
Current(sh) == <<sh, at[sh]>>
Busy(sh) ==
    /\ shell[sh] = "running"
    /\ Current(sh) \in Command
    /\ Passed(sh)

Die(sh) == shell' = [shell EXCEPT ![sh] = "died"] /\ UNCHANGED <<at, errexit, skip>>
StepOn(sh) == at' = [at EXCEPT ![sh] = @ + 1] /\ UNCHANGED <<shell, errexit, skip>>

-----------------------------------------------------------------------------
\* The first execution: && and || keep set -e from ending the shell here.
Execute(sh) ==
    /\ Busy(sh)
    /\ KindOf(Current(sh)) \notin {"e", "ej"}
    /\ attempts[Current(sh)] = <<>>
    /\ \E rc \in {"ok", "fail"} :
         attempts' = [attempts EXCEPT ![Current(sh)] = Append(@, rc)]
    /\ UNCHANGED <<setting, shells, log, job, junit, upload>>

Settled(cmd) ==
    /\ attempts[cmd] # <<>>
    /\ Last(attempts[cmd]) = "ok" \/ Len(attempts[cmd]) > Retries(KindOf(cmd))

\* A retry is a plain command: under set -e its failure ends the shell.
Retry(sh) ==
    /\ Busy(sh)
    /\ attempts[Current(sh)] # <<>> /\ ~Settled(Current(sh))
    /\ \E rc \in {"ok", "fail"} :
         /\ attempts' = [attempts EXCEPT ![Current(sh)] = Append(@, rc)]
         /\ IF rc = "fail" /\ Strict(sh) THEN Die(sh) ELSE UNCHANGED shells
    /\ UNCHANGED <<setting, log, job, junit, upload>>

\* Faulty: the row has the result of the last retry.
LastRc(cmd) == Last(attempts[cmd])

\* rc: the retries do not touch it.
Rc(cmd) == Head(attempts[cmd])

\* measurement_add starts status_data_create in the background.
JobOf(sh) == IF Skipping(sh) THEN "none" ELSE "working"

\* measurement_row, measurement_add, and return $rc.
Record(sh) ==
    /\ Busy(sh)
    /\ Settled(Current(sh))
    /\ log' = Append(log, [cmd |-> Current(sh), rc |-> Rc(Current(sh))])
    /\ job' = [job EXCEPT ![Current(sh)] = JobOf(sh)]
    /\ IF Rc(Current(sh)) = "fail" /\ Strict(sh) THEN Die(sh) ELSE StepOn(sh)
    /\ UNCHANGED <<setting, attempts, junit, upload>>

(***************************************************************************)
(* e and ej read the log of an earlier command.  Without data they return  *)
(* before the row; e never starts a job, and the job of an ej whose tasks  *)
(* have no times finds empty timestamps and leaves.                        *)
(***************************************************************************)
Examine(sh) ==
    /\ Busy(sh)
    /\ KindOf(Current(sh)) \in {"e", "ej"}
    /\ \/ UNCHANGED <<attempts, log, job>>
       \/ /\ attempts' = [attempts EXCEPT ![Current(sh)] = <<"ok">>]
          /\ log' = Append(log, [cmd |-> Current(sh), rc |-> "ok"])
          /\ IF KindOf(Current(sh)) = "ej"
             THEN \E state \in {JobOf(sh), "gone"} :
                    job' = [job EXCEPT ![Current(sh)] = state]
             ELSE UNCHANGED job
    /\ StepOn(sh)
    /\ UNCHANGED <<setting, junit, upload>>

-----------------------------------------------------------------------------
(***************************************************************************)
(* The main shell between commands.                                        *)
(***************************************************************************)
ForkRebuild ==
    /\ shell["main"] = "running" /\ at["main"] = ForkPoint
    /\ shell["tierup"] = "unborn"
    /\ shell' = [shell EXCEPT !["tierup"] = "running"]
    /\ UNCHANGED <<setting, at, errexit, skip, attempts, log, job, junit, upload>>

RebuildEnds ==
    /\ shell["tierup"] = "running" /\ at["tierup"] > Len(Rebuild)
    /\ shell' = [shell EXCEPT !["tierup"] = "ended"]
    /\ UNCHANGED <<setting, at, errexit, skip, attempts, log, job, junit, upload>>

\* Faulty: the shell waits for a rebuild that ended well.
WaitForEnd ==
    /\ shell["main"] = "running" /\ at["main"] = WaitPoint
    /\ shell["tierup"] = "ended"
    /\ UNCHANGED vars

\* wait $tierup_pid returns the status of the fork, and set -e acts on it.
WaitFails ==
    /\ shell["main"] = "running" /\ at["main"] = WaitPoint
    /\ shell["tierup"] = "died"
    /\ Die("main")
    /\ UNCHANGED <<setting, attempts, log, job, junit, upload>>

\* unset skip_measurement; set +e.
EndCheck ==
    /\ shell["main"] = "running" /\ at["main"] = EndOfCheck
    /\ shell["tierup"] = "ended" /\ errexit
    /\ errexit' = FALSE /\ skip' = FALSE
    /\ UNCHANGED <<setting, at, shell, attempts, log, job, junit, upload>>

\* junit_upload: the copy is made of what is there, and fails when nothing is.
JunitUpload ==
    /\ shell["main"] = "running" /\ at["main"] > Len(Program["main"]) /\ ~errexit
    /\ upload' = IF golden /\ junit # NoResult THEN junit ELSE upload
    /\ shell' = [shell EXCEPT !["main"] = "ended"]
    /\ UNCHANGED <<setting, at, errexit, skip, attempts, log, job, junit>>

-----------------------------------------------------------------------------
(***************************************************************************)
(* status_data_create, a background process of its own.                    *)
(***************************************************************************)
\* Without elasticsearch_host, or GOLDEN, it returns before there is a result.
JobLeaves(cmd) ==
    /\ job[cmd] = "working"
    /\ ~(elastic /\ golden)
    /\ job' = [job EXCEPT ![cmd] = "gone"]
    /\ UNCHANGED <<setting, shells, attempts, log, junit, upload>>

\* Faulty: a failed command is judged as well.
JudgeAll(cmd) == IF judging THEN {"PASS", "FAIL", "ERROR"} ELSE {"ERROR"}

\* sd_result: only a command with rc 0 is compared with the history.
JudgementOf(cmd) ==
    IF Rc(cmd) = "ok" /\ judging THEN {"PASS", "FAIL", "ERROR"} ELSE {"ERROR"}

\* Faulty: the job always runs under set -e.
AlwaysFragile(cmd) == TRUE

\* The set -e after pass_or_fail.py: from here a failing command ends the job.
Fragile(cmd) == Rc(cmd) = "ok" /\ judging

Judge(cmd) ==
    /\ job[cmd] = "working"
    /\ elastic /\ golden
    /\ \/ \E result \in JudgementOf(cmd) : job' = [job EXCEPT ![cmd] = result]
       \/ Fragile(cmd) /\ job' = [job EXCEPT ![cmd] = "gone"]
    /\ UNCHANGED <<setting, shells, attempts, log, junit, upload>>

\* junit_cli.py add.
AddToJunit(cmd) ==
    /\ job[cmd] \in {"PASS", "FAIL", "ERROR"}
    /\ junit' = [junit EXCEPT ![cmd] = job[cmd]]
    /\ job' = [job EXCEPT ![cmd] = "gone"]
    /\ UNCHANGED <<setting, shells, attempts, log, upload>>

-----------------------------------------------------------------------------
ShellStep(sh) == Execute(sh) \/ Retry(sh) \/ Record(sh) \/ Examine(sh)
MainStep == ForkRebuild \/ WaitFails \/ EndCheck \/ JunitUpload
JobStep(cmd) == JobLeaves(cmd) \/ Judge(cmd) \/ AddToJunit(cmd)

Next ==
    \/ \E sh \in Shell : ShellStep(sh)
    \/ RebuildEnds
    \/ MainStep
    \/ \E cmd \in Command : JobStep(cmd)

(***************************************************************************)
(* Every process the shells start is assumed to end, and the system runs   *)
(* every process that can run.                                             *)
(***************************************************************************)
Fairness ==
    /\ \A sh \in Shell : WF_vars(ShellStep(sh))
    /\ WF_vars(RebuildEnds)
    /\ WF_vars(MainStep)
    /\ \A cmd \in Command : WF_vars(JobStep(cmd))

Spec == Init /\ [][Next]_vars
FairSpec == Spec /\ Fairness
=============================================================================
