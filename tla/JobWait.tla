------------------------------- MODULE JobWait -------------------------------
(***************************************************************************)
(* jsr and j of experiment/run-library.sh for a job invocation:             *)
(* scripts/wait_for_job.py watches its task and cancels it when nothing     *)
(* moves any more, scripts/get-task-fuzzy-duration.py then waits for the    *)
(* same task, reads its sub-tasks and works out how long they took.  The    *)
(* server works on at its own pace between any two requests.                *)
(***************************************************************************)
EXTENDS Integers, Sequences, FiniteSets

CONSTANTS
    Sub,         \* sub-tasks, one per host
    Timeout,     \* --timeout, in polls a minute apart
    Percentage,  \* --percentage
    LastMinute   \* bound: the clock stops there

ASSUME JobWaitAssumption ==
    /\ Timeout \in Nat \ {0} /\ LastMinute \in Nat
    /\ Percentage \in 0..100 /\ IsFiniteSet(Sub)

VARIABLES
    job,      \* the task of the job invocation on the server
    sub,      \* its sub-tasks
    minute,   \* the clock of the server
    script,   \* where jsr and j are
    seen,     \* the counts of the last poll
    counter,  \* timeout_counter
    cancelled, \* cancel?force=true was posted
    quiet,    \* history: polls since the counts last changed
    duration   \* what get-task-fuzzy-duration.py printed

jobVars == <<job, sub, minute, script, seen, counter, cancelled, quiet, duration>>

Nothing == [shown |-> FALSE]

JobInit ==
    /\ job = [task |-> FALSE, output |-> FALSE, stopped |-> FALSE]
    /\ sub = [s \in Sub |-> [state |-> "planned", start |-> 0, end |-> 0]]
    /\ minute = 0
    /\ script = "idle"
    /\ seen = <<0, 0, 0>>
    /\ counter = 0
    /\ cancelled = FALSE
    /\ quiet = 0
    /\ duration = Nothing

-----------------------------------------------------------------------------
In(state) == {s \in Sub : sub[s].state = state}
Open == In("planned") \cup In("running")

\* success_count, failed_count and pending_count of the output.
Counts == <<Cardinality(In("success")), Cardinality(In("failed")), Cardinality(Open)>>

scriptVars == <<script, seen, counter, cancelled, duration>>

\* The server creates the task, and writes its first output.
Publish ==
    /\ \/ ~job.task /\ job' = [job EXCEPT !.task = TRUE]
       \/ job.task /\ ~job.output /\ job' = [job EXCEPT !.output = TRUE]
    /\ UNCHANGED <<sub, minute, quiet, scriptVars>>

StartSub(s) ==
    /\ job.task /\ sub[s].state = "planned"
    /\ sub' = [sub EXCEPT ![s].state = "running", ![s].start = minute]
    /\ UNCHANGED <<job, minute, quiet, scriptVars>>

\* A sub-task ends; a host may never answer.
EndSub(s) ==
    /\ sub[s].state = "running" /\ minute > sub[s].start
    /\ \E result \in {"success", "failed"} :
         sub' = [sub EXCEPT ![s].state = result, ![s].end = minute]
    /\ quiet' = 0
    /\ UNCHANGED <<job, minute, scriptVars>>

\* A single sub-task is cancelled on the server: of the three counts only
\* pending_count moves.
CancelSub(s) ==
    /\ s \in Open
    /\ sub' = [sub EXCEPT ![s].state = "cancelled"]
    /\ quiet' = 0
    /\ UNCHANGED <<job, minute, scriptVars>>

\* What was cancelled with force takes the sub-tasks that are still open along.
StopJob ==
    /\ job.output /\ ~job.stopped
    /\ Open = {} \/ cancelled
    /\ job' = [job EXCEPT !.stopped = TRUE]
    /\ sub' = [s \in Sub |-> IF s \in Open THEN [sub[s] EXCEPT !.state = "cancelled"] ELSE sub[s]]
    /\ quiet' = 0
    /\ UNCHANGED <<minute, scriptVars>>

ServerStep ==
    \/ Publish \/ StopJob
    \/ \E s \in Sub : StartSub(s) \/ EndSub(s) \/ CancelSub(s)

-----------------------------------------------------------------------------
Sleep == minute' = IF minute < LastMinute THEN minute + 1 ELSE minute

\* The search for the job, until it has a task.
FindTask ==
    /\ script = "idle" /\ job.task
    /\ script' = "watch"
    /\ UNCHANGED <<job, sub, minute, quiet, seen, counter, cancelled, duration>>

\* Faulty: only sub-tasks that ended by themselves are progress.
ProgressOfEnded(counts) == counts[1] # seen[1] \/ counts[2] # seen[2]

Progress(counts) == counts # seen

\* One poll of a running task; before the output has all three counts nothing is
\* counted, a minute passes and no more.
Watch ==
    /\ script = "watch" /\ ~job.stopped /\ job.output
    /\ quiet' = quiet + 1
    /\ seen' = Counts
    /\ counter' = IF Progress(Counts) THEN 0 ELSE counter + 1
    /\ IF counter' = Timeout
       THEN cancelled' = TRUE /\ script' = "cancelled"
       ELSE UNCHANGED <<cancelled, script>>
    /\ Sleep
    /\ UNCHANGED <<job, sub, duration>>

\* The task has stopped, or the last look after a cancel; jsr returns 0 in any
\* case, also when an answer could not be parsed.
WatchEnds ==
    /\ script \in {"watch", "cancelled"}
    /\ job.stopped \/ script = "cancelled"
    /\ script' = "output"
    /\ counter' = 0
    /\ UNCHANGED <<job, sub, minute, quiet, seen, cancelled, duration>>

WatchDies ==
    /\ script \in {"watch", "cancelled"}
    /\ script' = "output" /\ counter' = 0
    /\ UNCHANGED <<job, sub, minute, quiet, seen, cancelled, duration>>

Finished(counts) == counts[1] + counts[2]

\* get-task-fuzzy-duration.py begins with the first output it sees.
SeeOutput ==
    /\ script = "output" /\ job.output
    /\ seen' = Counts
    /\ script' = "examine"
    /\ UNCHANGED <<job, sub, minute, quiet, counter, cancelled, duration>>

\* Faulty: the counter starts again at every poll.
NextCounterForgotten(n) == 1

NextCounter(n) == n + 1

Examine ==
    /\ script = "examine" /\ ~job.stopped
    /\ seen' = Counts
    /\ counter' = IF Finished(Counts) = Finished(seen) THEN NextCounter(counter) ELSE 0
    /\ script' = IF counter' = Timeout THEN "raised" ELSE "examine"
    /\ Sleep
    /\ UNCHANGED <<job, sub, quiet, cancelled, duration>>

-----------------------------------------------------------------------------
\* round() of a float: halves go to the even neighbour.
Rounded(n, d) ==
    LET q == n \div d
        r == n % d
    IN  IF 2 * r > d \/ (2 * r = d /\ q % 2 = 1) THEN q + 1 ELSE q

\* get_all adds page to page until it has the whole answer of the search.
SubTasks == Sub \ In("cancelled")

\* The sorted times of one kind.
Sorted(tasks, time) ==
    [i \in 1..Cardinality(tasks) |->
        CHOOSE t \in {sub[s][time] : s \in tasks} :
            /\ Cardinality({s \in tasks : sub[s][time] < t}) < i
            /\ Cardinality({s \in tasks : sub[s][time] <= t}) >= i]

\* Faulty: the first ends are dropped, as with the starts.
EndsCleanedAtHead(ends, n) == IF n > 0 THEN SubSeq(ends, n + 1, Len(ends)) ELSE ends

EndsCleaned(ends, n) == IF n > 0 THEN SubSeq(ends, 1, Len(ends) - n) ELSE ends
StartsCleaned(starts, n) == IF n > 0 THEN SubSeq(starts, n + 1, Len(starts)) ELSE starts

\* head and tail are what removing so many starts and ends takes off.
FuzzyDuration(tasks) ==
    LET starts == Sorted(tasks, "start")
        ends == Sorted(tasks, "end")
        to_remove == Rounded(Percentage * Cardinality(tasks), 100)
        kept == StartsCleaned(starts, to_remove)
        left == EndsCleaned(ends, to_remove)
    IN  [shown |-> TRUE, start |-> starts[1], end |-> ends[Len(ends)],
         start_cleaned |-> kept[1], end_cleaned |-> left[Len(left)]]

\* The sub-tasks that were not cancelled; without any, or with none left, min
\* raises.
Measure ==
    /\ script = "examine" /\ job.stopped
    /\ IF Cardinality(SubTasks) > Rounded(Percentage * Cardinality(SubTasks), 100)
       THEN script' = "printed" /\ duration' = FuzzyDuration(SubTasks)
       ELSE script' = "raised" /\ UNCHANGED duration
    /\ UNCHANGED <<job, sub, minute, quiet, seen, counter, cancelled>>

ScriptStep ==
    FindTask \/ Watch \/ WatchEnds \/ WatchDies \/ SeeOutput \/ Examine \/ Measure

JobNext == ServerStep \/ ScriptStep

JobSpec == JobInit /\ [][JobNext]_jobVars

-----------------------------------------------------------------------------
(* What waiting for a job and measuring its sub-tasks promises. *)
\* "spent more than {args.timeout} minute(s) with no sub-task progress and had
\* to be cancelled" (wait_for_job.py:131): when the cancel is posted, no count
\* has changed since before that many polls.
CancelledOnlyWhenStuck ==
    [][cancelled' /\ ~cancelled => quiet' >= Timeout]_jobVars

\* "removed head and tail with less than ... of running sub-tasks": the cleaned
\* start is the one that leaves exactly so many earlier ones away, the cleaned
\* end likewise, and what remains is a duration, inside the whole one, of a job
\* that has stopped.
FuzzyIsThin ==
    duration.shown =>
      LET to_remove == Rounded(Percentage * Cardinality(SubTasks), 100)
          Before(t) == {s \in SubTasks : sub[s].start < t}
          After(t) == {s \in SubTasks : sub[s].end > t}
      IN  /\ job.stopped
          /\ \A s \in SubTasks : duration.start <= sub[s].start /\ sub[s].end <= duration.end
          /\ Cardinality(Before(duration.start_cleaned)) <= to_remove
          /\ Cardinality(Before(duration.start_cleaned + 1)) > to_remove
          /\ Cardinality(After(duration.end_cleaned)) <= to_remove
          /\ Cardinality(After(duration.end_cleaned - 1)) > to_remove
          /\ 2 * to_remove < Cardinality(SubTasks) => duration.start_cleaned < duration.end_cleaned

\* A job that hangs is given up: once it has a task both scripts come to an end,
\* also when it cannot be cancelled.
JobIsGivenUp == job.task ~> script \in {"printed", "raised"}
=============================================================================
