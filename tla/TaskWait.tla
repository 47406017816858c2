------------------------------- MODULE TaskWait -------------------------------
(***************************************************************************)
(* How a play starts Foreman tasks and waits for them:                     *)
(* playbooks/tests/includes/fire_and_wait_one.yaml, wait_or_retry_one.yaml *)
(* and wait_and_print.yaml.  A play either posts for all its targets and   *)
(* then waits for one after the other (cv_publish.yaml,                    *)
(* cv_version_promote.yaml), or posts and waits target by target           *)
(* (capsule_sync.yaml, repo_sync.yaml).  The tasks run on the server at    *)
(* their own pace; of a POST that fails nobody knows whether it started    *)
(* one.                                                                    *)
(***************************************************************************)
EXTENDS Naturals, Sequences

CONSTANTS
    Targets,    \* how many content views or sync targets the play has
    Polls       \* retries of Wait4...: _task_timeout over _retry_delay

ASSUME TaskWaitAssumption == Targets \in Nat /\ Polls \in Nat \ {0}

Target == 1 .. Targets

VARIABLES
    batch,      \* the play posts for all targets before it waits
    pc,         \* where the play is
    target,     \* the target it works on
    answer,     \* what the first POST for a target came to
    watched,    \* _foreman_task_id: the task the play waits for
    tasks,      \* the tasks on the server, in the order they were started
    rejected,   \* a POST of the first loop failed for good
    printed     \* the tasks whose duration was printed

play == <<pc, target, watched>>
vars == <<batch, play, answer, tasks, rejected, printed>>

\* The POSTs and the waits a target goes through, in this order.
Posting == {"post", "fire", "refire"}
Waiting == {"wait", "watch", "rewatch"}

Init ==
    /\ batch \in BOOLEAN
    /\ pc = IF batch THEN "post" ELSE "next"
    /\ target = 1 /\ watched = 0
    /\ answer = [t \in Target |-> "none"]
    /\ tasks = <<>>
    /\ rejected = FALSE
    /\ printed = {}

-----------------------------------------------------------------------------
\* What a POST starts on the server; known: the play learned its id.
Started(known) ==
    tasks' = Append(tasks, [target |-> target, state |-> "running",
                            known |-> known, polls |-> 0])

\* No answer, or an error: the task may have been started all the same.
NoAnswer == UNCHANGED tasks \/ Started(FALSE)

Learn(what) ==
    answer' = [answer EXCEPT ![target] = IF @ = "none" THEN what ELSE @]

NextTarget == pc' = "next" /\ target' = target + 1 /\ watched' = 0

(***************************************************************************)
(* The first loop of cv_publish.yaml.  A transient error does not fail the *)
(* item (failed_when), any other one fails the play after the loop.        *)
(***************************************************************************)
PostForAll ==
    /\ pc = "post" /\ target <= Targets
    /\ \/ Started(TRUE) /\ Learn("accepted") /\ UNCHANGED rejected
       \/ UNCHANGED tasks /\ Learn("nothing") /\ UNCHANGED rejected
       \/ NoAnswer /\ Learn("lost") /\ UNCHANGED rejected
       \/ NoAnswer /\ Learn("lost") /\ rejected' = TRUE
    /\ target' = target + 1
    /\ UNCHANGED <<batch, pc, watched, printed>>

PostsDone ==
    /\ pc = "post" /\ target > Targets
    /\ pc' = IF rejected THEN "failed" ELSE "next"
    /\ target' = 1
    /\ UNCHANGED <<batch, watched, answer, tasks, rejected, printed>>

\* The task that the first POST for a target started.
FirstTask(t) == CHOOSE i \in DOMAIN tasks : tasks[i].target = t /\ tasks[i].known

\* The second loop: only the targets whose POST was answered with 202.
TakeTarget ==
    /\ pc = "next" /\ target <= Targets
    /\ CASE ~batch -> pc' = "fire" /\ UNCHANGED <<target, watched>>
         [] batch /\ answer[target] = "accepted" ->
              pc' = "wait" /\ watched' = FirstTask(target) /\ UNCHANGED target
         [] OTHER -> NextTarget
    /\ UNCHANGED <<batch, answer, tasks, rejected, printed>>

EndPlay ==
    /\ pc = "next" /\ target > Targets
    /\ pc' = "ok"
    /\ UNCHANGED <<batch, target, watched, answer, tasks, rejected, printed>>

(***************************************************************************)
(* fire_and_wait_one.yaml: the POST of the block, and that of its rescue.  *)
(***************************************************************************)
WaitFor(stage) == pc' = stage /\ watched' = Len(tasks') /\ UNCHANGED target

Fire ==
    /\ pc = "fire"
    /\ \/ Started(TRUE) /\ Learn("accepted") /\ WaitFor("watch")
       \/ UNCHANGED tasks /\ answer' = [answer EXCEPT ![target] = "nothing"] /\ NextTarget
       \/ NoAnswer /\ Learn("lost") /\ pc' = "refire" /\ UNCHANGED <<target, watched>>
    /\ UNCHANGED <<batch, rejected, printed>>

Refire ==
    /\ pc = "refire"
    /\ \/ Started(TRUE) /\ WaitFor("rewatch") /\ UNCHANGED answer
       \/ UNCHANGED tasks /\ answer' = [answer EXCEPT ![target] = "nothing"] /\ NextTarget
       \/ NoAnswer /\ pc' = "failed" /\ UNCHANGED <<target, watched, answer>>
    /\ UNCHANGED <<batch, rejected, printed>>

-----------------------------------------------------------------------------
(***************************************************************************)
(* wait_and_print.yaml, the polls of a task.                               *)
(***************************************************************************)
\* The rescue of the stage that waited; after the last one the play fails.
Rescue ==
    /\ pc' = CASE pc = "wait" -> "fire" [] pc = "watch" -> "refire" [] OTHER -> "failed"
    /\ UNCHANGED <<target, watched>>

\* Faulty: a GET that fails leaves the count alone.
NotCounted(n) == n

Polled(n) == n + 1

\* Faulty: a GET without an answer ends the wait.
ExhaustedAtOnce(n) == TRUE

Exhausted(n) == n >= Polls

(***************************************************************************)
(* The task runs, or the GET itself failed: until asks for an answer       *)
(* (__wait_foreman_task_id is succeeded), and failed_when does as well.    *)
(***************************************************************************)
PollUnanswered ==
    /\ pc \in Waiting
    /\ tasks' = [tasks EXCEPT ![watched].polls = Polled(@)]
    /\ IF Exhausted(tasks'[watched].polls) THEN Rescue ELSE UNCHANGED play
    /\ UNCHANGED <<batch, answer, rejected, printed>>

\* Faulty: paused or stopped is enough.
EndedAsSuccess == {"success", "failed"}

\* The result that failed_when lets pass.
Succeeded == {"success"}

\* Faulty: _no_print does not reach the task.
PrintsAlways == TRUE

\* _no_print: the retries of either include are not printed.
Prints == pc = "wait" \/ (pc = "watch" /\ ~batch)

PollEnded ==
    /\ pc \in Waiting /\ tasks[watched].state # "running"
    /\ IF tasks[watched].state \in Succeeded
       THEN /\ printed' = IF Prints THEN printed \cup {watched} ELSE printed
            /\ NextTarget
       ELSE Rescue /\ UNCHANGED printed
    /\ UNCHANGED <<batch, answer, tasks, rejected>>

-----------------------------------------------------------------------------
\* The server ends a task: stopped with success, or with another result or paused.
TaskEnds(i) ==
    /\ tasks[i].state = "running"
    /\ \E state \in {"success", "failed"} : tasks' = [tasks EXCEPT ![i].state = state]
    /\ UNCHANGED <<batch, play, answer, rejected, printed>>

PlayStep ==
    PostForAll \/ PostsDone \/ TakeTarget \/ EndPlay \/ Fire \/ Refire
        \/ PollUnanswered \/ PollEnded

Next == PlayStep \/ \E i \in DOMAIN tasks : TaskEnds(i)

\* Every request has a timeout and every loop is counted, so the play is never
\* held up; nothing is assumed of the server, whose tasks may run for ever.
Spec == Init /\ [][Next]_vars /\ WF_vars(PlayStep)
=============================================================================
