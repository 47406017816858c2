---------------------------- MODULE TaskWaitProps ----------------------------
(***************************************************************************)
(* What waiting for Foreman tasks promises.                                *)
(***************************************************************************)
EXTENDS TaskWait

(***************************************************************************)
(* A printed duration is a measurement: that of a task that succeeded, and *)
(* that no earlier task of the same target ran before or beside.  The      *)
(* retries, whose timing isn't meaningful, are never printed, whichever    *)
(* include they come from.                                                 *)
(***************************************************************************)
PrintedIsFirst ==
    \A i \in printed :
        /\ tasks[i].state = "success"
        /\ \A j \in 1 .. i - 1 : tasks[j].target # tasks[i].target

(***************************************************************************)
(* The play works on a target twice at a time only when it had to give the *)
(* first task up: it never learned of it, or polled it to the last retry.  *)
(* An answer that is late or missing does not start a second task.         *)
(***************************************************************************)
OneTaskAtATime ==
    \A i, j \in DOMAIN tasks :
        i < j /\ tasks[i].target = tasks[j].target /\ tasks[i].state = "running"
        => ~tasks[i].known \/ tasks[i].polls = Polls

(***************************************************************************)
(* A play that ends well has a task that succeeded for every target, or    *)
(* the server's word that there was nothing to do.  The one exception are  *)
(* targets whose POST of the first loop met a transient error: failed_when *)
(* keeps it from failing the play and selectattr drops it from the loop.   *)
(***************************************************************************)
OkMeansDone ==
    pc = "ok" =>
        \A t \in Target :
            \/ \E i \in DOMAIN tasks : tasks[i].target = t /\ tasks[i].state = "success"
            \/ answer[t] = "nothing"
            \/ batch /\ answer[t] = "lost"

\* What is printed was measured without another task of the target beside it.
PrintedIsMeasured == PrintedIsFirst /\ OneTaskAtATime

\* The play ends, also when a task on the server never does.
PlayEnds == <>(pc \in {"ok", "failed"})
=============================================================================
