------------------------------ MODULE MCTaskWait ------------------------------
(***************************************************************************)
(* Two targets and two polls: the second target's task runs while the play *)
(* waits for the first, retries it or gives it up.  A job invocation is    *)
(* watched after the play, as the experiments do it; bound: only after a   *)
(* play in which everything went well at once.                             *)
(***************************************************************************)
EXTENDS TaskWaitProps, JobWait

MCvars == <<vars, jobVars>>

PlayWentWell ==
    /\ pc = "ok" /\ batch /\ ~rejected /\ Len(tasks) = Targets
    /\ \A t \in Target : tasks[t] = [target |-> t, state |-> "success", known |-> TRUE, polls |-> 0]

PlayMoves == PlayStep /\ UNCHANGED jobVars
TaskMoves == (\E i \in DOMAIN tasks : TaskEnds(i)) /\ UNCHANGED jobVars
ScriptMoves == PlayWentWell /\ ScriptStep /\ UNCHANGED vars
ServerMoves == PlayWentWell /\ ServerStep /\ UNCHANGED vars
JobPublished == PlayWentWell /\ Publish /\ UNCHANGED vars

MCInit == Init /\ JobInit
MCSpec ==
    /\ MCInit
    /\ [][PlayMoves \/ TaskMoves \/ ScriptMoves \/ ServerMoves]_MCvars
    /\ WF_MCvars(PlayMoves) /\ WF_MCvars(ScriptMoves) /\ WF_MCvars(JobPublished)
=============================================================================
