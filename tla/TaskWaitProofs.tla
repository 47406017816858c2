---------------------------- MODULE TaskWaitProofs ----------------------------
(***************************************************************************)
(* TaskWait for any number of targets and polls, and JobWait for any       *)
(* number of sub-tasks, any timeout and percentage.                        *)
(***************************************************************************)
EXTENDS TaskWaitProps, JobWait, FiniteSetTheorems, WellFoundedInduction, TLAPS

Stage == {"post", "next", "ok", "failed", "fire", "refire", "wait", "watch", "rewatch"}
Task == [target : Target, state : {"running", "success", "failed"}, known : BOOLEAN, polls : Nat]

WaitTypeOK ==
    /\ batch \in BOOLEAN
    /\ pc \in Stage
    /\ target \in 1 .. Targets + 1
    /\ answer \in [Target -> {"none", "accepted", "nothing", "lost"}]
    /\ watched \in Nat
    /\ tasks \in Seq(Task)
    /\ rejected \in BOOLEAN
    /\ printed \subseteq DOMAIN tasks

\* Only plays with a first loop post there, and only for targets there are.
StageFits ==
    /\ pc \in {"post", "wait"} => batch
    /\ pc \notin {"post", "next", "ok", "failed"} => target <= Targets
    /\ pc = "ok" => target > Targets

\* The task that is polled is one of the target, with polls left.
WatchedFits ==
    /\ pc \in Waiting =>
         /\ watched \in DOMAIN tasks
         /\ tasks[watched].target = target /\ tasks[watched].known
         /\ tasks[watched].polls < Polls
    /\ pc \in {"watch", "rewatch"} => watched = Len(tasks)

\* What the first loop has learned of the targets behind it.
AnswersFit == batch =>
    \A t \in Target :
        /\ (pc = "post" => t < target) => answer[t] # "none"
        /\ answer[t] = "accepted" => \E i \in DOMAIN tasks : tasks[i].target = t /\ tasks[i].known

\* A target whose wait is still ahead has at most the task of the first loop,
\* and that was never polled.
Ahead(t) == pc = "post" \/ t > target \/ (t = target /\ pc = "next")
Fresh(t) == Ahead(t) \/ (t = target /\ pc = "wait")
TargetsAreFresh ==
    /\ pc = "post" => \A i \in DOMAIN tasks : tasks[i].target < target
    /\ batch => \A i \in DOMAIN tasks :
                  /\ Ahead(tasks[i].target) => tasks[i].polls = 0
                  /\ Fresh(tasks[i].target) =>
                       \A j \in DOMAIN tasks : tasks[i].target = tasks[j].target => i = j
    /\ ~batch => \A i \in DOMAIN tasks :
                   /\ tasks[i].target <= target
                   /\ pc \in {"next", "fire"} => tasks[i].target < target
                   /\ pc = "watch" /\ tasks[i].target = target => i = watched

GivenUp(i) == tasks[i].state = "running" => ~tasks[i].known \/ tasks[i].polls = Polls

\* Before a POST is sent again nothing runs that the play still waits for.
PostsWhenGivenUp ==
    pc \in {"fire", "refire"} => \A i \in DOMAIN tasks : tasks[i].target = target => GivenUp(i)

Done(t) ==
    \/ \E i \in DOMAIN tasks : tasks[i].target = t /\ tasks[i].state = "success"
    \/ answer[t] = "nothing"
    \/ batch /\ answer[t] = "lost"
DoneSoFar == pc # "post" => \A t \in Target : t < target => Done(t)

WaitInv ==
    /\ WaitTypeOK /\ StageFits /\ WatchedFits /\ AnswersFit
    /\ TargetsAreFresh /\ PostsWhenGivenUp /\ DoneSoFar
    /\ PrintedIsFirst /\ OneTaskAtATime

-----------------------------------------------------------------------------
LEMMA TypeFacts ==
    ASSUME WaitTypeOK
    PROVE  /\ Len(tasks) \in Nat /\ DOMAIN tasks = 1 .. Len(tasks)
           /\ \A i \in DOMAIN tasks :
                /\ tasks[i] \in Task
                /\ tasks[i].target \in Target /\ tasks[i].target \in Int
                /\ tasks[i].known \in BOOLEAN
                /\ tasks[i].polls \in Nat
           /\ target \in Int /\ target >= 1 /\ target <= Targets + 1
           /\ Targets \in Nat /\ Polls \in Nat /\ Polls > 0
           /\ \A t \in Target : t \in Int /\ t >= 1 /\ t <= Targets
  <1> USE TaskWaitAssumption
  <1>1. Len(tasks) \in Nat /\ DOMAIN tasks = 1 .. Len(tasks) /\ \A i \in DOMAIN tasks : tasks[i] \in Task
    BY DEF WaitTypeOK
  <1>2. \A t \in Target : t \in Int /\ t >= 1 /\ t <= Targets
    BY DEF Target
  <1>3. \A task \in Task : task.target \in Target /\ task.known \in BOOLEAN /\ task.polls \in Nat
    BY DEF Task
  <1> QED
    BY <1>1, <1>2, <1>3 DEF WaitTypeOK

(***************************************************************************)
(* The three ways in which the list of tasks changes.                      *)
(***************************************************************************)
LEMMA StartedFacts ==
    ASSUME WaitTypeOK, target \in Target, NEW known \in BOOLEAN, Started(known)
    PROVE  /\ tasks' \in Seq(Task)
           /\ Len(tasks') = Len(tasks) + 1
           /\ DOMAIN tasks' = 1 .. Len(tasks) + 1
           /\ DOMAIN tasks = 1 .. Len(tasks)
           /\ \A i \in DOMAIN tasks : tasks'[i] = tasks[i]
           /\ tasks'[Len(tasks) + 1].target = target
           /\ tasks'[Len(tasks) + 1].state = "running"
           /\ tasks'[Len(tasks) + 1].known = known
           /\ tasks'[Len(tasks) + 1].polls = 0
  <1> DEFINE new == [target |-> target, state |-> "running", known |-> known, polls |-> 0]
  <1>1. new \in Task
    BY DEF Task
  <1>2. tasks \in Seq(Task) /\ tasks' = Append(tasks, new)
    BY DEF WaitTypeOK, Started
  <1> QED
    BY <1>1, <1>2

LEMMA PolledFacts ==
    ASSUME WaitTypeOK, watched \in DOMAIN tasks,
           tasks' = [tasks EXCEPT ![watched].polls = Polled(@)]
    PROVE  /\ tasks' \in Seq(Task)
           /\ Len(tasks') = Len(tasks)
           /\ DOMAIN tasks' = DOMAIN tasks
           /\ \A i \in DOMAIN tasks :
                /\ tasks'[i].target = tasks[i].target
                /\ tasks'[i].state = tasks[i].state
                /\ tasks'[i].known = tasks[i].known
                /\ i # watched => tasks'[i].polls = tasks[i].polls
           /\ tasks'[watched].polls = tasks[watched].polls + 1
  <1> DEFINE old == tasks[watched]
             new == [old EXCEPT !.polls = old.polls + 1]
  <1>1. tasks \in Seq(Task) /\ old \in Task
    BY DEF WaitTypeOK
  <1>2. tasks' = [tasks EXCEPT ![watched] = new]
    BY DEF Polled
  <1>3. /\ new.target = old.target /\ new.state = old.state
        /\ new.known = old.known /\ new.polls = old.polls + 1
    BY <1>1 DEF Task
  <1>4. new \in Task
    <2>1. old.polls + 1 \in Nat
      BY <1>1 DEF Task
    <2> HIDE DEF old
    <2> DEFINE n == old.polls + 1
    <2> HIDE DEF n
    <2>2. [old EXCEPT !.polls = n] \in Task
      BY <1>1, <2>1 DEF Task, n
    <2> QED
      BY <2>2 DEF n
  <1> HIDE DEF new
  <1> QED
    BY <1>1, <1>2, <1>3, <1>4

LEMMA EndedFacts ==
    ASSUME WaitTypeOK, NEW n \in DOMAIN tasks, NEW state \in {"success", "failed"},
           tasks' = [tasks EXCEPT ![n].state = state]
    PROVE  /\ tasks' \in Seq(Task)
           /\ Len(tasks') = Len(tasks)
           /\ DOMAIN tasks' = DOMAIN tasks
           /\ \A i \in DOMAIN tasks :
                /\ tasks'[i].target = tasks[i].target
                /\ i # n => tasks'[i].state = tasks[i].state
                /\ tasks'[i].known = tasks[i].known
                /\ tasks'[i].polls = tasks[i].polls
           /\ tasks'[n].state = state
  <1>1. tasks \in Seq(Task) /\ tasks[n] \in Task
    BY DEF WaitTypeOK
  <1>2. [tasks[n] EXCEPT !.state = state] \in Task
    BY <1>1 DEF Task
  <1> QED
    BY <1>1, <1>2 DEF Task

-----------------------------------------------------------------------------
(***************************************************************************)
(* The first loop.                                                         *)
(***************************************************************************)
LEMMA InitHolds == ASSUME Init PROVE WaitInv
  <1>1. WaitTypeOK
    <2>1. target \in 1 .. Targets + 1
      BY TaskWaitAssumption DEF Init
    <2>2. tasks \in Seq(Task) /\ printed \subseteq DOMAIN tasks
      BY DEF Init
    <2>3. pc \in Stage /\ batch \in BOOLEAN /\ rejected \in BOOLEAN
      BY DEF Init, Stage
    <2>4. answer \in [Target -> {"none", "accepted", "nothing", "lost"}] /\ watched \in Nat
      BY DEF Init
    <2> QED
      BY <2>1, <2>2, <2>3, <2>4 DEF WaitTypeOK
  <1>2. tasks = <<>> /\ DOMAIN tasks = {} /\ printed = {} /\ target = 1
    BY DEF Init
  <1>3. StageFits /\ WatchedFits /\ AnswersFit
    BY <1>2, TaskWaitAssumption DEF Init, StageFits, WatchedFits, AnswersFit, Waiting, Target
  <1>4. TargetsAreFresh /\ PostsWhenGivenUp /\ PrintedIsFirst /\ OneTaskAtATime
    BY <1>2 DEF TargetsAreFresh, PostsWhenGivenUp, PrintedIsFirst, OneTaskAtATime
  <1>5. DoneSoFar
    BY <1>2 DEF DoneSoFar, Target
  <1> QED
    BY <1>1, <1>3, <1>4, <1>5 DEF WaitInv

LEMMA PostForAllStep ==
    ASSUME WaitInv, PostForAll
    PROVE  WaitInv'
  <1>1. /\ WaitTypeOK /\ StageFits /\ AnswersFit /\ TargetsAreFresh
        /\ PrintedIsFirst /\ OneTaskAtATime
    BY DEF WaitInv
  <1>2. /\ pc = "post" /\ pc' = "post" /\ batch /\ batch' = batch
        /\ target <= Targets /\ target' = target + 1
        /\ watched' = watched /\ printed' = printed
    BY <1>1 DEF PostForAll, StageFits
  <1>3. target \in Target
    BY <1>1, <1>2, TypeFacts DEF Target
  <1>4. /\ answer' \in [Target -> {"none", "accepted", "nothing", "lost"}]
        /\ answer'[target] # "none"
        /\ \A t \in Target : t # target => answer'[t] = answer[t]
        /\ answer'[target] = "accepted" => answer[target] = "accepted" \/ Started(TRUE)
    BY <1>1, <1>3 DEF WaitTypeOK, PostForAll, Learn
  <1>5. rejected' \in BOOLEAN
    BY <1>1 DEF PostForAll, WaitTypeOK
  <1>6. \/ UNCHANGED tasks
        \/ Started(TRUE)
        \/ Started(FALSE)
    BY DEF PostForAll, NoAnswer
  <1>7. \A i \in DOMAIN tasks : tasks[i].target < target /\ tasks[i].polls = 0
    BY <1>1, <1>2 DEF TargetsAreFresh, Ahead
  <1>8. \A i, j \in DOMAIN tasks : tasks[i].target = tasks[j].target => i = j
    BY <1>1, <1>2 DEF TargetsAreFresh, Fresh, Ahead
  <1>9. StageFits' /\ WatchedFits' /\ PostsWhenGivenUp' /\ DoneSoFar'
    BY <1>2 DEF StageFits, WatchedFits, PostsWhenGivenUp, DoneSoFar, Waiting
  <1>10. \A t \in Target : t < target' => answer'[t] # "none"
    BY <1>1, <1>2, <1>3, <1>4, TypeFacts DEF AnswersFit
  <1>11. CASE UNCHANGED tasks
    <2>1. ~Started(TRUE)
      <3> SUFFICES ASSUME Started(TRUE) PROVE FALSE
        OBVIOUS
      <3>1. Len(tasks') = Len(tasks) + 1
        BY <1>1, <1>3, StartedFacts
      <3> QED
        BY <1>1, <1>11, <3>1, TypeFacts
    <2>2. WaitTypeOK'
      BY <1>1, <1>2, <1>3, <1>4, <1>5, <1>11, TypeFacts DEF WaitTypeOK
    <2>3. \A t \in Target : answer'[t] = "accepted" => answer[t] = "accepted"
      BY <1>4, <2>1
    <2>4. AnswersFit'
      BY <1>1, <1>2, <1>10, <1>11, <2>3 DEF AnswersFit
    <2>5. TargetsAreFresh'
      BY <1>1, <1>2, <1>7, <1>8, <1>11, TypeFacts DEF TargetsAreFresh
    <2>6. PrintedIsFirst' /\ OneTaskAtATime'
      BY <1>1, <1>2, <1>11 DEF PrintedIsFirst, OneTaskAtATime
    <2> QED
      BY <1>9, <2>2, <2>4, <2>5, <2>6 DEF WaitInv
  <1>12. ASSUME NEW known \in BOOLEAN, Started(known)
         PROVE  WaitInv'
    <2> DEFINE n == Len(tasks) + 1
    <2>1. /\ tasks' \in Seq(Task) /\ DOMAIN tasks' = 1 .. n /\ DOMAIN tasks = 1 .. n - 1
          /\ n \in Nat \ {0}
          /\ \A i \in 1 .. n - 1 : tasks'[i] = tasks[i] /\ tasks[i].target \in Int
          /\ tasks'[n].target = target /\ tasks'[n].known = known
          /\ tasks'[n].polls = 0 /\ target \in Int
      BY <1>1, <1>3, <1>12, StartedFacts, TypeFacts
    <2> HIDE DEF n
    <2>2. WaitTypeOK'
      BY <1>1, <1>2, <1>3, <1>4, <1>5, <2>1, TypeFacts DEF WaitTypeOK
    <2>3. answer'[target] = "accepted" => known = TRUE \/ answer[target] = "accepted"
      BY <1>1, <1>3, <1>4, <1>12, StartedFacts, Zenon
    <2>4. AnswersFit'
      <3> SUFFICES ASSUME NEW t \in Target, answer'[t] = "accepted"
                   PROVE  \E i \in DOMAIN tasks' : tasks'[i].target = t /\ tasks'[i].known
        BY <1>2, <1>10 DEF AnswersFit
      <3>1. CASE t = target /\ known = TRUE
        <4>1. n \in DOMAIN tasks' /\ tasks'[n].target = t /\ tasks'[n].known = TRUE
          BY <2>1, <3>1
        <4> QED
          BY <4>1, Zenon
      <3>2. CASE answer[t] = "accepted"
        <4>1. PICK i \in DOMAIN tasks : tasks[i].target = t /\ tasks[i].known
          BY <1>1, <1>2, <3>2 DEF AnswersFit
        <4>2. i \in DOMAIN tasks' /\ tasks'[i] = tasks[i]
          BY <2>1
        <4> QED
          BY <4>1, <4>2
      <3> QED
        BY <1>4, <2>3, <3>1, <3>2
    <2>5. TargetsAreFresh'
      <3>1. \A i \in DOMAIN tasks' : tasks'[i].target < target' /\ tasks'[i].polls = 0
        BY <1>2, <1>7, <2>1
      <3>2. \A i, j \in DOMAIN tasks' : tasks'[i].target = tasks'[j].target => i = j
        BY <1>7, <1>8, <2>1
      <3> QED
        BY <1>2, <3>1, <3>2 DEF TargetsAreFresh
    <2>6. PrintedIsFirst'
      BY <1>1, <1>2, <2>1 DEF PrintedIsFirst, WaitTypeOK
    <2>7. OneTaskAtATime'
      BY <1>1, <1>2, <1>7, <2>1 DEF OneTaskAtATime
    <2> QED
      BY <1>9, <2>2, <2>4, <2>5, <2>6, <2>7 DEF WaitInv
  <1> QED
    BY <1>6, <1>11, <1>12

LEMMA PostsDoneStep ==
    ASSUME WaitInv, PostsDone
    PROVE  WaitInv'
  <1>1. /\ WaitTypeOK /\ StageFits /\ AnswersFit /\ TargetsAreFresh
        /\ PrintedIsFirst /\ OneTaskAtATime
    BY DEF WaitInv
  <1>2. /\ pc = "post" /\ pc' \in {"next", "failed"} /\ batch /\ batch' = batch
        /\ target > Targets /\ target' = 1
        /\ watched' = watched /\ printed' = printed /\ answer' = answer
        /\ tasks' = tasks /\ rejected' = rejected
    BY <1>1 DEF PostsDone, StageFits
  <1>3. WaitTypeOK'
    BY <1>1, <1>2, TypeFacts DEF WaitTypeOK, Stage
  <1>4. StageFits' /\ WatchedFits' /\ PostsWhenGivenUp'
    BY <1>2 DEF StageFits, WatchedFits, PostsWhenGivenUp, Waiting
  <1>5. AnswersFit'
    BY <1>1, <1>2, TypeFacts DEF AnswersFit
  <1>6. TargetsAreFresh'
    BY <1>1, <1>2 DEF TargetsAreFresh, Fresh, Ahead
  <1>7. DoneSoFar'
    BY <1>1, <1>2, TypeFacts DEF DoneSoFar
  <1>8. PrintedIsFirst' /\ OneTaskAtATime'
    BY <1>1, <1>2 DEF PrintedIsFirst, OneTaskAtATime
  <1> QED
    BY <1>3, <1>4, <1>5, <1>6, <1>7, <1>8 DEF WaitInv

-----------------------------------------------------------------------------
(***************************************************************************)
(* The loop over the targets.                                              *)
(***************************************************************************)
LEMMA TakeTargetStep ==
    ASSUME WaitInv, TakeTarget
    PROVE  WaitInv'
  <1>1. /\ WaitTypeOK /\ StageFits /\ AnswersFit /\ TargetsAreFresh /\ DoneSoFar
        /\ PrintedIsFirst /\ OneTaskAtATime
    BY DEF WaitInv
  <1>2. /\ pc = "next" /\ target <= Targets /\ batch' = batch /\ printed' = printed
        /\ answer' = answer /\ tasks' = tasks /\ rejected' = rejected
    BY DEF TakeTarget
  <1>3. target \in Target
    BY <1>1, <1>2, TypeFacts DEF Target
  <1>4. PrintedIsFirst' /\ OneTaskAtATime'
    BY <1>1, <1>2 DEF PrintedIsFirst, OneTaskAtATime
  <1>5. CASE ~batch
    <2>1. pc' = "fire" /\ target' = target /\ watched' = watched
      BY <1>5 DEF TakeTarget
    <2>2. WaitTypeOK' /\ StageFits' /\ WatchedFits' /\ AnswersFit'
      BY <1>1, <1>2, <1>5, <2>1
      DEF WaitTypeOK, Stage, StageFits, WatchedFits, AnswersFit, Waiting
    <2>3. TargetsAreFresh' /\ DoneSoFar'
      BY <1>1, <1>2, <1>5, <2>1 DEF TargetsAreFresh, DoneSoFar, Done
    <2>4. PostsWhenGivenUp'
      BY <1>1, <1>2, <1>5, <2>1, TypeFacts DEF TargetsAreFresh, PostsWhenGivenUp
    <2> QED
      BY <1>4, <2>2, <2>3, <2>4 DEF WaitInv
  <1>6. CASE batch /\ answer[target] = "accepted"
    <2>1. pc' = "wait" /\ watched' = FirstTask(target) /\ target' = target
      BY <1>6 DEF TakeTarget
    <2>2. \E i \in DOMAIN tasks : tasks[i].target = target /\ tasks[i].known
      BY <1>1, <1>3, <1>6 DEF AnswersFit
    <2>3. watched' \in DOMAIN tasks /\ tasks[watched'].target = target /\ tasks[watched'].known
      BY <2>1, <2>2 DEF FirstTask
    <2>4. tasks[watched'].polls = 0
      BY <1>1, <1>2, <1>6, <2>3 DEF TargetsAreFresh, Ahead
    <2>5. WaitTypeOK' /\ StageFits'
      BY <1>1, <1>2, <1>6, <2>1, <2>3, TypeFacts DEF WaitTypeOK, Stage, StageFits
    <2>6. WatchedFits' /\ AnswersFit' /\ PostsWhenGivenUp'
      BY <1>1, <1>2, <2>1, <2>3, <2>4, TypeFacts
      DEF WatchedFits, AnswersFit, PostsWhenGivenUp, Waiting
    <2>7. TargetsAreFresh'
      BY <1>1, <1>2, <1>6, <2>1 DEF TargetsAreFresh, Fresh, Ahead
    <2>8. DoneSoFar'
      BY <1>1, <1>2, <2>1 DEF DoneSoFar, Done
    <2> QED
      BY <1>4, <2>5, <2>6, <2>7, <2>8 DEF WaitInv
  <1>7. CASE batch /\ answer[target] # "accepted"
    <2>1. pc' = "next" /\ target' = target + 1 /\ watched' = 0
      BY <1>7 DEF TakeTarget, NextTarget
    <2>2. answer[target] \in {"nothing", "lost"}
      BY <1>1, <1>2, <1>3, <1>7 DEF AnswersFit, WaitTypeOK
    <2>3. WaitTypeOK'
      BY <1>1, <1>2, <2>1, TypeFacts DEF WaitTypeOK, Stage
    <2>4. StageFits' /\ WatchedFits' /\ AnswersFit' /\ PostsWhenGivenUp'
      BY <1>1, <1>2, <1>7, <2>1
      DEF StageFits, WatchedFits, AnswersFit, PostsWhenGivenUp, Waiting
    <2>5. TargetsAreFresh'
      BY <1>1, <1>2, <1>7, <2>1, TypeFacts DEF TargetsAreFresh, Fresh, Ahead
    <2>6. DoneSoFar'
      BY <1>1, <1>2, <1>7, <2>1, <2>2, TypeFacts DEF DoneSoFar, Done
    <2> QED
      BY <1>4, <2>3, <2>4, <2>5, <2>6 DEF WaitInv
  <1> QED
    BY <1>5, <1>6, <1>7

LEMMA EndPlayStep ==
    ASSUME WaitInv, EndPlay
    PROVE  WaitInv'
  <1>1. /\ WaitTypeOK /\ AnswersFit /\ TargetsAreFresh /\ DoneSoFar
        /\ PrintedIsFirst /\ OneTaskAtATime
    BY DEF WaitInv
  <1>2. /\ pc = "next" /\ pc' = "ok" /\ target > Targets /\ batch' = batch
        /\ printed' = printed /\ target' = target /\ watched' = watched
        /\ answer' = answer /\ tasks' = tasks /\ rejected' = rejected
    BY DEF EndPlay
  <1>3. WaitTypeOK'
    BY <1>1, <1>2 DEF WaitTypeOK, Stage
  <1>4. StageFits' /\ WatchedFits' /\ AnswersFit' /\ PostsWhenGivenUp'
    BY <1>1, <1>2 DEF StageFits, WatchedFits, AnswersFit, PostsWhenGivenUp, Waiting
  <1>5. TargetsAreFresh' /\ DoneSoFar'
    BY <1>1, <1>2 DEF TargetsAreFresh, Fresh, Ahead, DoneSoFar, Done
  <1>6. PrintedIsFirst' /\ OneTaskAtATime'
    BY <1>1, <1>2 DEF PrintedIsFirst, OneTaskAtATime
  <1> QED
    BY <1>3, <1>4, <1>5, <1>6 DEF WaitInv

-----------------------------------------------------------------------------
(***************************************************************************)
(* The POSTs of one target.                                                *)
(***************************************************************************)
\* A POST started a task.
LEMMA StartedKeeps ==
    ASSUME WaitInv, pc \in {"fire", "refire"}, NEW known \in BOOLEAN, Started(known),
           pc' \in {"watch", "rewatch", "refire", "failed"},
           pc' = "watch" => pc = "fire",
           pc' \in {"watch", "rewatch"} => known /\ watched' = Len(tasks'),
           watched' \in Nat, pc' = "refire" => ~known,
           answer' \in [Target -> {"none", "accepted", "nothing", "lost"}],
           \A t \in Target : answer'[t] # answer[t] => t = target /\ answer'[t] # "none",
           \A t \in Target : answer'[t] # answer[t] /\ answer'[t] = "accepted" => known,
           UNCHANGED <<batch, target, rejected, printed>>
    PROVE  WaitInv'
  <1> DEFINE n == Len(tasks) + 1
  <1>1. /\ WaitTypeOK /\ StageFits /\ AnswersFit /\ TargetsAreFresh
        /\ PostsWhenGivenUp /\ DoneSoFar /\ PrintedIsFirst /\ OneTaskAtATime
    BY DEF WaitInv
  <1>2. target \in Target /\ target <= Targets
    BY <1>1, TypeFacts DEF StageFits, Target
  <1>3. /\ tasks' \in Seq(Task) /\ DOMAIN tasks' = 1 .. n /\ DOMAIN tasks = 1 .. n - 1
        /\ n \in Nat \ {0} /\ Len(tasks') = n
        /\ \A i \in 1 .. n - 1 : tasks'[i] = tasks[i]
        /\ tasks'[n].target = target /\ tasks'[n].known = known
        /\ tasks'[n].polls = 0
    <2>1. /\ tasks' \in Seq(Task)
          /\ Len(tasks') = Len(tasks) + 1
          /\ DOMAIN tasks' = 1 .. Len(tasks) + 1
          /\ DOMAIN tasks = 1 .. Len(tasks)
          /\ \A i \in DOMAIN tasks : tasks'[i] = tasks[i]
          /\ tasks'[Len(tasks) + 1].target = target
          /\ tasks'[Len(tasks) + 1].known = known
          /\ tasks'[Len(tasks) + 1].polls = 0
      BY <1>1, <1>2, StartedFacts, Zenon
    <2> QED
      BY <1>1, <2>1, TypeFacts
  <1> HIDE DEF n
  <1>4. WaitTypeOK'
    BY <1>1, <1>3 DEF WaitTypeOK, Stage
  <1>5. StageFits'
    BY <1>2 DEF StageFits
  <1>6. WatchedFits'
    BY <1>3, TaskWaitAssumption DEF WatchedFits, Waiting
  <1>7. AnswersFit'
    <2> SUFFICES ASSUME batch, NEW t \in Target
                 PROVE  /\ answer'[t] # "none"
                        /\ answer'[t] = "accepted" =>
                             \E i \in DOMAIN tasks' : tasks'[i].target = t /\ tasks'[i].known
      BY DEF AnswersFit
    <2>1. answer'[t] # "none"
      BY <1>1 DEF AnswersFit
    <2>2. ASSUME answer'[t] = "accepted"
          PROVE  \E i \in DOMAIN tasks' : tasks'[i].target = t /\ tasks'[i].known
      <3>1. CASE answer[t] = "accepted"
        <4>1. PICK i \in DOMAIN tasks : tasks[i].target = t /\ tasks[i].known
          BY <1>1, <3>1 DEF AnswersFit
        <4>2. i \in DOMAIN tasks' /\ tasks'[i] = tasks[i]
          BY <1>3
        <4> QED
          BY <4>1, <4>2
      <3>2. CASE answer[t] # "accepted"
        <4>1. t = target /\ known
          BY <2>2, <3>2
        <4>2. n \in DOMAIN tasks' /\ tasks'[n].target = t /\ tasks'[n].known = known
          BY <1>3, <4>1
        <4> QED
          BY <4>1, <4>2, Zenon
      <3> QED
        BY <3>1, <3>2
    <2> QED
      BY <2>1, <2>2
  <1>8. TargetsAreFresh'
    <2>1. \A t : t > target => Ahead(t)
      BY DEF Ahead
    <2>2. pc' \notin {"post", "next", "wait", "fire"}
      OBVIOUS
    <2>3. ASSUME batch, NEW i \in DOMAIN tasks', tasks'[i].target > target
          PROVE  /\ tasks'[i].polls = 0
                 /\ \A j \in DOMAIN tasks' : tasks'[i].target = tasks'[j].target => i = j
      <3>1. i \in 1 .. n - 1 /\ tasks'[i] = tasks[i] /\ Ahead(tasks[i].target)
        BY <1>1, <1>3, <2>1, <2>3, TypeFacts
      <3>2. /\ tasks[i].polls = 0
            /\ \A j \in DOMAIN tasks : tasks[i].target = tasks[j].target => i = j
        BY <1>1, <1>3, <2>3, <3>1 DEF TargetsAreFresh, Fresh
      <3> QED
        BY <1>1, <1>3, <2>3, <3>1, <3>2, TypeFacts
    <2>4. ~batch => \A i \in DOMAIN tasks' :
                      /\ tasks'[i].target <= target
                      /\ pc' = "watch" /\ tasks'[i].target = target => i = watched'
      BY <1>1, <1>3, TypeFacts DEF TargetsAreFresh
    <2> QED
      BY <2>2, <2>3, <2>4 DEF TargetsAreFresh, Fresh, Ahead
  <1>9. PostsWhenGivenUp'
    BY <1>1, <1>3 DEF PostsWhenGivenUp, GivenUp
  <1>10. DoneSoFar'
    <2> SUFFICES ASSUME NEW t \in Target, t < target PROVE Done(t)'
      BY DEF DoneSoFar
    <2>1. Done(t) /\ t # target
      BY <1>1, <1>2, TypeFacts DEF DoneSoFar
    <2> QED
      BY <1>3, <2>1 DEF Done
  <1>11. PrintedIsFirst'
    BY <1>1, <1>3 DEF PrintedIsFirst, WaitTypeOK
  <1>12. OneTaskAtATime'
    BY <1>1, <1>3 DEF OneTaskAtATime, PostsWhenGivenUp, GivenUp
  <1> QED
    BY <1>4, <1>5, <1>6, <1>7, <1>8, <1>9, <1>10, <1>11, <1>12 DEF WaitInv

\* A POST was answered without a task, or not at all.
LEMMA NotStartedKeeps ==
    ASSUME WaitInv, pc \in {"fire", "refire"}, UNCHANGED tasks,
           \/ /\ answer' = [answer EXCEPT ![target] = "nothing"]
              /\ NextTarget
           \/ /\ Learn("lost") \/ UNCHANGED answer
              /\ pc' \in {"refire", "failed"}
              /\ UNCHANGED <<target, watched>>,
           UNCHANGED <<batch, rejected, printed>>
    PROVE  WaitInv'
  <1>1. /\ WaitTypeOK /\ StageFits /\ AnswersFit /\ TargetsAreFresh
        /\ PostsWhenGivenUp /\ DoneSoFar /\ PrintedIsFirst /\ OneTaskAtATime
    BY DEF WaitInv
  <1>2. target \in Target /\ target <= Targets
    BY <1>1, TypeFacts DEF StageFits, Target
  <1>3. PrintedIsFirst' /\ OneTaskAtATime'
    BY <1>1 DEF PrintedIsFirst, OneTaskAtATime
  <1>4. /\ answer' \in [Target -> {"none", "accepted", "nothing", "lost"}]
        /\ \A t \in Target : /\ t # target => answer'[t] = answer[t]
                             /\ answer'[t] = "accepted" => answer[t] = "accepted"
                             /\ answer'[t] = "none" => answer[t] = "none"
    BY <1>1, <1>2 DEF WaitTypeOK, Learn
  <1>5. AnswersFit'
    BY <1>1, <1>4 DEF AnswersFit, NextTarget
  <1>6. CASE NextTarget /\ answer' = [answer EXCEPT ![target] = "nothing"]
    <2>1. pc' = "next" /\ target' = target + 1 /\ watched' = 0 /\ answer'[target] = "nothing"
      BY <1>1, <1>2, <1>6 DEF NextTarget, WaitTypeOK
    <2>2. WaitTypeOK'
      BY <1>1, <1>2, <1>4, <2>1, TypeFacts DEF WaitTypeOK, Stage
    <2>3. StageFits' /\ WatchedFits' /\ PostsWhenGivenUp'
      BY <2>1 DEF StageFits, WatchedFits, PostsWhenGivenUp, Waiting
    <2>4. TargetsAreFresh'
      BY <1>1, <2>1, TypeFacts DEF TargetsAreFresh, Fresh, Ahead
    <2>5. DoneSoFar'
      <3> SUFFICES ASSUME NEW t \in Target, t < target' PROVE Done(t)'
        BY DEF DoneSoFar
      <3>1. CASE t = target
        BY <2>1, <3>1 DEF Done
      <3>2. CASE t # target
        BY <1>1, <1>4, <2>1, <3>2, TypeFacts DEF DoneSoFar, Done
      <3> QED
        BY <3>1, <3>2
    <2> QED
      BY <1>3, <1>5, <2>2, <2>3, <2>4, <2>5 DEF WaitInv
  <1>7. CASE pc' \in {"refire", "failed"} /\ UNCHANGED <<target, watched>>
    <2>1. WaitTypeOK' /\ StageFits' /\ WatchedFits' /\ PostsWhenGivenUp'
      BY <1>1, <1>2, <1>4, <1>7
      DEF WaitTypeOK, Stage, StageFits, WatchedFits, PostsWhenGivenUp, Waiting, GivenUp
    <2>2. TargetsAreFresh'
      BY <1>1, <1>7, TypeFacts DEF TargetsAreFresh, Fresh, Ahead
    <2>3. DoneSoFar'
      BY <1>1, <1>4, <1>7, TypeFacts DEF DoneSoFar, Done
    <2> QED
      BY <1>3, <1>5, <2>1, <2>2, <2>3 DEF WaitInv
  <1> QED
    BY <1>6, <1>7

LEMMA FireStep ==
    ASSUME WaitInv, Fire
    PROVE  WaitInv'
  <1>1. pc = "fire" /\ UNCHANGED <<batch, rejected, printed>>
    BY DEF Fire
  <1>2. WaitTypeOK /\ target \in Target
    BY <1>1, TypeFacts DEF WaitInv, StageFits, Target
  <1>3. ASSUME NEW what \in {"accepted", "lost"}, Learn(what)
        PROVE  /\ answer' \in [Target -> {"none", "accepted", "nothing", "lost"}]
               /\ \A t \in Target : answer'[t] # answer[t] => t = target /\ answer'[t] = what
    BY <1>2, <1>3 DEF WaitTypeOK, Learn
  <1>4. CASE Started(TRUE) /\ Learn("accepted") /\ WaitFor("watch")
    <2>1. pc' = "watch" /\ watched' = Len(tasks') /\ UNCHANGED target
      BY <1>4 DEF WaitFor
    <2>2. watched' \in Nat
      BY <1>2, <1>4, <2>1, StartedFacts, TypeFacts
    <2> QED
      BY <1>1, <1>3, <1>4, <2>1, <2>2, StartedKeeps
  <1>5. CASE UNCHANGED tasks /\ answer' = [answer EXCEPT ![target] = "nothing"] /\ NextTarget
    BY <1>1, <1>5, NotStartedKeeps
  <1>6. CASE NoAnswer /\ Learn("lost") /\ pc' = "refire" /\ UNCHANGED <<target, watched>>
    <2>1. CASE UNCHANGED tasks
      BY <1>1, <1>6, <2>1, NotStartedKeeps
    <2>2. CASE Started(FALSE)
      BY <1>1, <1>2, <1>3, <1>6, <2>2, StartedKeeps DEF WaitTypeOK
    <2> QED
      BY <1>6, <2>1, <2>2 DEF NoAnswer
  <1> QED
    BY <1>4, <1>5, <1>6 DEF Fire

LEMMA RefireStep ==
    ASSUME WaitInv, Refire
    PROVE  WaitInv'
  <1>1. pc = "refire" /\ UNCHANGED <<batch, rejected, printed>>
    BY DEF Refire
  <1>2. WaitTypeOK /\ target \in Target
    BY <1>1, TypeFacts DEF WaitInv, StageFits, Target
  <1>3. CASE Started(TRUE) /\ WaitFor("rewatch") /\ UNCHANGED answer
    <2>1. pc' = "rewatch" /\ watched' = Len(tasks') /\ UNCHANGED target
      BY <1>3 DEF WaitFor
    <2>2. watched' \in Nat
      BY <1>2, <1>3, <2>1, StartedFacts, TypeFacts
    <2> QED
      BY <1>1, <1>2, <1>3, <2>1, <2>2, StartedKeeps DEF WaitTypeOK
  <1>4. CASE UNCHANGED tasks /\ answer' = [answer EXCEPT ![target] = "nothing"] /\ NextTarget
    BY <1>1, <1>4, NotStartedKeeps
  <1>5. CASE NoAnswer /\ pc' = "failed" /\ UNCHANGED <<target, watched, answer>>
    <2>1. CASE UNCHANGED tasks
      BY <1>1, <1>5, <2>1, NotStartedKeeps
    <2>2. CASE Started(FALSE)
      BY <1>1, <1>2, <1>5, <2>2, StartedKeeps DEF WaitTypeOK
    <2> QED
      BY <1>5, <2>1, <2>2 DEF NoAnswer
  <1> QED
    BY <1>3, <1>4, <1>5 DEF Refire

-----------------------------------------------------------------------------
(***************************************************************************)
(* The wait.                                                               *)
(***************************************************************************)
\* The task that is polled is the only one of its target still waited for.
LEMMA OthersGivenUp ==
    ASSUME WaitInv, pc \in Waiting
    PROVE  \A i \in DOMAIN tasks : tasks[i].target = target /\ i # watched => GivenUp(i)
  <1>1. /\ WaitTypeOK /\ StageFits /\ WatchedFits /\ TargetsAreFresh /\ OneTaskAtATime
    BY DEF WaitInv
  <1>2. watched \in DOMAIN tasks /\ tasks[watched].target = target
    BY <1>1 DEF WatchedFits
  <1>3. CASE pc = "wait"
    BY <1>1, <1>2, <1>3 DEF StageFits, TargetsAreFresh, Fresh
  <1>4. CASE pc \in {"watch", "rewatch"}
    <2>1. \A i \in DOMAIN tasks : i # watched => i < watched
      BY <1>1, <1>4, TypeFacts DEF WatchedFits
    <2> QED
      BY <1>1, <1>2, <2>1 DEF OneTaskAtATime, GivenUp
  <1> QED
    BY <1>3, <1>4 DEF Waiting

LEMMA PollUnansweredStep ==
    ASSUME WaitInv, PollUnanswered
    PROVE  WaitInv'
  <1>1. /\ WaitTypeOK /\ StageFits /\ WatchedFits /\ AnswersFit /\ TargetsAreFresh
        /\ PostsWhenGivenUp /\ DoneSoFar /\ PrintedIsFirst /\ OneTaskAtATime
    BY DEF WaitInv
  <1>2. /\ pc \in Waiting /\ pc \in {"wait", "watch", "rewatch"}
        /\ watched \in DOMAIN tasks /\ target <= Targets
        /\ tasks[watched].target = target /\ tasks[watched].known
        /\ tasks[watched].polls < Polls
    BY <1>1 DEF PollUnanswered, WatchedFits, StageFits, Waiting
  <1>3. /\ batch' = batch /\ answer' = answer /\ rejected' = rejected /\ printed' = printed
        /\ target' = target /\ watched' = watched
    BY DEF PollUnanswered, play, Rescue
  <1>4. /\ tasks' \in Seq(Task) /\ Len(tasks') = Len(tasks) /\ DOMAIN tasks' = DOMAIN tasks
        /\ \A i \in DOMAIN tasks :
             /\ tasks'[i].target = tasks[i].target
             /\ tasks'[i].state = tasks[i].state
             /\ tasks'[i].known = tasks[i].known
             /\ i # watched => tasks'[i].polls = tasks[i].polls
        /\ tasks'[watched].polls = tasks[watched].polls + 1
    <2>1. tasks' = [tasks EXCEPT ![watched].polls = Polled(@)]
      BY DEF PollUnanswered
    <2> QED
      BY <1>1, <1>2, <2>1, PolledFacts, Zenon
  <1>5. \/ pc' = pc /\ tasks'[watched].polls < Polls
        \/ pc' \in {"fire", "refire", "failed"} /\ tasks'[watched].polls = Polls
           /\ (pc' = "fire" => pc = "wait")
    <2>1. CASE Exhausted(tasks'[watched].polls)
      <3>1. pc' \in {"fire", "refire", "failed"} /\ (pc' = "fire" => pc = "wait")
        BY <1>2, <2>1 DEF PollUnanswered, Rescue
      <3>2. tasks'[watched].polls = Polls
        <4>1. tasks[watched].polls \in Nat /\ Polls \in Nat
          BY <1>1, <1>2, TypeFacts
        <4> QED
          BY <1>2, <1>4, <2>1, <4>1 DEF Exhausted
      <3> QED
        BY <3>1, <3>2
    <2>2. CASE ~Exhausted(tasks'[watched].polls)
      <3>1. pc' = pc
        BY <2>2 DEF PollUnanswered, play
      <3>2. tasks'[watched].polls < Polls
        BY <1>1, <1>2, <1>4, <2>2, TypeFacts DEF Exhausted
      <3> QED
        BY <3>1, <3>2
    <2> QED
      BY <2>1, <2>2
  <1>6. WaitTypeOK' /\ StageFits'
    BY <1>1, <1>2, <1>3, <1>4, <1>5 DEF WaitTypeOK, Stage, StageFits
  <1>7. WatchedFits'
    BY <1>1, <1>2, <1>3, <1>4, <1>5 DEF WatchedFits, Waiting
  <1>8. AnswersFit' /\ DoneSoFar'
    BY <1>1, <1>2, <1>3, <1>4, <1>5 DEF AnswersFit, DoneSoFar, Done
  <1>9. TargetsAreFresh'
    <2>1. \A i \in DOMAIN tasks : Ahead(tasks[i].target) => i # watched
      BY <1>1, <1>2, TypeFacts DEF Ahead
    <2>2. \A t : (Ahead(t)' => Ahead(t)) /\ (Fresh(t)' => Fresh(t))
      BY <1>2, <1>3, <1>5 DEF Ahead, Fresh
    <2>3. ASSUME batch, NEW i \in DOMAIN tasks'
          PROVE  /\ Ahead(tasks[i].target) => tasks'[i].polls = 0
                 /\ Fresh(tasks[i].target) =>
                      \A j \in DOMAIN tasks' : tasks'[i].target = tasks'[j].target => i = j
      BY <1>1, <1>4, <2>1, <2>3 DEF TargetsAreFresh
    <2>4. ASSUME ~batch, NEW i \in DOMAIN tasks'
          PROVE  /\ tasks'[i].target <= target
                 /\ pc' \notin {"next", "fire"}
                 /\ pc' = "watch" /\ tasks'[i].target = target => i = watched
      BY <1>1, <1>2, <1>4, <1>5, <2>4 DEF TargetsAreFresh, StageFits
    <2>5. pc' # "post"
      BY <1>2, <1>5
    <2> QED
      BY <1>3, <1>4, <2>2, <2>3, <2>4, <2>5 DEF TargetsAreFresh
  <1>10. PostsWhenGivenUp'
    <2> SUFFICES ASSUME pc' \in {"fire", "refire"}, NEW i \in DOMAIN tasks,
                        tasks[i].target = target
                 PROVE  GivenUp(i)'
      BY <1>3, <1>4 DEF PostsWhenGivenUp
    <2>1. CASE i = watched
      BY <1>2, <1>5, <2>1 DEF GivenUp
    <2>2. CASE i # watched
      <3>1. GivenUp(i)
        BY <1>2, <2>2, OthersGivenUp
      <3> QED
        BY <1>4, <2>2, <3>1 DEF GivenUp
    <2> QED
      BY <2>1, <2>2
  <1>11. PrintedIsFirst'
    BY <1>1, <1>3, <1>4 DEF PrintedIsFirst, WaitTypeOK
  <1>12. OneTaskAtATime'
    BY <1>1, <1>2, <1>4, TypeFacts DEF OneTaskAtATime
  <1> QED
    BY <1>6, <1>7, <1>8, <1>9, <1>10, <1>11, <1>12 DEF WaitInv

LEMMA PollEndedStep ==
    ASSUME WaitInv, PollEnded
    PROVE  WaitInv'
  <1>1. /\ WaitTypeOK /\ StageFits /\ WatchedFits /\ AnswersFit /\ TargetsAreFresh
        /\ PostsWhenGivenUp /\ DoneSoFar /\ PrintedIsFirst /\ OneTaskAtATime
    BY DEF WaitInv
  <1>2. /\ pc \in Waiting /\ pc \in {"wait", "watch", "rewatch"}
        /\ watched \in DOMAIN tasks /\ target <= Targets
        /\ tasks[watched].target = target /\ tasks[watched].state # "running"
    BY <1>1 DEF PollEnded, WatchedFits, StageFits, Waiting
  <1>3. batch' = batch /\ answer' = answer /\ rejected' = rejected /\ tasks' = tasks
    BY DEF PollEnded
  <1>4. AnswersFit' /\ OneTaskAtATime'
    BY <1>1, <1>2, <1>3, TypeFacts DEF AnswersFit, OneTaskAtATime, PollEnded, NextTarget, Rescue
  <1>5. CASE tasks[watched].state \in Succeeded
    <2>1. /\ pc' = "next" /\ target' = target + 1 /\ watched' = 0
          /\ tasks[watched].state = "success"
          /\ printed' = IF Prints THEN printed \cup {watched} ELSE printed
      BY <1>5 DEF PollEnded, NextTarget, Succeeded
    <2>2. WaitTypeOK'
      BY <1>1, <1>2, <1>3, <2>1, TypeFacts DEF WaitTypeOK, Stage
    <2>3. StageFits' /\ WatchedFits' /\ PostsWhenGivenUp'
      BY <2>1 DEF StageFits, WatchedFits, PostsWhenGivenUp, Waiting
    <2>4. TargetsAreFresh'
      BY <1>1, <1>3, <2>1, TypeFacts DEF TargetsAreFresh, Fresh, Ahead
    <2>5. DoneSoFar'
      <3> SUFFICES ASSUME NEW t \in Target, t < target' PROVE Done(t)'
        BY DEF DoneSoFar
      <3>1. CASE t = target
        BY <1>2, <1>3, <2>1, <3>1 DEF Done
      <3>2. CASE t # target
        BY <1>1, <1>2, <1>3, <2>1, <3>2, TypeFacts DEF DoneSoFar, Done
      <3> QED
        BY <3>1, <3>2
    <2>6. PrintedIsFirst'
      <3>1. ASSUME Prints
            PROVE  \A j \in DOMAIN tasks : tasks[j].target = target => j = watched
        BY <1>1, <1>2, <3>1 DEF Prints, StageFits, TargetsAreFresh, Fresh
      <3>2. ASSUME Prints
            PROVE  \A j \in 1 .. watched - 1 : tasks[j].target # target
        BY <1>1, <1>2, <3>1, <3>2, TypeFacts
      <3> QED
        BY <1>1, <1>2, <1>3, <2>1, <3>2 DEF PrintedIsFirst
    <2> QED
      BY <1>4, <2>2, <2>3, <2>4, <2>5, <2>6 DEF WaitInv
  <1>6. CASE tasks[watched].state \notin Succeeded
    <2>1. /\ pc' \in {"fire", "refire", "failed"} /\ (pc' = "fire" => pc = "wait")
          /\ target' = target /\ watched' = watched /\ printed' = printed
      BY <1>2, <1>6 DEF PollEnded, Rescue
    <2>2. WaitTypeOK' /\ StageFits' /\ WatchedFits' /\ PrintedIsFirst'
      BY <1>1, <1>2, <1>3, <2>1
      DEF WaitTypeOK, Stage, StageFits, WatchedFits, Waiting, PrintedIsFirst
    <2>3. TargetsAreFresh'
      BY <1>1, <1>2, <1>3, <2>1 DEF TargetsAreFresh, Fresh, Ahead, StageFits
    <2>4. DoneSoFar'
      BY <1>1, <1>2, <1>3, <2>1 DEF DoneSoFar, Done
    <2>5. PostsWhenGivenUp'
      <3> SUFFICES ASSUME NEW i \in DOMAIN tasks, tasks[i].target = target
                   PROVE  GivenUp(i)
        BY <1>3, <2>1 DEF PostsWhenGivenUp, GivenUp
      <3> QED
        BY <1>2, OthersGivenUp DEF GivenUp
    <2> QED
      BY <1>4, <2>2, <2>3, <2>4, <2>5 DEF WaitInv
  <1> QED
    BY <1>5, <1>6

LEMMA TaskEndsStep ==
    ASSUME WaitInv, NEW n \in DOMAIN tasks, TaskEnds(n)
    PROVE  WaitInv'
  <1>1. /\ WaitTypeOK /\ StageFits /\ WatchedFits /\ AnswersFit /\ TargetsAreFresh
        /\ PostsWhenGivenUp /\ DoneSoFar /\ PrintedIsFirst /\ OneTaskAtATime
    BY DEF WaitInv
  <1>2. /\ tasks[n].state = "running"
        /\ batch' = batch /\ pc' = pc /\ target' = target /\ watched' = watched
        /\ answer' = answer /\ rejected' = rejected /\ printed' = printed
    BY DEF TaskEnds, play
  <1>3. /\ tasks' \in Seq(Task) /\ Len(tasks') = Len(tasks) /\ DOMAIN tasks' = DOMAIN tasks
        /\ \A i \in DOMAIN tasks :
             /\ tasks'[i].target = tasks[i].target
             /\ i # n => tasks'[i].state = tasks[i].state
             /\ tasks'[i].known = tasks[i].known
             /\ tasks'[i].polls = tasks[i].polls
        /\ tasks'[n].state # "running"
    <2>1. PICK state \in {"success", "failed"} : tasks' = [tasks EXCEPT ![n].state = state]
      BY DEF TaskEnds
    <2> QED
      BY <1>1, <2>1, EndedFacts
  <1>4. WaitTypeOK' /\ StageFits'
    BY <1>1, <1>2, <1>3 DEF WaitTypeOK, StageFits
  <1>5. WatchedFits' /\ AnswersFit' /\ PostsWhenGivenUp'
    BY <1>1, <1>2, <1>3 DEF WatchedFits, AnswersFit, PostsWhenGivenUp, GivenUp, Waiting
  <1>6. TargetsAreFresh'
    BY <1>1, <1>2, <1>3 DEF TargetsAreFresh, Fresh, Ahead
  <1>7. DoneSoFar'
    <2>1. ASSUME NEW t \in Target, Done(t)
          PROVE  Done(t)'
      BY <1>2, <1>3, <2>1 DEF Done
    <2> QED
      BY <1>1, <1>2, <2>1 DEF DoneSoFar
  <1>8. PrintedIsFirst'
    <2>1. n \notin printed
      BY <1>1, <1>2 DEF PrintedIsFirst
    <2> SUFFICES ASSUME NEW i \in printed
                 PROVE  /\ tasks'[i].state = "success"
                        /\ \A j \in 1 .. i - 1 : tasks'[j].target # tasks'[i].target
      BY <1>2 DEF PrintedIsFirst
    <2>2. i \in DOMAIN tasks /\ \A j \in 1 .. i - 1 : j \in DOMAIN tasks
      BY <1>1, TypeFacts DEF WaitTypeOK
    <2> QED
      BY <1>1, <1>3, <2>1, <2>2 DEF PrintedIsFirst
  <1>9. OneTaskAtATime'
    BY <1>1, <1>2, <1>3, TypeFacts DEF OneTaskAtATime
  <1> QED
    BY <1>4, <1>5, <1>6, <1>7, <1>8, <1>9 DEF WaitInv

-----------------------------------------------------------------------------
LEMMA WaitInvInductive == WaitInv /\ [Next]_vars => WaitInv'
  <1> SUFFICES ASSUME WaitInv, [Next]_vars PROVE WaitInv'
    OBVIOUS
  <1>1. CASE UNCHANGED vars
    BY <1>1 DEF vars, play, WaitInv, WaitTypeOK, StageFits, WatchedFits, AnswersFit,
       TargetsAreFresh, Fresh, Ahead, PostsWhenGivenUp, GivenUp, DoneSoFar, Done,
       PrintedIsFirst, OneTaskAtATime, Waiting
  <1>2. CASE Next
    BY <1>2, PostForAllStep, PostsDoneStep, TakeTargetStep, EndPlayStep, FireStep, RefireStep,
       PollUnansweredStep, PollEndedStep, TaskEndsStep
    DEF Next, PlayStep
  <1> QED
    BY <1>1, <1>2

(***************************************************************************)
(* However many targets a play has and however often it polls: no target   *)
(* is worked on by two tasks of which the play has not given the first up, *)
(* and every duration it prints is that of the first task of its target.   *)
(***************************************************************************)
THEOREM SpecPrintedIsMeasured == Spec => []PrintedIsMeasured
  <1>1. WaitInv => PrintedIsMeasured
    BY DEF WaitInv, PrintedIsMeasured
  <1> QED
    BY <1>1, InitHolds, WaitInvInductive, PTL DEF Spec

(***************************************************************************)
(* A play that ends well has done every target but those whose first POST  *)
(* met a transient error.                                                  *)
(***************************************************************************)
THEOREM SpecOkMeansDone == Spec => []OkMeansDone
  <1>1. WaitInv => OkMeansDone
    <2> SUFFICES ASSUME WaitInv, pc = "ok", NEW t \in Target PROVE Done(t)
      BY DEF OkMeansDone, Done
    <2>1. t < target
      BY TypeFacts DEF WaitInv, StageFits
    <2> QED
      BY <2>1 DEF WaitInv, DoneSoFar
  <1> QED
    BY <1>1, InitHolds, WaitInvInductive, PTL DEF Spec

-----------------------------------------------------------------------------
(***************************************************************************)
(* Waiting for a job invocation.                                           *)
(***************************************************************************)
SubTask == [state : {"planned", "running", "success", "failed", "cancelled"},
            start : 0..LastMinute, end : 0..LastMinute]

JobTypeOK ==
    /\ job \in [task : BOOLEAN, output : BOOLEAN, stopped : BOOLEAN]
    /\ sub \in [Sub -> SubTask]
    /\ minute \in 0..LastMinute
    /\ script \in {"idle", "watch", "cancelled", "output", "examine", "printed", "raised"}
    /\ counter \in Nat
    /\ quiet \in Nat
    /\ cancelled \in BOOLEAN

\* What the script has seen lies behind the server, and what has ended since
\* shows: once polled, the pending sub-tasks only become fewer.
SeenLiesBehind ==
    /\ seen[3] \in Int
    /\ seen[3] >= Cardinality(Open) \/ counter = 0

Watching == script \in {"idle", "watch"} /\ ~job.stopped

\* timeout_counter is never ahead of the polls without a change.
CountsQuietPolls ==
    Watching => SeenLiesBehind /\ (seen = Counts => counter <= quiet)

JobInv ==
    /\ JobTypeOK
    /\ script = "idle" => counter = 0
    /\ CountsQuietPolls

-----------------------------------------------------------------------------
LEMMA InIsFinite ==
    ASSUME NEW state
    PROVE  IsFiniteSet(In(state)) /\ Cardinality(In(state)) \in Nat
  <1>1. IsFiniteSet(Sub) /\ In(state) \in SUBSET Sub
    BY JobWaitAssumption DEF In
  <1>2. IsFiniteSet(In(state))
    BY <1>1, FS_Subset
  <1> QED
    BY <1>2, FS_CardinalityType

LEMMA OpenIsFinite == IsFiniteSet(Open) /\ Cardinality(Open) \in Nat
  <1>1. IsFiniteSet(Sub) /\ Open \in SUBSET Sub
    BY JobWaitAssumption DEF Open, In
  <1>2. IsFiniteSet(Open)
    BY <1>1, FS_Subset
  <1> QED
    BY <1>2, FS_CardinalityType

LEMMA CountsAre == Counts[3] = Cardinality(Open)
  BY DEF Counts

LEMMA JobInitHolds == JobInit => JobInv
  <1> SUFFICES ASSUME JobInit PROVE JobInv
    OBVIOUS
  <1>1. JobTypeOK
    <2>1. [state |-> "planned", start |-> 0, end |-> 0] \in SubTask
      BY JobWaitAssumption DEF SubTask
    <2>2. sub \in [Sub -> SubTask]
      BY <2>1 DEF JobInit
    <2>3. job \in [task : BOOLEAN, output : BOOLEAN, stopped : BOOLEAN]
      BY DEF JobInit
    <2>4. minute \in 0..LastMinute /\ script = "idle" /\ counter = 0 /\ quiet = 0 /\ cancelled = FALSE
      BY JobWaitAssumption DEF JobInit
    <2> QED
      BY <2>2, <2>3, <2>4 DEF JobTypeOK
  <1>2. SeenLiesBehind
    BY DEF JobInit, SeenLiesBehind
  <1> QED
    BY <1>1, <1>2 DEF JobInit, JobInv, CountsQuietPolls

\* A sub-task that ends or is cancelled leaves one less pending, and the script
\* will see it.
LEMMA LeavingShows ==
    ASSUME JobTypeOK, SeenLiesBehind, NEW s \in Sub, EndSub(s) \/ CancelSub(s)
    PROVE  SeenLiesBehind' /\ (seen = Counts => counter = 0)'
  <1>1. PICK result \in {"success", "failed", "cancelled"} :
          \/ sub' = [sub EXCEPT ![s].state = result, ![s].end = minute]
          \/ sub' = [sub EXCEPT ![s].state = result]
    BY DEF EndSub, CancelSub
  <1>2. s \in Open /\ UNCHANGED <<seen, counter>> /\ sub[s] \in SubTask
    BY DEF EndSub, CancelSub, scriptVars, Open, In, JobTypeOK
  <1>3. sub'[s].state = result /\ \A t \in Sub \ {s} : sub'[t] = sub[t]
    BY <1>1, <1>2 DEF JobTypeOK, SubTask
  <1>4. Open' = Open \ {s}
    BY <1>3 DEF Open, In
  <1>5. Cardinality(Open') = Cardinality(Open) - 1
    BY <1>2, <1>4, OpenIsFinite, FS_RemoveElement
  <1>6. Cardinality(Open') < Cardinality(Open)
    BY <1>5, OpenIsFinite
  <1>7. Counts'[3] = Cardinality(Open')
    BY DEF Counts
  <1> QED
    <2>1. SeenLiesBehind'
      BY <1>2, <1>5, OpenIsFinite DEF SeenLiesBehind
    <2>2. counter # 0 => seen[3] # Cardinality(Open')
      BY <1>2, <1>5, OpenIsFinite DEF SeenLiesBehind
    <2> QED
      BY <1>2, <1>7, <2>1, <2>2

\* A poll sets the counter back, or adds one where the quiet polls get one too.
LEMMA SleepType == ASSUME JobTypeOK, Sleep PROVE minute' \in 0..LastMinute
  BY JobWaitAssumption DEF JobTypeOK, Sleep

LEMMA WatchCounts ==
    ASSUME JobInv, Watch
    PROVE  /\ JobTypeOK' /\ SeenLiesBehind'
           /\ counter' <= quiet'
           /\ counter' # 0 => counter' <= quiet + 1
  <1>1. /\ JobTypeOK /\ Watching /\ SeenLiesBehind
        /\ seen = Counts => counter <= quiet
    BY DEF JobInv, Watch, Watching, CountsQuietPolls
  <1>2. /\ quiet' = quiet + 1 /\ seen' = Counts /\ UNCHANGED <<job, sub>>
        /\ counter' = 0 \/ (seen = Counts /\ counter' = counter + 1)
    BY DEF Watch, Progress
  <1>3. counter' <= quiet' /\ (counter' # 0 => counter' <= quiet + 1)
    BY <1>1, <1>2 DEF JobTypeOK
  <1>4. JobTypeOK'
    <2>1. script' \in {"watch", "cancelled"} /\ cancelled' \in BOOLEAN
      BY <1>1 DEF JobTypeOK, Watch
    <2>2. minute' \in 0..LastMinute /\ counter' \in Nat /\ quiet' \in Nat
      BY <1>1, <1>2, SleepType DEF JobTypeOK, Watch
    <2> QED
      BY <1>1, <1>2, <2>1, <2>2 DEF JobTypeOK
  <1>5. SeenLiesBehind'
    <2>1. Open' = Open
      BY <1>2 DEF Open, In
    <2>2. seen'[3] = Cardinality(Open)
      BY <1>2, CountsAre
    <2> QED
      BY <2>1, <2>2, OpenIsFinite DEF SeenLiesBehind
  <1> QED
    BY <1>3, <1>4, <1>5

-----------------------------------------------------------------------------
LEMMA ServerKeeps == ASSUME JobInv, ServerStep PROVE JobInv'
  <1>1. JobTypeOK
    BY DEF JobInv
  <1>2. CASE Publish
    <2>1. JobTypeOK'
      BY <1>1, <1>2 DEF Publish, scriptVars, JobTypeOK
    <2>2. UNCHANGED <<sub, scriptVars, quiet>> /\ job'.stopped = job.stopped
      BY <1>1, <1>2 DEF Publish, JobTypeOK
    <2>3. CountsQuietPolls'
      BY <2>2 DEF JobInv, CountsQuietPolls, Watching, SeenLiesBehind, Counts, Open, In, scriptVars
    <2> QED
      BY <2>1, <2>2, <2>3 DEF JobInv, scriptVars
  <1>3. ASSUME NEW s \in Sub, StartSub(s) PROVE JobInv'
    <2>1. /\ sub[s].state = "planned" /\ UNCHANGED <<job, minute, quiet, scriptVars>>
          /\ sub' = [sub EXCEPT ![s].state = "running", ![s].start = minute]
      BY <1>3 DEF StartSub
    <2>2. sub'[s].state = "running" /\ \A t \in Sub \ {s} : sub'[t] = sub[t]
      BY <1>1, <2>1 DEF JobTypeOK, SubTask
    <2>3. JobTypeOK'
      BY <1>1, <2>1 DEF JobTypeOK, SubTask, scriptVars
    <2>4. In("success")' = In("success") /\ In("failed")' = In("failed")
      BY <2>1, <2>2 DEF In
    <2>5. In("planned")' \cup In("running")' = In("planned") \cup In("running")
      BY <2>1, <2>2 DEF In
    <2>6. Counts' = Counts
      BY <2>4, <2>5 DEF Counts, Open
    <2>7. CountsQuietPolls'
      BY <2>1, <2>5, <2>6 DEF Open, JobInv, CountsQuietPolls, Watching, SeenLiesBehind, scriptVars
    <2> QED
      BY <2>1, <2>3, <2>7 DEF JobInv, scriptVars
  <1>4. ASSUME NEW s \in Sub, EndSub(s) PROVE JobInv'
    <2>1. /\ UNCHANGED <<job, minute, scriptVars>> /\ quiet' = 0
          /\ \E result \in {"success", "failed"} :
               sub' = [sub EXCEPT ![s].state = result, ![s].end = minute]
      BY <1>4 DEF EndSub
    <2>2. JobTypeOK'
      <3>1. PICK result \in {"success", "failed"} :
              sub' = [sub EXCEPT ![s].state = result, ![s].end = minute]
        BY <2>1
      <3>2. sub[s] \in SubTask /\ minute \in 0..LastMinute
        BY <1>1 DEF JobTypeOK
      <3>3. sub'[s] = [state |-> result, start |-> sub[s].start, end |-> minute]
        BY <1>1, <3>1, <3>2 DEF JobTypeOK, SubTask
      <3>4. sub'[s] \in SubTask
        BY <3>2, <3>3 DEF SubTask
      <3>5. sub' \in [Sub -> SubTask]
        BY <1>1, <3>1, <3>4 DEF JobTypeOK
      <3> QED
        BY <1>1, <2>1, <3>5 DEF JobTypeOK, scriptVars
    <2>3. Watching' => SeenLiesBehind' /\ (seen = Counts => counter = 0)'
      <3>1. Watching' => SeenLiesBehind
        BY <2>1 DEF Watching, scriptVars, JobInv, CountsQuietPolls
      <3> QED
        BY <1>1, <1>4, <3>1, LeavingShows
    <2> QED
      BY <2>1, <2>2, <2>3 DEF JobInv, CountsQuietPolls, scriptVars
  <1>6. ASSUME NEW s \in Sub, CancelSub(s) PROVE JobInv'
    <2>1. /\ UNCHANGED <<job, minute, scriptVars>> /\ quiet' = 0
          /\ sub' = [sub EXCEPT ![s].state = "cancelled"]
      BY <1>6 DEF CancelSub
    <2>2. JobTypeOK'
      BY <1>1, <2>1 DEF JobTypeOK, SubTask, scriptVars
    <2>3. Watching' => SeenLiesBehind' /\ (seen = Counts => counter = 0)'
      <3>1. Watching' => SeenLiesBehind
        BY <2>1 DEF Watching, scriptVars, JobInv, CountsQuietPolls
      <3> QED
        BY <1>1, <1>6, <3>1, LeavingShows
    <2> QED
      BY <2>1, <2>2, <2>3 DEF JobInv, CountsQuietPolls, scriptVars
  <1>5. CASE StopJob
    <2>1. /\ UNCHANGED <<minute, scriptVars>> /\ quiet' = 0
          /\ job' = [job EXCEPT !.stopped = TRUE]
          /\ sub' = [s \in Sub |-> IF s \in Open THEN [sub[s] EXCEPT !.state = "cancelled"] ELSE sub[s]]
      BY <1>5 DEF StopJob
    <2>2. JobTypeOK' /\ job'.stopped
      BY <1>1, <2>1 DEF JobTypeOK, SubTask, scriptVars
    <2> QED
      BY <2>1, <2>2 DEF JobInv, CountsQuietPolls, Watching, scriptVars
  <1> QED
    BY <1>2, <1>3, <1>4, <1>5, <1>6 DEF ServerStep

LEMMA ScriptKeeps == ASSUME JobInv, ScriptStep PROVE JobInv'
  <1>1. JobTypeOK /\ (script = "idle" => counter = 0) /\ CountsQuietPolls
    BY DEF JobInv
  <1>2. CASE FindTask
    <2>1. UNCHANGED <<job, sub, minute, quiet, seen, counter, cancelled>> /\ script' = "watch"
          /\ script = "idle"
      BY <1>2 DEF FindTask
    <2>2. JobTypeOK'
      BY <1>1, <2>1 DEF JobTypeOK
    <2>3. CountsQuietPolls'
      BY <1>1, <2>1 DEF CountsQuietPolls, Watching, SeenLiesBehind, Counts, Open, In
    <2> QED
      BY <2>1, <2>2, <2>3 DEF JobInv
  <1>3. CASE Watch
    <2>1. script' # "idle"
      BY <1>3 DEF Watch
    <2> QED
      BY <1>3, <2>1, WatchCounts DEF JobInv, CountsQuietPolls
  <1>4. CASE WatchEnds \/ WatchDies \/ SeeOutput \/ Examine \/ Measure
    <2>1. script' \notin {"idle", "watch"}
      BY <1>4 DEF WatchEnds, WatchDies, SeeOutput, Examine, Measure
    <2>2. minute' \in 0..LastMinute
      BY <1>1, <1>4, SleepType
      DEF JobTypeOK, WatchEnds, WatchDies, SeeOutput, Examine, Measure
    <2>3. JobTypeOK'
      BY <1>1, <1>4, <2>2
      DEF JobTypeOK, WatchEnds, WatchDies, SeeOutput, Examine, Measure, NextCounter
    <2> QED
      BY <2>1, <2>3 DEF JobInv, CountsQuietPolls, Watching
  <1> QED
    BY <1>2, <1>3, <1>4 DEF ScriptStep

LEMMA JobInvInductive == JobInv /\ [JobNext]_jobVars => JobInv'
  <1> SUFFICES ASSUME JobInv, [JobNext]_jobVars PROVE JobInv'
    OBVIOUS
  <1>1. CASE UNCHANGED jobVars
    <2>1. UNCHANGED <<job, sub, minute, script, seen, counter, cancelled, quiet>>
      BY <1>1 DEF jobVars
    <2>2. JobTypeOK' /\ CountsQuietPolls'
      BY <2>1 DEF JobInv, JobTypeOK, CountsQuietPolls, Watching, SeenLiesBehind, Counts, Open, In
    <2> QED
      BY <2>1, <2>2 DEF JobInv
  <1> QED
    BY <1>1, ServerKeeps, ScriptKeeps DEF JobNext

-----------------------------------------------------------------------------
(***************************************************************************)
(* wait_for_job.py posts a cancel only after as many polls without any     *)
(* change as --timeout asks for, whatever the server does in between.      *)
(***************************************************************************)
THEOREM SpecCancelledOnlyWhenStuck == JobSpec => CancelledOnlyWhenStuck
  <1>1. JobInv /\ [JobNext]_jobVars => [cancelled' /\ ~cancelled => quiet' >= Timeout]_jobVars
    <2> SUFFICES ASSUME JobInv, JobNext, cancelled', ~cancelled PROVE quiet' >= Timeout
      OBVIOUS
    <2>1. Watch
      BY DEF JobNext, ServerStep, ScriptStep, Publish, StartSub, EndSub, CancelSub, StopJob, scriptVars,
             FindTask, WatchEnds, WatchDies, SeeOutput, Examine, Measure
    <2>2. counter' = Timeout
      BY <2>1 DEF Watch
    <2>3. counter' <= quiet' /\ counter' \in Nat /\ quiet' \in Nat
      BY <2>1, WatchCounts DEF JobTypeOK
    <2> QED
      BY <2>2, <2>3
  <1> QED
    BY <1>1, JobInitHolds, JobInvInductive, PTL DEF JobSpec, CancelledOnlyWhenStuck

-----------------------------------------------------------------------------
(***************************************************************************)
(* The fuzzy duration.                                                     *)
(***************************************************************************)
LEMMA LeastNat ==
    ASSUME NEW T, T \subseteq Nat, T # {}
    PROVE  \E x \in T : \A y \in T : x <= y
  <1> DEFINE R == OpToRel(<, Nat)
  <1>1. IsWellFoundedOn(R, Nat)
    BY NatLessThanWellFounded
  <1>2. \A m, n \in Nat : m < n => <<m, n>> \in R
    BY DEF OpToRel
  <1> HIDE DEF R
  <1>3. PICK x \in T : \A y \in T : ~ (<<y, x>> \in R)
    BY <1>1, WFMin
  <1>4. \A y \in T : ~ (y < x)
    BY <1>2, <1>3, Zenon
  <1> QED
    BY <1>4

\* Those before a time, up to it and behind it.
Below(S, v, t) == {s \in S : v[s] < t}
UpTo(S, v, t) == {s \in S : v[s] <= t}
Above(S, v, t) == {s \in S : v[s] > t}

IsIth(S, v, i, t) ==
    /\ t \in {v[s] : s \in S}
    /\ Cardinality(Below(S, v, t)) < i
    /\ Cardinality(UpTo(S, v, t)) >= i

\* Among finitely many times there is an i-th smallest.
LEMMA IthSmallest ==
    ASSUME NEW S, IsFiniteSet(S), NEW v \in [S -> 0..LastMinute],
           NEW i \in 1..Cardinality(S)
    PROVE  \E t \in Nat : IsIth(S, v, i, t)
  <1> DEFINE T == {t \in Nat : Cardinality(UpTo(S, v, t)) >= i}
  <1>1. LastMinute \in Nat /\ \A s \in S : v[s] \in Nat /\ v[s] <= LastMinute
    BY JobWaitAssumption
  <1> i \in Nat /\ i > 0
    BY FS_CardinalityType
  <1>2. UpTo(S, v, LastMinute) = S
    BY <1>1 DEF UpTo
  <1>3. LastMinute \in T
    <2>1. Cardinality(S) \in Nat
      BY FS_CardinalityType
    <2>2. Cardinality(UpTo(S, v, LastMinute)) >= i
      BY <1>2, <2>1
    <2> QED
      BY <1>1, <2>2
  <1>4. PICK t \in T : \A u \in T : t <= u
    BY <1>3, LeastNat
  <1>5. Cardinality(Below(S, v, t)) < i
    <2>1. CASE t = 0
      <3>1. Below(S, v, t) = {}
        BY <1>1, <2>1 DEF Below
      <3> QED
        BY <3>1, FS_EmptySet
    <2>2. CASE t # 0
      <3>1. t - 1 \in Nat /\ Below(S, v, t) = UpTo(S, v, t - 1)
        BY <1>1, <2>2 DEF Below, UpTo
      <3>2. t - 1 \notin T
        BY <1>4, <3>1
      <3>3. Cardinality(UpTo(S, v, t - 1)) \in Nat
        BY FS_Subset, FS_CardinalityType DEF UpTo
      <3>4. ~(Cardinality(UpTo(S, v, t - 1)) >= i)
        BY <3>1, <3>2
      <3> QED
        BY <3>1, <3>3, <3>4
    <2> QED
      BY <2>1, <2>2
  <1>6. t \in {v[s] : s \in S}
    <2>1. SUFFICES ASSUME t \notin {v[s] : s \in S} PROVE FALSE
      OBVIOUS
    <2>2. Below(S, v, t) = UpTo(S, v, t)
      BY <1>1, <2>1 DEF Below, UpTo
    <2>3. Cardinality(UpTo(S, v, t)) \in Nat
      BY FS_Subset, FS_CardinalityType DEF UpTo
    <2> QED
      BY <1>4, <1>5, <2>2, <2>3
  <1> QED
    BY <1>4, <1>5, <1>6 DEF IsIth

\* So Sorted is what its name says.
LEMMA SortedIs ==
    ASSUME JobTypeOK, NEW chosen \in SUBSET Sub, NEW time \in {"start", "end"},
           NEW i \in 1..Cardinality(chosen)
    PROVE  LET t == Sorted(chosen, time)[i]
           IN  /\ t \in {sub[s][time] : s \in chosen} /\ t \in 0..LastMinute
               /\ Cardinality({s \in chosen : sub[s][time] < t}) < i
               /\ Cardinality({s \in chosen : sub[s][time] <= t}) >= i
  <1> DEFINE Is(t) == /\ Cardinality({s \in chosen : sub[s][time] < t}) < i
                      /\ Cardinality({s \in chosen : sub[s][time] <= t}) >= i
  <1>1. IsFiniteSet(chosen)
    BY JobWaitAssumption, FS_Subset
  <1>2. [s \in chosen |-> sub[s][time]] \in [chosen -> 0..LastMinute]
    BY DEF JobTypeOK, SubTask
  <1>3. PICK v \in [chosen -> 0..LastMinute] : \A s \in chosen : v[s] = sub[s][time]
    BY <1>2
  <1>4. PICK w \in Nat : IsIth(chosen, v, i, w)
    BY <1>1, IthSmallest
  <1>5. /\ {v[s] : s \in chosen} = {sub[s][time] : s \in chosen}
        /\ Below(chosen, v, w) = {s \in chosen : sub[s][time] < w}
        /\ UpTo(chosen, v, w) = {s \in chosen : sub[s][time] <= w}
    BY <1>3 DEF Below, UpTo
  <1>6. \E t \in {sub[s][time] : s \in chosen} : Is(t)
    BY <1>4, <1>5 DEF IsIth
  <1>7. Sorted(chosen, time)[i] = CHOOSE t \in {sub[s][time] : s \in chosen} : Is(t)
    BY DEF Sorted
  <1>8. Sorted(chosen, time)[i] \in {sub[s][time] : s \in chosen} /\ Is(Sorted(chosen, time)[i])
    <2> HIDE DEF Is
    <2> QED
      BY <1>6, <1>7
  <1>9. {sub[s][time] : s \in chosen} \subseteq 0..LastMinute
    BY DEF JobTypeOK, SubTask
  <1> QED
    BY <1>8, <1>9
LEMMA SortedIsSeq ==
    ASSUME JobTypeOK, NEW chosen \in SUBSET Sub, NEW time \in {"start", "end"}
    PROVE  /\ Sorted(chosen, time) \in Seq(0..LastMinute)
           /\ Len(Sorted(chosen, time)) = Cardinality(chosen)
  <1> DEFINE n == Cardinality(chosen)
             E(i) == CHOOSE t \in {sub[s][time] : s \in chosen} :
                       /\ Cardinality({s \in chosen : sub[s][time] < t}) < i
                       /\ Cardinality({s \in chosen : sub[s][time] <= t}) >= i
             f == Sorted(chosen, time)
  <1>1. n \in Nat
    BY JobWaitAssumption, FS_Subset, FS_CardinalityType
  <1>2. f = [i \in 1..n |-> E(i)]
    BY DEF Sorted
  <1>3. \A i \in 1..n : f[i] \in 0..LastMinute
    BY SortedIs
  <1> HIDE DEF E, f, n
  <1>4. \A i \in 1..n : E(i) \in 0..LastMinute
    BY <1>2, <1>3
  <1>5. /\ [i \in 1..n |-> E(i)] \in Seq(0..LastMinute)
        /\ Len([i \in 1..n |-> E(i)]) = n
    BY <1>1, <1>4
  <1> QED
    BY <1>2, <1>5 DEF f, n

LEMMA RoundedType ==
    ASSUME NEW n \in Nat
    PROVE  Rounded(n, 100) \in Nat
  BY DEF Rounded

\* What FuzzyIsThin says of the figures when they are printed.
Thin(d) ==
    LET to_remove == Rounded(Percentage * Cardinality(SubTasks), 100)
        Before(t) == {s \in SubTasks : sub[s].start < t}
        After(t) == {s \in SubTasks : sub[s].end > t}
    IN  /\ \A s \in SubTasks : d.start <= sub[s].start /\ sub[s].end <= d.end
        /\ Cardinality(Before(d.start_cleaned)) <= to_remove
        /\ Cardinality(Before(d.start_cleaned + 1)) > to_remove
        /\ Cardinality(After(d.end_cleaned)) <= to_remove
        /\ Cardinality(After(d.end_cleaned - 1)) > to_remove
        /\ 2 * to_remove < Cardinality(SubTasks) => d.start_cleaned < d.end_cleaned

\* A stopped job has no open sub-task left, one that ended took its time, and
\* the figures are those of the job as it stopped.
FuzzyInv ==
    /\ job.stopped => \A s \in Sub : sub[s].state \in {"success", "failed", "cancelled"}
    /\ \A s \in Sub : sub[s].state \in {"success", "failed"} => sub[s].start < sub[s].end
    /\ duration.shown => job.stopped /\ Thin(duration)

\* What is not behind a time is up to it.
LEMMA CountsBehind ==
    ASSUME NEW S, IsFiniteSet(S), NEW v \in [S -> Nat], NEW t \in Nat
    PROVE  /\ Cardinality(Above(S, v, t)) = Cardinality(S) - Cardinality(UpTo(S, v, t))
           /\ Cardinality(Above(S, v, t - 1)) = Cardinality(S) - Cardinality(Below(S, v, t))
           /\ Below(S, v, t + 1) = UpTo(S, v, t)
  <1>1. /\ Above(S, v, t) = S \ UpTo(S, v, t) /\ UpTo(S, v, t) \in SUBSET S
        /\ Above(S, v, t - 1) = S \ Below(S, v, t) /\ Below(S, v, t) \in SUBSET S
        /\ Below(S, v, t + 1) = UpTo(S, v, t)
    BY DEF Above, Below, UpTo
  <1>2. ASSUME NEW C \in SUBSET S
        PROVE  Cardinality(S \ C) = Cardinality(S) - Cardinality(C)
    <2>1. S \cap C = C
      OBVIOUS
    <2> QED
      BY <2>1, FS_Difference
  <1> QED
    BY <1>1, <1>2

\* Half of a set and less than half of it leave something out.
LEMMA SomeInNeither ==
    ASSUME NEW S, IsFiniteSet(S), NEW A \in SUBSET S, NEW B \in SUBSET S,
           Cardinality(A) + Cardinality(B) < Cardinality(S)
    PROVE  \E s \in S : s \notin A /\ s \notin B
  <1>1. IsFiniteSet(A) /\ IsFiniteSet(B) /\ IsFiniteSet(A \cap B)
    BY FS_Subset
  <1>2. /\ Cardinality(A) \in Nat /\ Cardinality(B) \in Nat /\ Cardinality(A \cap B) \in Nat
        /\ Cardinality(S) \in Nat
    BY <1>1, FS_CardinalityType
  <1>3. Cardinality(A \cup B) = Cardinality(A) + Cardinality(B) - Cardinality(A \cap B)
    BY <1>1, FS_Union, Zenon
  <1>4. A \cup B # S
    <2> SUFFICES ASSUME A \cup B = S PROVE FALSE
      OBVIOUS
    <2>1. Cardinality(S) = Cardinality(A) + Cardinality(B) - Cardinality(A \cap B)
      BY <1>3
    <2> QED
      BY <1>2, <2>1
  <1> QED
    BY <1>4

\* The figures of a job that stopped are thin.
LEMMA MeasureIsThin ==
    ASSUME JobTypeOK, FuzzyInv, job.stopped,
           Cardinality(SubTasks) > Rounded(Percentage * Cardinality(SubTasks), 100)
    PROVE  Thin(FuzzyDuration(SubTasks))
  <1> DEFINE S == SubTasks
             n == Cardinality(SubTasks)
             k == Rounded(Percentage * Cardinality(SubTasks), 100)
             d == FuzzyDuration(SubTasks)
             starts == Sorted(SubTasks, "start")
             ends == Sorted(SubTasks, "end")
  <1>1. S \in SUBSET Sub /\ IsFiniteSet(S) /\ n \in Nat
    BY JobWaitAssumption, FS_Subset, FS_CardinalityType DEF SubTasks
  <1>2. k \in Nat /\ n > k
    <2>1. Percentage * n \in Nat
      BY <1>1, JobWaitAssumption
    <2> QED
      BY <2>1, RoundedType
  <1>3. /\ d.start = starts[1] /\ d.end = ends[n]
        /\ d.start_cleaned = starts[k + 1] /\ d.end_cleaned = ends[n - k]
    <2>2. /\ Len(starts) = n /\ Len(ends) = n
          /\ starts \in Seq(0..LastMinute) /\ ends \in Seq(0..LastMinute)
      BY <1>1, SortedIsSeq
    <2>3. StartsCleaned(starts, k)[1] = starts[k + 1]
      BY <1>1, <1>2, <2>2 DEF StartsCleaned
    <2>4. Len(EndsCleaned(ends, k)) = n - k /\ EndsCleaned(ends, k)[n - k] = ends[n - k]
      BY <1>1, <1>2, <2>2 DEF EndsCleaned
    <2> QED
      BY <2>2, <2>3, <2>4 DEF FuzzyDuration
  <1>4. \A s \in S : sub[s].start < sub[s].end
    BY DEF FuzzyInv, SubTasks, In
  <1> DEFINE st == starts[k + 1]
             en == ends[n - k]
  <1>5. /\ starts[1] \in 0..LastMinute /\ Cardinality({s \in S : sub[s].start < starts[1]}) < 1
        /\ ends[n] \in 0..LastMinute /\ Cardinality({s \in S : sub[s].end <= ends[n]}) >= n
        /\ st \in 0..LastMinute
        /\ Cardinality({s \in S : sub[s].start < st}) < k + 1
        /\ Cardinality({s \in S : sub[s].start <= st}) >= k + 1
        /\ en \in 0..LastMinute
        /\ Cardinality({s \in S : sub[s].end < en}) < n - k
        /\ Cardinality({s \in S : sub[s].end <= en}) >= n - k
    <2>1. 1 \in 1..n /\ n \in 1..n /\ k + 1 \in 1..n /\ n - k \in 1..n
      BY <1>1, <1>2
    <2> HIDE DEF n, k
    <2> QED
      BY <1>1, <2>1, SortedIs DEF n
  <1>6. /\ \A s \in S : sub[s].start \in Nat /\ sub[s].end \in Nat
        /\ \A T \in SUBSET S : IsFiniteSet(T) /\ Cardinality(T) \in Nat
        /\ st \in Nat /\ en \in Nat /\ starts[1] \in Nat /\ ends[n] \in Nat
    <2>1. \A s \in S : sub[s].start \in Nat /\ sub[s].end \in Nat
      BY <1>1, JobWaitAssumption DEF JobTypeOK, SubTask
    <2>2. \A T \in SUBSET S : IsFiniteSet(T) /\ Cardinality(T) \in Nat
      BY <1>1, FS_Subset, FS_CardinalityType
    <2> QED
      BY <1>5, <2>1, <2>2, JobWaitAssumption
  <1>7. PICK a \in [S -> Nat] : \A s \in S : a[s] = sub[s].start
    <2>1. [s \in S |-> sub[s].start] \in [S -> Nat]
      BY <1>6
    <2> QED
      BY <2>1
  <1>8. PICK e \in [S -> Nat] : \A s \in S : e[s] = sub[s].end
    <2>1. [s \in S |-> sub[s].end] \in [S -> Nat]
      BY <1>6
    <2> QED
      BY <2>1
  <1>9. \A t : /\ {s \in S : sub[s].start < t} = Below(S, a, t)
               /\ {s \in S : sub[s].start <= t} = UpTo(S, a, t)
               /\ {s \in S : sub[s].end < t} = Below(S, e, t)
               /\ {s \in S : sub[s].end <= t} = UpTo(S, e, t)
               /\ {s \in S : sub[s].end > t} = Above(S, e, t)
    BY <1>7, <1>8 DEF Below, UpTo, Above
  <1>10. \A t : /\ Below(S, a, t) \in SUBSET S /\ UpTo(S, a, t) \in SUBSET S
                /\ Below(S, e, t) \in SUBSET S /\ UpTo(S, e, t) \in SUBSET S
                /\ Above(S, e, t) \in SUBSET S
    BY DEF Below, UpTo, Above
  <1>11. \A t \in Nat : /\ Cardinality(Above(S, e, t)) = n - Cardinality(UpTo(S, e, t))
                        /\ Cardinality(Above(S, e, t - 1)) = n - Cardinality(Below(S, e, t))
                        /\ Below(S, a, t + 1) = UpTo(S, a, t)
    BY <1>1, CountsBehind
  <1>12. /\ Cardinality(Below(S, a, starts[1])) < 1 /\ Cardinality(UpTo(S, e, ends[n])) >= n
         /\ Cardinality(Below(S, a, st)) < k + 1 /\ Cardinality(UpTo(S, a, st)) >= k + 1
         /\ Cardinality(Below(S, e, en)) < n - k /\ Cardinality(UpTo(S, e, en)) >= n - k
    BY <1>5, <1>9
  <1> DEFINE s1 == starts[1]
             en1 == ends[n]
  <1> HIDE DEF S, n, k, st, en, s1, en1
  <1>13. \A s \in S : s1 <= sub[s].start
    <2>1. Below(S, a, s1) = {}
      BY <1>6, <1>10, <1>12, FS_EmptySet DEF s1
    <2> QED
      BY <1>6, <1>7, <2>1 DEF Below, s1
  <1>14. \A s \in S : sub[s].end <= en1
    <2>1. Cardinality(Above(S, e, en1)) = 0
      BY <1>1, <1>6, <1>10, <1>11, <1>12 DEF en1
    <2>2. Above(S, e, en1) = {}
      BY <1>6, <1>10, <2>1, FS_EmptySet
    <2> QED
      BY <1>6, <1>8, <2>2 DEF Above, en1
  <1>15. Cardinality(Below(S, a, st)) <= k /\ Cardinality(Below(S, a, st + 1)) > k
    BY <1>2, <1>6, <1>10, <1>11, <1>12
  <1>16. Cardinality(Above(S, e, en)) <= k /\ Cardinality(Above(S, e, en - 1)) > k
    BY <1>1, <1>2, <1>6, <1>10, <1>11, <1>12
  <1>17. ASSUME 2 * k < n PROVE st < en
    <2>1. PICK s \in S : s \notin Below(S, a, st) /\ s \notin Above(S, e, en)
      <3>1. Cardinality(Below(S, a, st)) + Cardinality(Above(S, e, en)) < n
        BY <1>1, <1>2, <1>6, <1>10, <1>15, <1>16, <1>17
      <3> QED
        BY <1>1, <1>10, <3>1, SomeInNeither DEF n, S
    <2> QED
      BY <1>4, <1>6, <1>7, <1>8, <2>1 DEF Below, Above
  <1> QED
    BY <1>3, <1>9, <1>13, <1>14, <1>15, <1>16, <1>17 DEF Thin, S, n, k, st, en, s1, en1
LEMMA FuzzyInitHolds == JobInit => FuzzyInv
  BY DEF JobInit, FuzzyInv, Nothing

\* Nothing moves any more in a job that has stopped.
LEMMA FuzzyInvKept == ASSUME JobInv, FuzzyInv, [JobNext]_jobVars PROVE FuzzyInv'
  <1>1. JobTypeOK
    BY DEF JobInv
  <1>2. ASSUME UNCHANGED <<sub, duration>>, job'.stopped = job.stopped
        PROVE  FuzzyInv'
    <2>1. SubTasks' = SubTasks
      BY <1>2 DEF SubTasks, In
    <2>2. Thin(duration) => Thin(duration)'
      BY <1>2, <2>1 DEF Thin
    <2> QED
      BY <1>2, <2>2 DEF FuzzyInv
  <1>3. CASE Publish
    BY <1>1, <1>2, <1>3 DEF Publish, scriptVars, JobTypeOK
  <1>4. ASSUME NEW s \in Sub, StartSub(s) PROVE FuzzyInv'
    <2>1. /\ ~job.stopped /\ UNCHANGED <<job, duration>> /\ ~duration.shown
          /\ sub' = [sub EXCEPT ![s].state = "running", ![s].start = minute]
      BY <1>4 DEF StartSub, FuzzyInv, scriptVars
    <2>2. sub'[s].state = "running" /\ \A t \in Sub \ {s} : sub'[t] = sub[t]
      BY <1>1, <2>1 DEF JobTypeOK, SubTask
    <2> QED
      BY <2>1, <2>2 DEF FuzzyInv
  <1>5. ASSUME NEW s \in Sub, EndSub(s) PROVE FuzzyInv'
    <2>1. /\ ~job.stopped /\ UNCHANGED <<job, duration>> /\ ~duration.shown
          /\ minute > sub[s].start
      BY <1>5 DEF EndSub, FuzzyInv, scriptVars
    <2>2. PICK result \in {"success", "failed"} :
            sub' = [sub EXCEPT ![s].state = result, ![s].end = minute]
      BY <1>5 DEF EndSub
    <2>3. /\ sub'[s].start = sub[s].start /\ sub'[s].end = minute
          /\ \A t \in Sub \ {s} : sub'[t] = sub[t]
      BY <1>1, <2>2 DEF JobTypeOK, SubTask
    <2>4. sub'[s].start < sub'[s].end
      BY <1>1, <2>1, <2>3, JobWaitAssumption DEF JobTypeOK, SubTask
    <2> QED
      BY <2>1, <2>3, <2>4 DEF FuzzyInv
  <1>10. ASSUME NEW s \in Sub, CancelSub(s) PROVE FuzzyInv'
    <2>1. /\ s \in Open /\ UNCHANGED <<job, duration>>
          /\ sub' = [sub EXCEPT ![s].state = "cancelled"]
      BY <1>10 DEF CancelSub, scriptVars
    <2>2. ~job.stopped /\ ~duration.shown
      BY <2>1 DEF FuzzyInv, Open, In
    <2>3. sub'[s].state = "cancelled" /\ \A t \in Sub \ {s} : sub'[t] = sub[t]
      BY <1>1, <2>1 DEF JobTypeOK, SubTask
    <2> QED
      BY <2>1, <2>2, <2>3 DEF FuzzyInv
  <1>6. CASE StopJob
    <2>1. /\ ~duration.shown /\ UNCHANGED duration
          /\ sub' = [s \in Sub |-> IF s \in Open THEN [sub[s] EXCEPT !.state = "cancelled"] ELSE sub[s]]
      BY <1>6 DEF StopJob, FuzzyInv, scriptVars
    <2>2. \A s \in Sub : s \in Open <=> sub[s].state \in {"planned", "running"}
      BY DEF Open, In
    <2>3. \A s \in Sub : \/ sub'[s].state = "cancelled"
                         \/ sub'[s] = sub[s] /\ sub[s].state \in {"success", "failed", "cancelled"}
      BY <1>1, <2>1, <2>2 DEF JobTypeOK, SubTask
    <2> QED
      BY <2>1, <2>3 DEF FuzzyInv
  <1>7. CASE FindTask \/ Watch \/ WatchEnds \/ WatchDies \/ SeeOutput \/ Examine
    BY <1>2, <1>7 DEF FindTask, Watch, WatchEnds, WatchDies, SeeOutput, Examine
  <1>8. CASE Measure
    <2>1. job.stopped /\ UNCHANGED <<job, sub>>
      BY <1>8 DEF Measure
    <2>2. CASE UNCHANGED duration
      BY <1>2, <2>1, <2>2
    <2>3. CASE /\ Cardinality(SubTasks) > Rounded(Percentage * Cardinality(SubTasks), 100)
               /\ duration' = FuzzyDuration(SubTasks)
      <3>1. Thin(duration')
        BY <1>1, <2>1, <2>3, MeasureIsThin
      <3>2. SubTasks' = SubTasks
        BY <2>1 DEF SubTasks, In
      <3>3. Thin(duration)'
        BY <2>1, <3>1, <3>2 DEF Thin
      <3> QED
        BY <2>1, <3>3 DEF FuzzyInv
    <2> QED
      BY <1>8, <2>2, <2>3 DEF Measure
  <1>9. CASE UNCHANGED jobVars
    BY <1>2, <1>9 DEF jobVars
  <1> QED
    BY <1>3, <1>4, <1>5, <1>6, <1>7, <1>8, <1>9, <1>10 DEF JobNext, ServerStep, ScriptStep

(***************************************************************************)
(* What get-task-fuzzy-duration.py prints of a job: as many of its first   *)
(* starts and last ends are left away as --percentage allows and no more,  *)
(* and with less than half of them gone a duration remains.                *)
(***************************************************************************)
THEOREM SpecFuzzyIsThin == JobSpec => []FuzzyIsThin
  <1>1. FuzzyInv => FuzzyIsThin
    BY DEF FuzzyInv, FuzzyIsThin, Thin
  <1> QED
    BY <1>1, JobInitHolds, JobInvInductive, FuzzyInitHolds, FuzzyInvKept, PTL DEF JobSpec
=============================================================================
