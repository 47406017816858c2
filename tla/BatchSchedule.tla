--------------------------- MODULE BatchSchedule ---------------------------
(***************************************************************************)
(* The batch loop of an experiment, concurrent_execution of                *)
(* experiment/lib/hammer.sh, driving the playbook of ContainerPool: every  *)
(* batch is a run on more containers than the one before, until all the    *)
(* containers of a host have had their turn.  The loop does not look at    *)
(* the exit code of the playbook.                                          *)
(***************************************************************************)
EXTENDS ContainerPoolProps

CONSTANTS
  initial_expected_concurrent_registrations,  \* over all hosts, 32 by default
  containers_count                            \* containers on each host

\* containers_count is read from the first host and taken to hold for all; the
\* loop assumes a host has that many, in the proportion 2:1:1.
ASSUME ScheduleAssumption ==
  /\ containers_count \in Nat
  /\ containers_count % 4 = 0
  /\ \A el \in EL : Lines[el] = LineOf(el, containers_count \div 4)
  /\ initial_expected_concurrent_registrations \in Nat

VARIABLES
  batch,      \* number of the next batch
  remaining,  \* remaining_containers_per_container_host
  clean       \* history: the hosts that no run has lost

vars == <<play, at, size, reuse, counter, inventory, touched, spent,
          batch, remaining, clean>>

ScheduleTypeOK ==
  /\ TypeOK
  /\ batch \in Nat \ {0}
  /\ remaining \in Nat
  /\ clean \subseteq Hosts

min_containers_per_batch == 4

\* Division first, as bash does it, then the ceiling to whole groups.
initial_concurrent_per_container_host ==
  ((initial_expected_concurrent_registrations \div Cardinality(Hosts)
      + min_containers_per_batch - 1) \div min_containers_per_batch)
    * min_containers_per_batch

ScheduleInit ==
  /\ Init
  /\ batch = 1
  /\ remaining = containers_count
  /\ clean = Hosts

\* Faulty: the account is charged the first batch's size for every batch.
StartBatchUndercharged ==
  /\ remaining > 0
  /\ LET planned == initial_concurrent_per_container_host * batch
         concurrent_per_container_host ==
           IF remaining > planned THEN planned ELSE remaining
     IN  /\ StartRun(concurrent_per_container_host, 0, FALSE)
         /\ remaining' =
              IF remaining > planned
              THEN remaining - initial_concurrent_per_container_host ELSE 0
  /\ batch' = batch + 1
  /\ UNCHANGED clean

\* Faulty: a batch is repeated until it loses no host.
StartBatchUntilClean ==
  /\ remaining > 0
  /\ IF batch > 1 /\ Alive # Hosts
     THEN /\ StartRun(size, 0, FALSE)
          /\ UNCHANGED <<batch, remaining>>
     ELSE LET planned == initial_concurrent_per_container_host * batch
              concurrent_per_container_host ==
                IF remaining > planned THEN planned ELSE remaining
          IN  /\ StartRun(concurrent_per_container_host, 0, FALSE)
              /\ remaining' = remaining - concurrent_per_container_host
              /\ batch' = batch + 1
  /\ UNCHANGED clean

\* The head and the first lines of the loop body, up to the call of ap, which
\* passes reuse_hosts=false.
StartBatch ==
  /\ remaining > 0
  /\ LET planned == initial_concurrent_per_container_host * batch
         concurrent_per_container_host ==
           IF remaining > planned THEN planned ELSE remaining
     IN  /\ StartRun(concurrent_per_container_host, 0, FALSE)
         /\ remaining' = remaining - concurrent_per_container_host
  /\ batch' = batch + 1
  /\ UNCHANGED clean

\* ansible-playbook runs until it returns.
RunBatch ==
  /\ PlaybookStep
  /\ clean' = {h \in clean : at'[h] # "failed"}
  /\ UNCHANGED <<batch, remaining>>

ScheduleNext == StartBatch \/ RunBatch

\* The shell goes on as soon as ap returns, and ansible-playbook works through
\* its plays on its own.  Nothing is assumed of the retries: the shell task has
\* no timeout, and a container may fail in every pass.
ScheduleSpec ==
  /\ ScheduleInit /\ [][ScheduleNext]_vars
  /\ WF_vars(StartBatch \/ (DueStep /\ RunBatch))

-----------------------------------------------------------------------------
ScheduleDone == remaining = 0 /\ play = "none"

\* The run in progress has yet to count the containers of this host.
Due(h) ==
  /\ play # "none"
  /\ at[h] # "failed"
  /\ ~(play = "increment" /\ at[h] = "done")

\* Its tasks have run and are not counted.
Worked(h) ==
  \/ play = "execution" /\ at[h] \in {"retrying", "done"}
  \/ play = "increment" /\ at[h] = "pending"

\* Neither a counter nor the loop's own account runs ahead of the other: the
\* containers counted as used, those of the batch in progress and those of the
\* batches to come fit into the list.  Hosts that were lost lag behind, never
\* ahead.
NeverOverdrawn ==
  \A h \in Hosts :
    counter[h] + remaining + (IF Due(h) THEN size ELSE 0) <= containers_count

\* A batch runs on exactly the containers it was announced for, size on every
\* host in it ("Running ... on $concurrent_total content hosts concurrently",
\* hammer.sh:148): no selection meets the end of the list.
FullBatch ==
  \A h \in Hosts : Holding(h) => Cardinality(inventory[h]) = size

\* A host that no run lost has given every container one turn and no container
\* two: what it is about to work on is new to it, and in the end nothing is left.
OneTurnEach ==
  \A h \in clean :
    /\ play = "preparation" /\ at[h] = "done" => inventory[h] \cap touched[h] = {}
    /\ ScheduleDone => touched[h] = Container

\* What the induction needs: the loop only asks for whole groups, and for a
\* host never lost the account is exact and the history of its containers is
\* what its counter says.
GroupsOnly ==
  /\ reuse = FALSE
  /\ remaining % 4 = 0

CleanAccount ==
  \A h \in clean :
    /\ at[h] # "failed"
    /\ counter[h] + remaining + (IF Due(h) THEN size ELSE 0) = containers_count
    /\ touched[h] =
         Selection(0, (counter[h] + (IF Worked(h) THEN size ELSE 0)) \div 4)

ScheduleInv ==
  ScheduleTypeOK /\ PoolInv /\ GroupsOnly /\ NeverOverdrawn /\ CleanAccount

\* The first batch has containers: otherwise its size is 0, every host fails the
\* assertion, and the loop repeats a batch that takes nothing off its account.
SomeForEveryHost == initial_expected_concurrent_registrations >= Cardinality(Hosts)

\* Nothing but a retry holds the loop up: it ends, whatever hosts are lost on the
\* way, or one of them retries its failed registrations for ever.
EndsUnlessRetrying ==
  SomeForEveryHost =>
    <>[]ScheduleDone \/ \E h \in Hosts : <>[](at[h] = "retrying")
=============================================================================
