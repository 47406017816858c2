--------------------------- MODULE ContainerPool ---------------------------
(***************************************************************************)
(* The pool of client containers and the playbook that draws from it,      *)
(* playbooks/tests/concurrent_tasks.yaml with the role concurrent_task.    *)
(*                                                                         *)
(* Every container host keeps /root/container-ips.shuffled, the list of    *)
(* its containers, and /root/container-used-count, how many of them        *)
(* earlier runs have used up.  A run of the playbook is three plays: the   *)
(* first selects the next containers of the list, the second executes the  *)
(* tasks on them, the third advances the counter.  Ansible drops a host    *)
(* that fails in one play from all the later ones, and starts a play only  *)
(* when every host still in the run has finished the play before.          *)
(***************************************************************************)
EXTENDS Integers, FiniteSets

CONSTANTS
  Hosts,      \* the inventory group container_hosts
  Lines,      \* Lines[el]: lines of container-ips.shuffled starting with el
  Sizes,      \* the values of -e size= a caller may pass
  Totals,     \* the values of -e total= a caller may pass, 0 when it does not
  ReuseHosts, \* the values of -e reuse_hosts= a caller may pass
  RetryFailed \* -e retry_failed=, false when the caller leaves it out

EL == {"el8", "el9", "el10"}

ASSUME PoolAssumption ==
  /\ IsFiniteSet(Hosts)
  /\ Hosts # {}
  /\ Lines \in [EL -> Nat]
  /\ Sizes \subseteq Nat
  /\ Totals \subseteq Nat
  /\ ReuseHosts \subseteq BOOLEAN
  /\ RetryFailed \in BOOLEAN

\* A container is the k-th line of its EL version in the shuffled list.
Container == UNION {{el} \X (1..Lines[el]) : el \in EL}

VARIABLES
  play,       \* the play the run is in, "none" between two runs
  at,         \* how far each host is in the play
  size,       \* containers per host of the run
  reuse,      \* reuse_hosts of the run
  counter,    \* /root/container-used-count, 0 when there is no such file
  inventory,  \* clients_<size>.ini
  touched,    \* history: the containers some run executed tasks on
  spent       \* history: the containers of the runs that were counted

runVars == <<play, at, size, reuse>>
poolVars == <<play, at, size, reuse, counter, inventory, touched, spent>>

Plays == {"none", "preparation", "execution", "increment"}
Progress == {"pending", "retrying", "done", "failed"}

TypeOK ==
  /\ play \in Plays
  /\ at \in [Hosts -> Progress]
  /\ size \in Nat
  /\ reuse \in BOOLEAN
  /\ counter \in [Hosts -> Nat]
  /\ inventory \in [Hosts -> SUBSET Container]
  /\ touched \in [Hosts -> SUBSET Container]
  /\ spent \in [Hosts -> SUBSET Container]

Init ==
  /\ play = "none"
  /\ at = [h \in Hosts |-> "done"]
  /\ size = 0
  /\ reuse = FALSE
  /\ counter = [h \in Hosts |-> 0]
  /\ inventory = [h \in Hosts |-> {}]
  /\ touched = [h \in Hosts |-> {}]
  /\ spent = [h \in Hosts |-> {}]

-----------------------------------------------------------------------------
\* Faulty: every EL version advances alike.
LineOfAlike(el, groups) == groups

\* Containers come in groups of four: two EL8, one EL9 and one EL10.
LineOf(el, groups) == IF el = "el8" THEN groups * 2 ELSE groups

\* Faulty: the start line is selected again.
SelectionFromStartLine(used_count, select_size) ==
  {c \in Container : /\ c[2] >= LineOf(c[1], used_count)
                     /\ c[2] <= LineOf(c[1], used_count + select_size)}

\* What the awk filter NR > START_LINE && NR <= END_LINE leaves of the list.
Selection(used_count, select_size) ==
  {c \in Container : /\ c[2] > LineOf(c[1], used_count)
                     /\ c[2] <= LineOf(c[1], used_count + select_size)}

SizeFromTotal(total) ==
  LET n == Cardinality(Hosts)
  IN  (((total + n - 1) \div n + 3) \div 4) * 4

SizeIsAccepted == size >= 4 /\ size % 4 = 0

Alive == {h \in Hosts : at[h] # "failed"}
Unfinished == {h \in Hosts : at[h] \in {"pending", "retrying"}}
AllFinished == Unfinished = {}

\* ansible-playbook is called with -e size=s or with -e total=t.
StartRun(s, total, reuse_hosts) ==
  /\ play = "none"
  /\ play' = "preparation"
  /\ at' = [h \in Hosts |-> "pending"]
  /\ size' = IF total > 0 THEN SizeFromTotal(total) ELSE s
  /\ reuse' = reuse_hosts
  /\ UNCHANGED <<counter, inventory, touched, spent>>

\* Faulty: the counter file is never read.
PrepareFromTop(h) ==
  /\ play = "preparation"
  /\ at[h] = "pending"
  /\ SizeIsAccepted
  /\ inventory' = [inventory EXCEPT ![h] = Selection(0, size \div 4)]
  /\ at' = [at EXCEPT ![h] = "done"]
  /\ UNCHANGED <<play, size, reuse, counter, touched, spent>>

\* The play "preparation": size is asserted, then the list is written anew.
Prepare(h) ==
  /\ play = "preparation"
  /\ at[h] = "pending"
  /\ IF SizeIsAccepted
     THEN /\ LET containers_used_count == IF reuse THEN 0 ELSE counter[h]
             IN  inventory' = [inventory EXCEPT ![h] =
                    Selection(containers_used_count \div 4, size \div 4)]
          /\ at' = [at EXCEPT ![h] = "done"]
     ELSE /\ at' = [at EXCEPT ![h] = "failed"]
          /\ UNCHANGED inventory
  /\ UNCHANGED <<play, size, reuse, counter, touched, spent>>

\* The play "execution": the tasks run on the containers of the list.  A task
\* that fails the host (host-registration_prepare.yaml without ignore_errors,
\* a log that is missing) has run on its containers all the same.  When the log
\* has containers with failed=1 and they are to be retried, the host goes on.
Execute(h) ==
  /\ play = "execution"
  /\ at[h] = "pending"
  /\ touched' = [touched EXCEPT ![h] = @ \cup inventory[h]]
  /\ \E outcome \in {"done", "failed"} \cup (IF RetryFailed THEN {"retrying"} ELSE {}) :
       at' = [at EXCEPT ![h] = outcome]
  /\ UNCHANGED <<play, size, reuse, counter, inventory, spent>>

\* A pass of the loop while num_fails # 0 on containers of the same inventory.
\* It may leave failed=1 in its log, any number of times; when it does not, the
\* host does the tasks that are left.
Retry(h) ==
  /\ play = "execution"
  /\ at[h] = "retrying"
  /\ \E outcome \in {"retrying", "done", "failed"} : at' = [at EXCEPT ![h] = outcome]
  /\ UNCHANGED <<play, size, reuse, counter, inventory, touched, spent>>

\* Faulty: the play falls back on its own default, vars: size: 4.
IncrementByDefault(h) ==
  /\ play = "increment"
  /\ at[h] = "pending"
  /\ at' = [at EXCEPT ![h] = "done"]
  /\ IF reuse
     THEN UNCHANGED <<counter, spent>>
     ELSE /\ counter' = [counter EXCEPT ![h] = @ + 4]
          /\ spent' = [spent EXCEPT ![h] = @ \cup inventory[h]]
  /\ UNCHANGED <<play, size, reuse, inventory, touched>>

\* The play "increment": the counter file is read again and rewritten.
Increment(h) ==
  /\ play = "increment"
  /\ at[h] = "pending"
  /\ at' = [at EXCEPT ![h] = "done"]
  /\ IF reuse
     THEN UNCHANGED <<counter, spent>>
     ELSE /\ counter' = [counter EXCEPT ![h] = @ + size]
          /\ spent' = [spent EXCEPT ![h] = @ \cup inventory[h]]
  /\ UNCHANGED <<play, size, reuse, inventory, touched>>

\* A host is unreachable at a task of any play.
LoseHost(h) ==
  /\ play # "none"
  /\ h \in Unfinished
  /\ at' = [at EXCEPT ![h] = "failed"]
  /\ UNCHANGED <<play, size, reuse, counter, inventory, touched, spent>>

\* The next play starts for the hosts that are left.
NextPlay ==
  /\ play \in {"preparation", "execution"}
  /\ AllFinished
  /\ Alive # {}
  /\ play' = IF play = "preparation" THEN "execution" ELSE "increment"
  /\ at' = [h \in Hosts |-> IF h \in Alive THEN "pending" ELSE "failed"]
  /\ UNCHANGED <<size, reuse, counter, inventory, touched, spent>>

\* ansible-playbook returns after its last play, or when no host is left.
EndRun ==
  /\ play # "none"
  /\ AllFinished
  /\ play = "increment" \/ Alive = {}
  /\ play' = "none"
  /\ UNCHANGED <<at, size, reuse, counter, inventory, touched, spent>>

\* What ansible-playbook comes to by itself once the tasks before have ended.
DueStep ==
  \/ \E h \in Hosts : Prepare(h) \/ Execute(h) \/ Increment(h)
  \/ NextPlay
  \/ EndRun

PlaybookStep ==
  \/ DueStep
  \/ \E h \in Hosts : Retry(h) \/ LoseHost(h)

Next ==
  \/ \E s \in Sizes, total \in Totals, r \in ReuseHosts : StartRun(s, total, r)
  \/ PlaybookStep

Spec == Init /\ [][Next]_poolVars
=============================================================================
