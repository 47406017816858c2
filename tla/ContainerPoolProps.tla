------------------------- MODULE ContainerPoolProps -------------------------
(***************************************************************************)
(* What the container pool guarantees, and what its comments promise.      *)
(***************************************************************************)
EXTENDS ContainerPool

\* The host has selected containers in this run and they are not counted yet.
Holding(h) ==
  \/ play = "preparation" /\ at[h] = "done"
  \/ play = "execution" /\ at[h] # "failed"
  \/ play = "increment" /\ at[h] = "pending"

\* The counter file alone says which containers were used up: the lines below
\* it, and no others, belong to runs that were counted.  The counter is read in
\* the first play and advanced from a second read in the last one.
CounterRecordsSpent ==
  \A h \in Hosts : spent[h] = Selection(0, counter[h] \div 4)

\* A run without reuse_hosts works on containers that no counted run used, from
\* its selection until the counter is advanced.
FreshSelection ==
  \A h \in Hosts : Holding(h) /\ ~reuse => inventory[h] \cap spent[h] = {}

\* "so there are always a multiple of: 2 EL8, 1 EL9, 1 EL10 ... an apple to
\* apple comparison" (playbooks/tests/registrations_old.yaml:68-72): whatever
\* is left of the pool, a selection keeps the proportion of its EL versions.
AppleToApple ==
  \A h \in Hosts : Holding(h) =>
    LET Of(el) == Cardinality({c \in inventory[h] : c[1] = el})
    IN  Of("el8") = 2 * Of("el9") /\ Of("el9") = Of("el10")

\* The state the inductive proof of the two invariants above needs besides
\* them: the counter only ever holds multiples of four, and what a host holds
\* is still what its counter selects.
HoldsSelection ==
  \A h \in Hosts :
    /\ counter[h] % 4 = 0
    /\ Holding(h) => /\ SizeIsAccepted
                     /\ ~reuse => inventory[h] =
                          Selection(counter[h] \div 4, size \div 4)

PoolInv == TypeOK /\ CounterRecordsSpent /\ HoldsSelection

\* The pool implements the ledger: the spent containers are read off the
\* counter, the taken ones are those a host holds.
Ledger == INSTANCE ContainerLedger WITH
  taken <- [h \in Hosts |-> IF Holding(h) /\ ~reuse THEN inventory[h] ELSE {}],
  spent <- [h \in Hosts |-> Selection(0, counter[h] \div 4)]

ImplementsLedger == Ledger!Spec

\* "reuse_hosts: bool - reuse containers from previous run (default false)"
\* (playbooks/tests/concurrent_tasks.yaml:10): with the default no run selects a
\* container that an earlier run executed its tasks on.
NoReuseUnlessAsked ==
  [][\A h \in Hosts : inventory'[h] # inventory[h] /\ ~reuse
        => inventory'[h] \cap touched[h] = {}]_poolVars
=============================================================================
