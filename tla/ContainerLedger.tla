-------------------------- MODULE ContainerLedger --------------------------
(***************************************************************************)
(* What the container pool promises its callers, with no files, plays or   *)
(* counters: a host lends out a set of containers none of which was used   *)
(* up before, and the loan ends either by using them up or by giving all   *)
(* of them back.                                                           *)
(***************************************************************************)
CONSTANTS Hosts, Container

VARIABLES
  taken,  \* the containers each host has lent out
  spent   \* the containers each host has used up

ledgerVars == <<taken, spent>>

Init ==
  /\ taken = [h \in Hosts |-> {}]
  /\ spent = [h \in Hosts |-> {}]

Take(h) ==
  /\ taken[h] = {}
  /\ \E S \in SUBSET (Container \ spent[h]) : taken' = [taken EXCEPT ![h] = S]
  /\ UNCHANGED spent

UseUp(h) ==
  /\ spent' = [spent EXCEPT ![h] = @ \cup taken[h]]
  /\ taken' = [taken EXCEPT ![h] = {}]

GiveBack(h) ==
  /\ taken' = [taken EXCEPT ![h] = {}]
  /\ UNCHANGED spent

Next == \E h \in Hosts : Take(h) \/ UseUp(h) \/ GiveBack(h)

Spec == Init /\ [][Next]_ledgerVars
=============================================================================
