-------------------------- MODULE MCContainerPool --------------------------
(* Two hosts with three groups of four containers, runs of one or two groups. *)
EXTENDS ContainerPoolProps

MCLines == [el \in EL |-> IF el = "el8" THEN 6 ELSE 3]
MCBoolean == BOOLEAN
NoReuse == {FALSE}

\* Runs start as long as a counter is inside the list, so the last ones find
\* the list exhausted.
CounterBound == 12
MCNext ==
  \/ /\ \A h \in Hosts : counter[h] < CounterBound
     /\ \E s \in Sizes, total \in Totals, r \in ReuseHosts : StartRun(s, total, r)
  \/ PlaybookStep
MCSpec == Init /\ [][MCNext]_poolVars
=============================================================================
