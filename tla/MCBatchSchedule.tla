-------------------------- MODULE MCBatchSchedule --------------------------
(* Two hosts with 20 containers each: with 8 expected registrations the      *)
(* batches take 4, 8 and the remaining 8 containers of a host.               *)
EXTENDS BatchSchedule

MCLines == [el \in EL |-> IF el = "el8" THEN 10 ELSE 5]
=============================================================================
