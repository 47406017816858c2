------------------------- MODULE RequestTrackerProps -------------------------
(***************************************************************************)
(* What the request figures of a step stand for.                           *)
(***************************************************************************)
EXTENDS RequestTracker, FiniteSetsExt

(***************************************************************************)
(* Although a dropped request leaves its entry in _active and its id comes *)
(* back, a record never joins the start of one request to the end of       *)
(* another: the records are the requests that ended, in order.             *)
(***************************************************************************)
RecordsAreRequests == records = ended

(***************************************************************************)
(* The cut at the snapshot's index and the comparison with its baseline    *)
(* together count the requests that started and ended within the step, so  *)
(* a late request of one page never counts for the next.                   *)
(***************************************************************************)
StepsCountTheirOwn ==
    \A i \in DOMAIN steps :
        Range(steps[i].counted) =
            {r \in Range(ended) : steps[i].from <= r.start /\ r.end <= steps[i].to}

\* The intervals that are open at a moment, both ends included.
Overlap(ivs, t) == Cardinality({i \in DOMAIN ivs : ivs[i].start <= t /\ t <= ivs[i].end})

(***************************************************************************)
(* The sweep of _compute_concurrency finds the largest overlap of the      *)
(* rounded intervals and the first moment that has it, also when rounding  *)
(* puts the end of one request and the start of the next on one offset.    *)
(***************************************************************************)
SweepFindsOverlap ==
    snap # NoSnapshot =>
        LET ivs == Intervals(snap)
            moments == {ivs[i].start : i \in DOMAIN ivs}
            largest == Max({Overlap(ivs, t) : t \in moments} \cup {0})
            sweep == Sweep(ivs)
        IN /\ sweep.max = largest
           /\ sweep.current = 0
           /\ sweep.peak = IF moments = {} THEN None
                           ELSE Min({t \in moments : Overlap(ivs, t) = largest})

\* The request count of a step: no record is made up or lost, and each belongs
\* to the step it started and ended in.
StepsAreRequests == RecordsAreRequests /\ StepsCountTheirOwn
=============================================================================
