---------------------------- MODULE RequestTracker ----------------------------
(***************************************************************************)
(* RequestTracker of playbooks/tests/files/ui-browser/navigation.py: it    *)
(* hears the request events of a page and sums up the requests of a step,  *)
(* from snapshot() to summary_since().  Requests are told apart by id(),   *)
(* which Python uses again once a request object is gone.  Urls, types and *)
(* statuses are left out: a request is when it started, when it ended and  *)
(* how.  Every event takes a moment of the clock.                          *)
(***************************************************************************)
EXTENDS Integers, Sequences, FiniteSets, PythonBasics

CONSTANTS
    Id,         \* the values of id(request)
    Moments,    \* bound: the run ends at this moment
    Unit        \* moments in the unit that offsets are rounded to

ASSUME TrackerAssumption ==
    Moments \in Nat /\ Unit \in Nat \ {0}

VARIABLES
    now,        \* monotonic()
    live,       \* the page's pending request with this id: when it was sent
    ended,      \* the requests that ended, as the page knows them
    active,     \* _active: start_ms
    records,    \* _records
    snap,       \* the snapshot of the step that is measured
    steps       \* the steps summed up so far

trackerVars == <<now, live, ended, active, records, snap, steps>>

None == -1      \* no such request, no such snapshot
Request == [start : Nat, end : Nat, outcome : {"finished", "failed"}]
Snapshot == [index : Nat, baseline : Nat]
NoSnapshot == [index |-> 0, baseline |-> None]

TrackerInit ==
    /\ now = 0
    /\ live = [id \in Id |-> None] /\ ended = <<>>
    /\ active = [id \in Id |-> None] /\ records = <<>>
    /\ snap = NoSnapshot /\ steps = <<>>

Tick == now < Moments /\ now' = now + 1

\* Faulty: an id that is known already keeps its first start.
KeepFirst(id) == IF active[id] = None THEN now ELSE active[id]

\* start_ms of a new entry of _active.
Registered(id) == now

\* The page sends a request: _on_request.
OnRequest(id) ==
    /\ Tick
    /\ live[id] = None
    /\ live' = [live EXCEPT ![id] = now]
    /\ active' = [active EXCEPT ![id] = Registered(id)]
    /\ UNCHANGED <<ended, records, snap, steps>>

\* A page that is left drops its requests: no event comes, and the id is free again.
Abandon(id) ==
    /\ Tick
    /\ live[id] # None
    /\ live' = [live EXCEPT ![id] = None]
    /\ UNCHANGED <<ended, active, records, snap, steps>>

\* _on_request_finished and _on_request_failed: _finalize.
Finalize(id, outcome) ==
    /\ Tick
    /\ live[id] # None
    /\ live' = [live EXCEPT ![id] = None]
    /\ ended' = Append(ended, [start |-> live[id], end |-> now, outcome |-> outcome])
    /\ active' = [active EXCEPT ![id] = None]
    /\ records' = IF active[id] = None THEN records
                  ELSE Append(records, [start |-> active[id], end |-> now, outcome |-> outcome])
    /\ UNCHANGED <<snap, steps>>

\* snapshot(), at the start of a step.
TakeSnapshot ==
    /\ Tick
    /\ snap = NoSnapshot
    /\ snap' = [index |-> Len(records), baseline |-> now]
    /\ UNCHANGED <<live, ended, active, records, steps>>

-----------------------------------------------------------------------------
(***************************************************************************)
(* summary_since.                                                          *)
(***************************************************************************)
\* Faulty: every request that ended in the window counts.
EndedSince(s) == SubSeq(records, s.index + 1, Len(records))

\* The records of the list comprehension, in order.
Kept(s) == {i \in s.index + 1 .. Len(records) : records[i].start >= s.baseline}
Window(s) ==
    [k \in 1 .. Cardinality(Kept(s)) |->
        records[CHOOSE i \in Kept(s) : Cardinality({j \in Kept(s) : j <= i}) = k]]

\* round(..., 2) of an offset from the baseline.
Rounded(t) == (t + Unit \div 2) \div Unit

\* _relative_offsets of every record.
Intervals(s) ==
    LET w == Window(s) IN
    [i \in DOMAIN w |-> [start |-> Rounded(w[i].start - s.baseline),
                         end |-> Rounded(w[i].end - s.baseline)]]

Starts(ivs) == {[at |-> ivs[i].start, delta |-> 1, of |-> i] : i \in DOMAIN ivs}
Ends(ivs) == {[at |-> ivs[i].end, delta |-> -1, of |-> i] : i \in DOMAIN ivs}

\* Faulty: at the same offset the ends come first.
EndsFirst(a, b) ==
    \/ a.at < b.at
    \/ a.at = b.at /\ a.delta < b.delta
    \/ a.at = b.at /\ a.delta = b.delta /\ a.of < b.of

\* The key of events.sort, which leaves equal events in the order of the records.
EventBefore(a, b) ==
    \/ a.at < b.at
    \/ a.at = b.at /\ a.delta > b.delta
    \/ a.at = b.at /\ a.delta = b.delta /\ a.of < b.of

SweepEvents(ivs) == Starts(ivs) \cup Ends(ivs)
EventOrder(ivs) == {p \in SweepEvents(ivs) \X SweepEvents(ivs) : EventBefore(p[1], p[2])}

\* The body of the loop over the events.
Visit(state, event) ==
    LET current == state.current + event.delta IN
    IF current > state.max
    THEN [current |-> current, max |-> current, peak |-> event.at]
    ELSE [state EXCEPT !.current = current]

\* _compute_concurrency: the sweep over the sorted starts and ends.
Sweep(ivs) ==
    LET events == Sorted(SweepEvents(ivs), EventOrder(ivs))
        after[k \in 0 .. Cardinality(SweepEvents(ivs))] ==
            IF k = 0 THEN [current |-> 0, max |-> 0, peak |-> None]
            ELSE Visit(after[k - 1], events[k])
    IN after[Cardinality(SweepEvents(ivs))]

\* The step is summed up: from, to, and the requests that count.
Summarize ==
    /\ Tick
    /\ snap # NoSnapshot
    /\ steps' = Append(steps, [from |-> snap.baseline, to |-> now, counted |-> Window(snap)])
    /\ snap' = NoSnapshot
    /\ UNCHANGED <<live, ended, active, records>>

-----------------------------------------------------------------------------
TrackerNext ==
    \/ \E id \in Id :
         \/ OnRequest(id) \/ Abandon(id)
         \/ \E outcome \in {"finished", "failed"} : Finalize(id, outcome)
    \/ TakeSnapshot
    \/ Summarize

TrackerSpec == TrackerInit /\ [][TrackerNext]_trackerVars
=============================================================================
