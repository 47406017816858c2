------------------------------ MODULE TraceReport ------------------------------
(***************************************************************************)
(* The calls of a trace as _build_trace lists them for a registration      *)
(* without a capsule, and what generate_trace_report.py makes of them: the *)
(* phase of a call, the table of phases, the representative trace and the  *)
(* arrows of the sequence diagram.  A path is the sequence of its segments.*)
(***************************************************************************)
EXTENDS RegistrationLog, SequencesExt, PythonBasics

CONSTANT FullTrace      \* calls under a UUID a representative should have

ASSUME TraceReportAssumption == FullTrace \in Nat

\* What a request of the plan is in the log; :id stands for a UUID.
RequestOf(kind) ==
    CASE kind = "script" -> <<"GET", "register">>
      [] kind = "create" -> <<"POST", "rhsm", "consumers">>
      [] kind = "compliance" -> <<"GET", "rhsm", "consumers", ":id", "compliance">>
      [] kind = "status" -> <<"GET", "rhsm", "status">>
      [] kind = "facts" -> <<"PUT", "rhsm", "consumers", ":id">>
      [] kind = "register" -> <<"POST", "register">>

\* The request at a place of the log, which stands for the id of the request.
\* The registration it really is of is kept with it.
Call(i) ==
    [id |-> i, request |-> RequestOf(records[i].kind), ts |-> records[i].ts, reg |-> records[i].reg]

\* Step 6: the status calls are one entry, at the time of the creation.
StatusEntry(s) ==
    IF s.status = 0 THEN {}
    ELSE {[id |-> 0, request |-> RequestOf("status"), ts |-> s.create.ts, reg |-> s.create.reg]}

\* Steps 1 to 4 and 6.  A script or a POST /register is chosen where there is
\* one.  Step 5 takes the GET /rhsm/ records without a consumer, which
\* _filter_reg_records has dropped before: it never adds a call.
OneOf(found) == IF found = {} THEN {{}} ELSE {{i} : i \in found}
Traces(s) ==
    {{Call(i) : i \in TraceOwn(s) \cup {s.place} \cup script \cup register} \cup StatusEntry(s) :
        script \in OneOf(TraceScripts(s)), register \in OneOf(TraceRegisters(s))}

\* The time from the creation to the last call.
Duration(s, trace) == Max({c.ts : c \in trace}) - s.create.ts

-----------------------------------------------------------------------------
(***************************************************************************)
(* The phases, in the order in which they are tried.                       *)
(***************************************************************************)
PHASES == <<
    [name |-> "Script delivery", patterns |-> {<<"GET", "register">>}],
    [name |-> "Consumer creation", patterns |-> {<<"POST", "rhsm", "consumers">>}],
    [name |-> "Status / cert loop", patterns |->
        {<<"GET", "rhsm", "status">>, <<"GET", "rhsm">>}
          \cup {<<"GET", "rhsm", "consumers", ":id", what>> :
                  what \in {"certificates", "accessible_content", "content_overrides", "release"}}],
    [name |-> "Host registration", patterns |-> {<<"POST", "register">>}],
    [name |-> "Facts update", patterns |-> {<<"PUT", "rhsm", "consumers", ":id">>}],
    [name |-> "Compliance polling", patterns |->
        {<<"GET", "rhsm", "consumers", ":id", "compliance">>}],
    [name |-> "Build completion", patterns |-> {<<"GET", "unattended", "built">>}],
    [name |-> "Insights integration", patterns |->
        {<<"GET", "redhat_access">>, <<"POST", "redhat_access">>}],
    [name |-> "Content download", patterns |-> {<<"GET", "pulp">>}] >>

\* Faulty: the method is not looked at.
PathMatches(request, pattern) == IsPrefix(Tail(pattern), Tail(request))

Matches(request, pattern) == IsPrefix(pattern, request)

\* _phase_for_call: the first phase with a pattern that matches.
PhaseOf(request) ==
    LET fits == {i \in DOMAIN PHASES : \E p \in PHASES[i].patterns : Matches(request, p)}
    IN IF fits = {} THEN "Other" ELSE PHASES[Min(fits)].name

CallsIn(trace, name) == {c \in trace : PhaseOf(c.request) = name}

\* _phase_stats: of the traces that have the phase, how many and with how
\* many calls, in tenths.
PhaseStats(traces) ==
    LET names == {PhaseOf(c.request) : c \in UNION traces}
        having(name) == {t \in traces : CallsIn(t, name) # {}}
    IN [name \in names |->
          [samples |-> Cardinality(having(name)),
           calls |-> (10 * MapThenSumSet(LAMBDA t : Cardinality(CallsIn(t, name)), having(name)))
                       \div Cardinality(having(name))]]

\* The comparison of two levels: what the low one lacks is 0, without a percentage.
PhaseComparison(low, high) ==
    LET lo == PhaseStats(low)
        hi == PhaseStats(high)
        calls(stats, name) == IF name \in DOMAIN stats THEN stats[name].calls ELSE 0
        listed == {PHASES[i].name : i \in DOMAIN PHASES} \cap (DOMAIN lo \cup DOMAIN hi)
    IN [name \in listed |->
          [delta |-> calls(hi, name) - calls(lo, name), pct |-> calls(lo, name) # 0]]

-----------------------------------------------------------------------------
(***************************************************************************)
(* The representative: of the complete and successful traces, else of the  *)
(* successful, else of all, the median of the durations.  pairs holds the  *)
(* sessions with their traces.                                             *)
(***************************************************************************)
UuidCalls(trace) == {c \in trace : \E i \in DOMAIN c.request : c.request[i] = ":id"}

Representative(pairs) ==
    LET successful == {p \in pairs : p.session.create.status \in {0, 200, 201}}
        full == {p \in successful : Cardinality(UuidCalls(p.trace)) >= FullTrace}
        pool == CASE full # {} -> full
                  [] full = {} /\ successful # {} -> successful
                  [] OTHER -> pairs
        sorted == SetToSortSeq(pool, LAMBDA p, q :
                     Duration(p.session, p.trace) < Duration(q.session, q.trace))
    IN sorted[Len(sorted) \div 2 + 1]

\* calls.sort(): by time, and at one time in the order of the steps of
\* _build_trace, in the first of them in the order of the log.
StepOf(call) ==
    CASE call.id = 0 -> 6
      [] call.request = RequestOf("register") -> 4
      [] call.request = RequestOf("script") -> 3
      [] call.request = RequestOf("create") -> 2
      [] OTHER -> 1

CallBefore(c, d) ==
    \/ c.ts < d.ts
    \/ c.ts = d.ts /\ StepOf(c) < StepOf(d)
    \/ c.ts = d.ts /\ StepOf(c) = StepOf(d) /\ c.id < d.id

CallOrder(trace) == {p \in trace \X trace : CallBefore(p[1], p[2])}

\* _call_to_seq, for what the satellite logs and for the entry of the status calls.
Receiver(call) ==
    CASE call.id # 0 /\ call.request[2] = "rhsm" -> "CP"
      [] call.id # 0 /\ call.request[2] = "pulp" -> "Pulp"
      [] OTHER -> "Sat"
Arrow(call, direct) == <<IF direct THEN "Client" ELSE "Cap", Receiver(call), call.request>>

\* _render_sequence_diagram: in the order of the calls.
Diagram(trace, direct) ==
    LET sorted == Sorted(trace, CallOrder(trace))
    IN [i \in DOMAIN sorted |-> Arrow(sorted[i], direct)]
=============================================================================
