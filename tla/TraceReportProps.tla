--------------------------- MODULE TraceReportProps ---------------------------
(***************************************************************************)
(* What a reader may take from the traces of a mixed log.                  *)
(***************************************************************************)
EXTENDS TraceReport, RegistrationLogProps

\* Nobody else has a request within reach of the trace.
TraceAlone(s) ==
    \A i \in DOMAIN records : InReach(s, records[i].ts) => records[i].reg = s.create.reg

LoggedInReach(s, kind) == {i \in RecordsOf(s.create.reg, kind) : InReach(s, records[i].ts)}

\* "Reconstruct the full ordered API call list for a single registration": the
\* trace of an audited registration that nobody comes near has one call in each
\* of its phases for one in the log, and none of somebody else, whichever of the
\* requests of one second the index prefers.  The report has nothing under "Other",
\* and its diagram has an arrow for every call, an earlier one for an earlier call.
LoneTraceIsWhole ==
    \A s \in Sessions :
        LET logged(kind) == Cardinality(LoggedInReach(s, kind))
        IN TraceAlone(s) /\ s.create.uuid # Unknown =>
            \A trace \in Traces(s) :
                LET calls(name) == Cardinality(CallsIn(trace, name))
                    diagram == Diagram(trace, TRUE)
                IN
                /\ \A c \in trace : c.reg = s.create.reg
                /\ calls("Script delivery") = logged("script")
                /\ calls("Consumer creation") = 1
                /\ calls("Host registration") = logged("register")
                /\ calls("Facts update") = logged("facts")
                /\ calls("Other") = 0
                /\ DOMAIN diagram = 1 .. Cardinality(trace)
                /\ \A c, d \in trace :
                     c.ts < d.ts =>
                        \E j, k \in 1 .. Cardinality(trace) :
                            /\ j < k
                            /\ diagram[j] = Arrow(c, TRUE)
                            /\ diagram[k] = Arrow(d, TRUE)

\* generate_trace_report.py: "Phase 6 — Compliance polling", with a row of its
\* own in every table of phases.
PollingHasItsPhase ==
    \A s \in Sessions : \A trace \in Traces(s) :
        (\E c \in trace : c.request = RequestOf("compliance"))
            => "Compliance polling" \in DOMAIN PhaseStats({trace})
=============================================================================
