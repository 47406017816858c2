------------------------ MODULE RegistrationLogProps ------------------------
(***************************************************************************)
(* What the sessions read out of a mixed log stand for.                    *)
(***************************************************************************)
EXTENDS RegistrationLog

RecordsOf(reg, kind) == {i \in DOMAIN records : records[i].reg = reg /\ records[i].kind = kind}

(***************************************************************************)
(* registration_metrics.py on the audit line: an exact mapping with no     *)
(* heuristics.  Once it was read, the session has the UUID of its          *)
(* registration and exactly the compliance calls of that one, whoever      *)
(* registers at the same time.                                             *)
(***************************************************************************)
AuditedIsExact ==
    \A s \in Sessions :
        s.create.uuid # Unknown =>
            /\ s.uuid = s.create.reg
            /\ s.compliance = Cardinality(RecordsOf(s.create.reg, "compliance"))

\* Somebody else has a request within reach of the session.
Crowded(s) ==
    \E i \in DOMAIN records :
        /\ records[i].reg # s.create.reg
        /\ s.create.ts - Window <= records[i].ts /\ records[i].ts <= s.create.ts + Window

Own(s, found) == \A i \in found : records[i].reg = s.create.reg

\* What its registration has in the log up to the end of its window.
Near(s, kind) ==
    {i \in RecordsOf(s.create.reg, kind) : records[i].ts <= s.create.ts + Window}

(***************************************************************************)
(* A registration that nobody comes near is read exactly, also without     *)
(* audit lines: every request attributed to it is its own, none of those   *)
(* in reach is missed, and the status calls are its own.                   *)
(***************************************************************************)
AloneIsExact ==
    \A s \in Sessions :
        ~Crowded(s) =>
            /\ s.uuid \in {s.create.reg, Unknown}
            /\ Own(s, s.script) /\ Own(s, s.register) /\ Own(s, s.facts)
            /\ Near(s, "register") # {} => s.register # {}
            /\ Near(s, "facts") # {} => s.facts # {} /\ s.uuid = s.create.reg
            /\ s.status = Cardinality(Near(s, "status"))

(***************************************************************************)
(* The trace of a session and its figures tell one story: whatever both of *)
(* them attribute is the same request, up to the order within a second.    *)
(***************************************************************************)
TraceAgrees ==
    \A s \in Sessions :
        /\ TraceScripts(s) # {} => s.script # {} /\ s.script \subseteq TraceScripts(s)
        /\ s.register \subseteq TraceRegisters(s)
        /\ Cardinality(TraceOwn(s) \cap Of("compliance")) <= s.compliance

(***************************************************************************)
(* Every POST /rhsm/consumers whose start was logged is one session, and a *)
(* session is a success or one error, never both and never two: what the   *)
(* report calls errors are the refused ones and the ones never answered.   *)
(***************************************************************************)
ErrorsAddUp ==
    /\ Cardinality(Sessions) =
         Cardinality({reg \in Registration : RecordsOf(reg, "create") # {}})
    /\ ErrorCount + Cardinality({s \in Sessions : s.create.status = 201})
         = Cardinality(Sessions)

\* What a session has attributed to it is its own wherever the log can tell.
AttributionIsExact == AuditedIsExact /\ AloneIsExact

\* The figures of the analysis, the traces and the errors are of one campaign.
FiguresAgree == TraceAgrees /\ ErrorsAddUp
=============================================================================
