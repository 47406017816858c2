--------------------------- MODULE RegistrationLog ---------------------------
(***************************************************************************)
(* How scripts/registration reads registrations out of production.log:     *)
(* _pass1 turns lines into request records, _pass2 groups them into        *)
(* sessions, _build_trace lists the calls of a session, _build_metrics     *)
(* counts outcomes.  Registrations run beside each other and the log mixes *)
(* their lines; of all requests only the ones under /rhsm/consumers/<uuid> *)
(* say whose they are.  The log may start in the middle of a registration. *)
(* A request is known by its registration and its place in the plan; what  *)
(* stands in the log of it is a record.                                    *)
(***************************************************************************)
EXTENDS Integers, Sequences, FiniteSets, FiniteSetsExt

CONSTANTS
    Registration,   \* the registrations, each with a consumer UUID of its own
    Plan,           \* the requests of a registration, in order
    Window,         \* window_sec of _pass2
    LookBack,       \* t0 - t_before of _build_trace
    LookAhead,      \* window_sec of _build_trace
    LastTs          \* bound: the log ends in this second

Kind == {"script", "create", "compliance", "status", "facts", "register"}
CreateStep == CHOOSE i \in DOMAIN Plan : Plan[i] = "create"

\* A registration fetches the script, runs it, and has its consumer created
\* before it calls anything else; POST /register comes once.
ASSUME RegistrationLogAssumption ==
    /\ Plan \in Seq(Kind)
    /\ \E i \in DOMAIN Plan : Plan[i] = "create"
    /\ \A i, j \in DOMAIN Plan :
         Plan[i] = Plan[j] /\ Plan[i] \in {"script", "create", "register"} => i = j
    /\ \A i \in DOMAIN Plan \ {CreateStep} : Plan[i] = "script" <=> i < CreateStep
    /\ Window \in Nat /\ LookBack \in Nat /\ LookAhead \in Nat /\ LastTs \in Nat
    /\ LookBack <= Window /\ Window <= LookAhead

VARIABLES
    audited,    \* the server writes the audit lines with the UUID
    now,        \* the second the next line is written in
    sent,       \* how many requests of the plan a registration has sent
    creating,   \* what its POST /rhsm/consumers waits for
    records     \* the records of _pass1, in the order of their Started lines

logVars == <<audited, now, sent, creating, records>>

Unknown == "unknown"    \* no UUID

\* The log starts at any point of the registrations: nothing of what was
\* started before it is recorded.
LogInit ==
    /\ audited \in BOOLEAN
    /\ now = 0
    /\ sent \in [Registration -> {0, CreateStep}]
    /\ creating = [reg \in Registration |-> IF sent[reg] = CreateStep THEN "started" ELSE "no"]
    /\ records = <<>>

NextSecond ==
    /\ now < LastTs
    /\ now' = now + 1
    /\ UNCHANGED <<audited, sent, creating, records>>

\* Started: ids are not used twice, so every such line makes a record.
Started(reg) ==
    /\ sent[reg] < Len(Plan) /\ creating[reg] = "no"
    /\ sent' = [sent EXCEPT ![reg] = @ + 1]
    /\ records' = Append(records,
         [reg |-> reg, kind |-> Plan[sent'[reg]], ts |-> now, status |-> 0, uuid |-> Unknown])
    /\ creating' = [creating EXCEPT ![reg] =
                      IF Plan[sent'[reg]] = "create" THEN "started" ELSE "no"]
    /\ UNCHANGED <<audited, now>>

\* A line of a request under way changes its record, when there is one.
InRecord(reg, field, value) ==
    records' = [i \in DOMAIN records |->
        IF records[i].reg = reg /\ records[i].kind = "create"
        THEN [records[i] EXCEPT ![field] = value] ELSE records[i]]

\* The audit line of the consumer's facets, with the id of its request.
AuditLine(reg) ==
    /\ audited /\ creating[reg] = "started"
    /\ creating' = [creating EXCEPT ![reg] = "audited"]
    /\ InRecord(reg, "uuid", reg)
    /\ UNCHANGED <<audited, now, sent>>

\* Completed; a registration whose consumer was refused goes no further.
Completed(reg) ==
    /\ creating[reg] \in {"started", "audited"}
    /\ \E status \in {201, 500} :
         /\ audited /\ status = 201 => creating[reg] = "audited"
         /\ InRecord(reg, "status", status)
         /\ sent' = [sent EXCEPT ![reg] = IF status = 201 THEN @ ELSE Len(Plan)]
    /\ creating' = [creating EXCEPT ![reg] = "no"]
    /\ UNCHANGED <<audited, now>>

LogNext ==
    \/ NextSecond
    \/ \E reg \in Registration : Started(reg) \/ AuditLine(reg) \/ Completed(reg)

LogSpec == LogInit /\ [][LogNext]_logVars

-----------------------------------------------------------------------------
(***************************************************************************)
(* _pass2.  The lists are sorted by ts, which the log is already: a list   *)
(* is the set of the places of its requests in records, and where a        *)
(* bisection cuts it is known by what is left of the cut.                  *)
(***************************************************************************)
Of(kind) == {i \in DOMAIN records : records[i].kind = kind}

BisectLeft(list, ts) == {i \in list : records[i].ts < ts}

\* Faulty: bisect_left where bisect_right is meant.
BisectRightAsLeft(list, ts) == BisectLeft(list, ts)

BisectRight(list, ts) == {i \in list : records[i].ts <= ts}

\* list[lo:hi] for the times from t0 to t1, both included.
Slice(list, t0, t1) == BisectRight(list, t1) \ BisectLeft(list, t0)

\* The paths that contain a UUID: compliance and fact updates.
OwnerOf(list) == IF list = {} THEN Unknown ELSE records[Min(list)].reg

\* Faulty: the heuristics come first.
UuidGuessed(create) ==
    LET near == Slice(Of("compliance"), create.ts, create.ts + Window) IN
    IF near # {} THEN OwnerOf(near) ELSE create.uuid

\* Exact from the audit line, else of the first request in the window with one.
UuidOf(create) ==
    LET compliance == Slice(Of("compliance"), create.ts, create.ts + Window)
        facts == Slice(Of("facts"), create.ts, create.ts + Window)
    IN IF create.uuid # Unknown THEN create.uuid
       ELSE IF compliance # {} THEN OwnerOf(compliance) ELSE OwnerOf(facts)

\* The one just before, or the first one after; at most one.
LastOf(list) == IF list = {} THEN {} ELSE {Max(list)}
FirstOf(list) == IF list = {} THEN {} ELSE {Min(list)}

\* round(n / d): a half goes to the even neighbour.
Round(n, d) ==
    LET q == n \div d
        rest == 2 * (n % d)
    IN IF rest < d \/ (rest = d /\ q % 2 = 0) THEN q ELSE q + 1

ScriptOf(create) == LastOf(Slice(Of("script"), create.ts - Window, create.ts))
RegisterOf(create) == FirstOf(Slice(Of("register"), create.ts, create.ts + Window))
FactsOf(create) == FirstOf(Slice(Of("facts"), create.ts, create.ts + Window))

ComplianceOf(uuid) == {i \in Of("compliance") : records[i].reg = uuid}

\* hi - lo
CountWithin(list, t0, t1) == Cardinality(BisectRight(list, t1)) - Cardinality(BisectLeft(list, t0))

\* The status calls of the window, shared out among the sessions that start in it.
StatusCallsOf(create) ==
    LET concurrent == CountWithin(Of("create"), create.ts, create.ts + Window)
    IN Round(CountWithin(Of("status"), create.ts, create.ts + Window),
             IF concurrent > 1 THEN concurrent ELSE 1)

\* The session of the request at this place.
Session(place) ==
    LET create == records[place]
        uuid == UuidOf(create)
    IN [place |-> place, create |-> create, uuid |-> uuid,
        script |-> ScriptOf(create), register |-> RegisterOf(create),
        facts |-> FactsOf(create),
        compliance |-> Cardinality(ComplianceOf(uuid)),
        status |-> StatusCallsOf(create)]

Sessions == {Session(place) : place \in Of("create")}

(***************************************************************************)
(* _build_trace, steps 1 to 4, over the index of load_run_data: the places *)
(* of the requests it adds.  Among requests of one second the index        *)
(* prefers the greater request id, which may be any of them: a trace's     *)
(* script is one of a set.                                                 *)
(***************************************************************************)
InReach(s, ts) == s.create.ts - LookBack <= ts /\ ts <= s.create.ts + LookAhead

TraceOwn(s) ==
    {i \in Of("compliance") \cup Of("facts") :
        records[i].reg = s.uuid /\ InReach(s, records[i].ts)}

TraceScripts(s) ==
    LET upTo == BisectRight(Of("script"), s.create.ts)
    IN {i \in upTo :
          /\ records[i].ts = records[Max(upTo)].ts
          /\ records[i].ts >= s.create.ts - LookBack}

\* Faulty: only what follows in a later second.
TraceRegistersLater(s) ==
    LET from == Of("register") \ BisectRight(Of("register"), s.create.ts)
    IN {i \in from : records[i].ts = records[Min(from)].ts
                     /\ records[i].ts <= s.create.ts + LookAhead}

TraceRegisters(s) ==
    LET from == Of("register") \ BisectLeft(Of("register"), s.create.ts)
    IN {i \in from : records[i].ts = records[Min(from)].ts
                     /\ records[i].ts <= s.create.ts + LookAhead}

(***************************************************************************)
(* _build_metrics: refused registrations, and those without a Completed    *)
(* line.                                                                   *)
(***************************************************************************)
\* Faulty: status 0 counts here and among the timeouts.
ErrorsAndTimeouts == {s \in Sessions : s.create.status \notin {200, 201}}

Errors == {s \in Sessions : s.create.status \notin {0, 200, 201}}
Timeouts == {s \in Sessions : s.create.status = 0}
ErrorCount == Cardinality(Errors) + Cardinality(Timeouts)
=============================================================================
