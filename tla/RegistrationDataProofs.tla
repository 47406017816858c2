------------------------ MODULE RegistrationDataProofs ------------------------
(***************************************************************************)
(* The data of a registration experiment: what is read out of the log and  *)
(* traced in it, for any number of registrations, any plan of requests,    *)
(* any windows and a log of any length; the cache of it, for any number of *)
(* calls and updates; the comparison of any builds; and the reports of     *)
(* campaigns of any size.                                                  *)
(***************************************************************************)
EXTENDS TraceReportProps, RunCacheProps, RunComparison, RegistrationReportsProps, PythonBasics

-----------------------------------------------------------------------------
(***************************************************************************)
(* The log.                                                                *)
(***************************************************************************)
Record ==
    [reg : Registration, kind : Kind, ts : Nat, status : {0, 201, 500},
     uuid : Registration \cup {Unknown}]

LogTypeOK ==
    /\ now \in Nat
    /\ sent \in [Registration -> 0 .. Len(Plan)]
    /\ creating \in [Registration -> {"no", "started", "audited"}]
    /\ records \in Seq(Record)

InOrder ==
    \A i \in DOMAIN records :
        /\ records[i].ts <= now
        /\ \A j \in DOMAIN records : i <= j => records[i].ts <= records[j].ts

\* The audit line is the one of its request.
OwnUuid == \A i \in DOMAIN records : records[i].uuid \in {records[i].reg, Unknown}

\* What stands in the log of a registration was sent by it ...
WasSent == \A i \in DOMAIN records : \E k \in 1 .. sent[records[i].reg] : Plan[k] = records[i].kind

\* ... once, where the plan has it once ...
LoggedOnce ==
    \A i, j \in DOMAIN records :
        /\ records[i].reg = records[j].reg /\ records[i].kind = records[j].kind
        /\ records[i].kind \in {"script", "create", "register"}
        => i = j

\* ... and in the order of the plan.
ScriptThenCreate ==
    \A i, j \in DOMAIN records :
        records[i].reg = records[j].reg /\ records[i].kind = "create" /\ i # j
            => (j < i <=> records[j].kind = "script")

LogInv ==
    /\ LogTypeOK /\ InOrder /\ OwnUuid
    /\ WasSent /\ LoggedOnce /\ ScriptThenCreate

LEMMA PlanFacts ==
    /\ Len(Plan) \in Nat /\ DOMAIN Plan = 1 .. Len(Plan)
    /\ \A k \in 1 .. Len(Plan) : Plan[k] \in Kind
    /\ CreateStep \in 1 .. Len(Plan) /\ Plan[CreateStep] = "create"
    /\ \A k \in 1 .. Len(Plan) : Plan[k] = "create" => k = CreateStep
    /\ \A k \in 1 .. Len(Plan) : k # CreateStep => (Plan[k] = "script" <=> k < CreateStep)
    /\ \A k, l \in 1 .. Len(Plan) :
         Plan[k] = Plan[l] /\ Plan[k] \in {"script", "create", "register"} => k = l
    /\ Window \in Nat /\ LookBack \in Nat /\ LookAhead \in Nat
    /\ LookBack <= Window /\ Window <= LookAhead
  <1>1. Plan \in Seq(Kind)
    BY RegistrationLogAssumption
  <1>2. Len(Plan) \in Nat /\ DOMAIN Plan = 1 .. Len(Plan) /\ \A k \in 1 .. Len(Plan) : Plan[k] \in Kind
    BY <1>1
  <1>3. CreateStep \in 1 .. Len(Plan) /\ Plan[CreateStep] = "create"
    BY <1>2, RegistrationLogAssumption DEF CreateStep
  <1> QED
    BY <1>2, <1>3, RegistrationLogAssumption

LEMMA LogBegins == LogInit => LogInv
  <1> SUFFICES ASSUME LogInit PROVE LogInv
    OBVIOUS
  <1>1. records = <<>> /\ DOMAIN records = {}
    BY DEF LogInit
  <1>2. sent \in [Registration -> 0 .. Len(Plan)]
    BY PlanFacts DEF LogInit
  <1>3. LogTypeOK
    BY <1>1, <1>2 DEF LogTypeOK, LogInit
  <1> QED
    BY <1>1, <1>3 DEF LogInv, InOrder, OwnUuid, WasSent, LoggedOnce, ScriptThenCreate

\* A request that starts: the new last record.
LEMMA StartedStep ==
    ASSUME LogInv, NEW reg \in Registration, Started(reg)
    PROVE  LogInv'
  <1> USE PlanFacts
  <1> DEFINE k == sent[reg] + 1
             n == Len(records)
             new == [reg |-> reg, kind |-> Plan[k], ts |-> now, status |-> 0, uuid |-> Unknown]
  <1>1. /\ k \in 1 .. Len(Plan) /\ sent' = [sent EXCEPT ![reg] = k] /\ sent'[reg] = k
        /\ creating' = [creating EXCEPT ![reg] = IF Plan[k] = "create" THEN "started" ELSE "no"]
        /\ now' = now
    BY DEF LogInv, LogTypeOK, Started
  <1>2. records' = Append(records, new)
    BY <1>1 DEF Started
  <1>3. records \in Seq(Record) /\ new \in Record /\ n \in Nat
    BY <1>1 DEF LogInv, LogTypeOK, Record
  <1>4. /\ records' \in Seq(Record) /\ DOMAIN records = 1 .. n /\ DOMAIN records' = 1 .. n + 1
        /\ \A i \in 1 .. n : records'[i] = records[i]
        /\ records'[n + 1] = new
    BY <1>2, <1>3
  <1> HIDE DEF n
  <1>5. \A i \in 1 .. n : i \in 1 .. n + 1 /\ i # n + 1 /\ i < n + 1
    BY <1>3
  <1>6. \A i \in 1 .. n + 1 : i \in 1 .. n \/ i = n + 1
    BY <1>3
  <1>7. LogTypeOK'
    BY <1>1, <1>4 DEF LogInv, LogTypeOK
  <1>8. InOrder'
    <2>1. \A i \in 1 .. n : records'[i].ts <= now
      BY <1>4 DEF LogInv, InOrder
    <2>2. records'[n + 1].ts = now /\ now \in Nat
      BY <1>4 DEF LogInv, LogTypeOK
    <2>3. \A i, j \in 1 .. n : i <= j => records'[i].ts <= records'[j].ts
      BY <1>4 DEF LogInv, InOrder
    <2> QED
      BY <1>1, <1>3, <1>4, <1>6, <2>1, <2>2, <2>3 DEF InOrder
  <1>9. OwnUuid'
    BY <1>4, <1>6 DEF LogInv, OwnUuid
  <1>10. \A i \in 1 .. n : records[i].reg \in Registration /\ \E l \in 1 .. sent[records[i].reg] : Plan[l] = records[i].kind
    <2> TAKE i \in 1 .. n
    <2>1. records[i] \in Record
      BY <1>3, <1>4
    <2> QED
      BY <1>4, <2>1 DEF LogInv, WasSent, Record
  <1>11. WasSent'
    <2>1. \A i \in 1 .. n : \E l \in 1 .. sent'[records[i].reg] : Plan[l] = records[i].kind
      BY <1>1, <1>10 DEF LogInv, LogTypeOK
    <2>2. \E l \in 1 .. sent'[reg] : Plan[l] = Plan[k]
      BY <1>1
    <2> QED
      BY <1>4, <1>6, <2>1, <2>2 DEF WasSent
  \* What the registration sent before.
  <1>12. \A i \in 1 .. n : records[i].reg = reg => \E l \in 1 .. Len(Plan) : l < k /\ Plan[l] = records[i].kind
    BY <1>1, <1>10 DEF LogInv, LogTypeOK
  <1>13. LoggedOnce'
    <2>1. \A i \in 1 .. n : ~ (records[i].reg = reg /\ records[i].kind = Plan[k] /\ Plan[k] \in {"script", "create", "register"})
      BY <1>1, <1>12
    <2>2. \A i, j \in 1 .. n : records'[i].reg = records'[j].reg /\ records'[i].kind = records'[j].kind
             /\ records'[i].kind \in {"script", "create", "register"} => i = j
      BY <1>4 DEF LogInv, LoggedOnce
    <2> QED
      BY <1>4, <1>6, <2>1, <2>2 DEF LoggedOnce
  <1>14. ScriptThenCreate'
    <2>1. \A i \in 1 .. n : records[i].reg = reg /\ Plan[k] = "create" => records[i].kind = "script"
      BY <1>1, <1>12
    <2>2. \A i \in 1 .. n : records[i].reg = reg /\ records[i].kind = "create" => Plan[k] # "script"
      BY <1>1, <1>12
    <2>3. \A i, j \in 1 .. n : records'[i].reg = records'[j].reg /\ records'[i].kind = "create" /\ i # j
              => (j < i <=> records'[j].kind = "script")
      BY <1>4 DEF LogInv, ScriptThenCreate
    <2>4. \A i \in 1 .. n : ~ (n + 1 < i) /\ i < n + 1
      BY <1>3
    <2> QED
      BY <1>4, <1>6, <2>1, <2>2, <2>3, <2>4 DEF ScriptThenCreate
  <1> QED
    BY <1>7, <1>8, <1>9, <1>11, <1>13, <1>14 DEF LogInv

\* A line that changes what is known of requests leaves them where they are.
LEMMA SameRequests ==
    ASSUME LogInv, records' \in Seq(Record), DOMAIN records' = DOMAIN records, now' \in Nat, now <= now',
           \A i \in DOMAIN records :
               /\ records'[i].reg = records[i].reg /\ records'[i].kind = records[i].kind
               /\ records'[i].ts = records[i].ts
               /\ records'[i].uuid \in {records[i].reg, Unknown},
           sent' \in [Registration -> 0 .. Len(Plan)],
           \A reg \in Registration : sent[reg] <= sent'[reg],
           creating' \in [Registration -> {"no", "started", "audited"}]
    PROVE  LogInv'
  <1>1. LogTypeOK'
    BY DEF LogTypeOK
  <1>2. \A i \in DOMAIN records : records[i].ts \in Nat /\ records[i].reg \in Registration
    <2> TAKE i \in DOMAIN records
    <2>1. records \in Seq(Record)
      BY DEF LogInv, LogTypeOK
    <2>2. records[i] \in Record
      BY <2>1
    <2> QED
      BY <2>2 DEF Record
  <1>3. InOrder'
    <2>1. InOrder /\ now \in Nat /\ now' \in Nat
      BY DEF LogInv, LogTypeOK
    <2>2. \A i \in DOMAIN records : records'[i].ts = records[i].ts
      OBVIOUS
    <2>3. \A n \in Nat : n <= now => n <= now'
      BY <2>1
    <2> QED
      BY <1>2, <2>1, <2>2, <2>3, Zenon DEF InOrder
  <1>4. OwnUuid'
    BY DEF OwnUuid
  <1>5. WasSent'
    <2> SUFFICES ASSUME NEW i \in DOMAIN records
                 PROVE  \E k \in 1 .. sent'[records[i].reg] : Plan[k] = records[i].kind
      BY DEF WasSent
    <2>1. PICK k \in 1 .. sent[records[i].reg] : Plan[k] = records[i].kind
      BY DEF LogInv, WasSent
    <2>2. sent[records[i].reg] \in Nat /\ sent'[records[i].reg] \in Nat
          /\ sent[records[i].reg] <= sent'[records[i].reg]
      BY <1>2, PlanFacts DEF LogInv, LogTypeOK
    <2> QED
      BY <2>1, <2>2
  <1>6. LoggedOnce'
    BY DEF LogInv, LoggedOnce
  <1>7. ScriptThenCreate'
    BY DEF LogInv, ScriptThenCreate
  <1> QED
    BY <1>1, <1>3, <1>4, <1>5, <1>6, <1>7 DEF LogInv

\* InRecord changes one field of the records of one request.
LEMMA FieldChanges ==
    ASSUME LogInv, NEW reg \in Registration, NEW field \in {"uuid", "status"}, NEW value,
           field = "uuid" => value = reg, field = "status" => value \in {201, 500},
           InRecord(reg, field, value)
    PROVE  /\ records' \in Seq(Record) /\ DOMAIN records' = DOMAIN records
           /\ \A i \in DOMAIN records :
                /\ records'[i].reg = records[i].reg /\ records'[i].kind = records[i].kind
                /\ records'[i].ts = records[i].ts
                /\ records'[i].uuid \in {records[i].reg, Unknown}
  <1>1. records \in Seq(Record) /\ DOMAIN records = 1 .. Len(records) /\ Len(records) \in Nat
    BY DEF LogInv, LogTypeOK
  <1>2. records' = [i \in 1 .. Len(records) |->
            IF records[i].reg = reg /\ records[i].kind = "create"
            THEN [records[i] EXCEPT ![field] = value] ELSE records[i]]
    BY <1>1 DEF InRecord
  <1>3. \A i \in 1 .. Len(records) :
            /\ records'[i] \in Record
            /\ records'[i].reg = records[i].reg /\ records'[i].kind = records[i].kind
            /\ records'[i].ts = records[i].ts
            /\ records'[i].uuid \in {records[i].reg, Unknown}
    <2> TAKE i \in 1 .. Len(records)
    <2>1. records[i] \in Record /\ records[i].uuid \in {records[i].reg, Unknown}
      BY <1>1 DEF LogInv, OwnUuid
    <2>2. CASE ~ (records[i].reg = reg /\ records[i].kind = "create")
      BY <1>2, <2>1, <2>2
    <2>3. CASE records[i].reg = reg /\ records[i].kind = "create" /\ field = "uuid"
      <3>1. records'[i] = [records[i] EXCEPT !.uuid = reg]
        BY <1>2, <2>3
      <3> QED
        BY <2>1, <2>3, <3>1 DEF Record
    <2>4. CASE records[i].reg = reg /\ records[i].kind = "create" /\ field = "status"
      <3>1. records'[i] = [records[i] EXCEPT !.status = value]
        BY <1>2, <2>4
      <3> QED
        BY <2>1, <2>4, <3>1 DEF Record
    <2> QED
      BY <2>2, <2>3, <2>4
  <1>4. records' \in [1 .. Len(records) -> Record]
    BY <1>2, <1>3
  <1> QED
    BY <1>1, <1>3, <1>4

LEMMA AuditLineStep ==
    ASSUME LogInv, NEW reg \in Registration, AuditLine(reg)
    PROVE  LogInv'
  <1>1. /\ creating' = [creating EXCEPT ![reg] = "audited"] /\ InRecord(reg, "uuid", reg)
        /\ now' = now /\ sent' = sent
    BY DEF AuditLine
  <1>2. sent \in [Registration -> 0 .. Len(Plan)] /\ now \in Nat
        /\ creating' \in [Registration -> {"no", "started", "audited"}]
    BY <1>1 DEF LogInv, LogTypeOK
  <1>3. \A r \in Registration : sent[r] <= sent[r]
    BY <1>2, PlanFacts
  <1>4. /\ records' \in Seq(Record) /\ DOMAIN records' = DOMAIN records
        /\ \A i \in DOMAIN records :
                /\ records'[i].reg = records[i].reg /\ records'[i].kind = records[i].kind
                /\ records'[i].ts = records[i].ts
                /\ records'[i].uuid \in {records[i].reg, Unknown}
    BY <1>1, FieldChanges
  <1> QED
    BY <1>1, <1>2, <1>3, <1>4, SameRequests

LEMMA CompletedStep ==
    ASSUME LogInv, NEW reg \in Registration, Completed(reg)
    PROVE  LogInv'
  <1>1. PICK status \in {201, 500} :
            /\ audited /\ status = 201 => creating[reg] = "audited"
            /\ InRecord(reg, "status", status)
            /\ sent' = [sent EXCEPT ![reg] = IF status = 201 THEN @ ELSE Len(Plan)]
    BY Zenon DEF Completed
  <1>2. creating' = [creating EXCEPT ![reg] = "no"] /\ now' = now
    BY DEF Completed
  <1>3. sent \in [Registration -> 0 .. Len(Plan)] /\ now \in Nat
        /\ creating' \in [Registration -> {"no", "started", "audited"}]
    BY <1>2 DEF LogInv, LogTypeOK
  <1>4. sent' \in [Registration -> 0 .. Len(Plan)] /\ \A r \in Registration : sent[r] <= sent'[r]
    BY <1>1, <1>3, PlanFacts
  <1>5. /\ records' \in Seq(Record) /\ DOMAIN records' = DOMAIN records
        /\ \A i \in DOMAIN records :
                /\ records'[i].reg = records[i].reg /\ records'[i].kind = records[i].kind
                /\ records'[i].ts = records[i].ts
                /\ records'[i].uuid \in {records[i].reg, Unknown}
    BY <1>1, FieldChanges
  <1> QED
    BY <1>2, <1>3, <1>4, <1>5, SameRequests

LEMMA SecondStep ==
    ASSUME LogInv, NextSecond \/ UNCHANGED logVars
    PROVE  LogInv'
  <1>1. now \in Nat /\ (now' = now + 1 \/ now' = now) /\ sent' = sent /\ creating' = creating /\ records' = records
    BY DEF LogInv, LogTypeOK, NextSecond, logVars
  <1>2. sent \in [Registration -> 0 .. Len(Plan)] /\ creating \in [Registration -> {"no", "started", "audited"}]
        /\ records \in Seq(Record)
    BY DEF LogInv, LogTypeOK
  <1>3. \A r \in Registration : sent[r] <= sent[r]
    BY <1>2, PlanFacts
  <1>4. \A i \in DOMAIN records : records[i].uuid \in {records[i].reg, Unknown}
    BY DEF LogInv, OwnUuid
  <1> QED
    BY <1>1, <1>2, <1>3, <1>4, SameRequests

\* The records stand in the order of the clock, each in its registration's
\* order, with the UUID of its registration or none.
THEOREM LogInvariant == LogSpec => []LogInv
  <1>1. LogInit => LogInv
    BY LogBegins
  <1>2. LogInv /\ [LogNext]_logVars => LogInv'
    BY StartedStep, AuditLineStep, CompletedStep, SecondStep DEF LogNext
  <1> QED
    BY <1>1, <1>2, PTL DEF LogSpec

-----------------------------------------------------------------------------
(***************************************************************************)
(* What _pass2 reads out of it.                                            *)
(***************************************************************************)
LEMMA LogFacts ==
    ASSUME LogInv
    PROVE  /\ Len(records) \in Nat /\ DOMAIN records = 1 .. Len(records)
           /\ \A i \in 1 .. Len(records) :
                /\ records[i] \in Record
                /\ records[i].ts \in Nat /\ records[i].reg \in Registration
                /\ records[i].kind \in Kind /\ records[i].status \in {0, 201, 500}
                /\ records[i].uuid \in {records[i].reg, Unknown}
                /\ \A j \in 1 .. Len(records) : i <= j => records[i].ts <= records[j].ts
  <1>1. records \in Seq(Record)
    BY DEF LogInv, LogTypeOK
  <1>2. \A i \in 1 .. Len(records) : records[i] \in Record
    BY <1>1
  <1>3. Len(records) \in Nat /\ DOMAIN records = 1 .. Len(records)
    BY <1>1
  <1> QED
    BY <1>2, <1>3 DEF LogInv, InOrder, OwnUuid, Record

\* A list is a finite set of places, and so is every part of it.
LEMMA ListFacts ==
    ASSUME LogInv, NEW list \in SUBSET (1 .. Len(records))
    PROVE  list \in SUBSET Nat /\ IsFiniteSet(list) /\ Cardinality(list) \in Nat
  <1>1. Len(records) \in Nat
    BY LogFacts
  <1>2. IsFiniteSet(1 .. Len(records))
    BY <1>1, FS_Interval
  <1>3. IsFiniteSet(list)
    BY <1>2, FS_Subset
  <1>4. list \in SUBSET Nat
    BY <1>1
  <1> QED
    BY <1>3, <1>4, FS_CardinalityType

LEMMA OfFacts ==
    ASSUME LogInv, NEW kind
    PROVE  Of(kind) \in SUBSET (1 .. Len(records)) /\ \A i \in Of(kind) : records[i].kind = kind
  BY LogFacts DEF Of

\* Between two bisections lie the requests of the time between them.
LEMMA SliceIs ==
    ASSUME LogInv, NEW list \in SUBSET (1 .. Len(records)), NEW t0 \in Int, NEW t1 \in Int
    PROVE  Slice(list, t0, t1) = {i \in list : t0 <= records[i].ts /\ records[i].ts <= t1}
  <1>1. \A i \in list : records[i].ts \in Nat
    BY LogFacts
  <1>2. \A i \in list : ~ (records[i].ts < t0) <=> t0 <= records[i].ts
    <2>1. \A n \in Nat : ~ (n < t0) <=> t0 <= n
      OBVIOUS
    <2> QED
      BY <1>1, <2>1, Zenon
  <1> QED
    BY <1>2, Zenon DEF Slice, BisectLeft, BisectRight

LEMMA CountIs ==
    ASSUME LogInv, NEW list \in SUBSET (1 .. Len(records)), NEW t0 \in Int, NEW t1 \in Int, t0 <= t1
    PROVE  CountWithin(list, t0, t1) = Cardinality(Slice(list, t0, t1))
  <1> DEFINE right == BisectRight(list, t1)
             left == BisectLeft(list, t0)
  <1>1. \A i \in list : records[i].ts \in Nat
    BY LogFacts
  <1>2. right \in SUBSET (1 .. Len(records)) /\ left \subseteq right
    <2>1. right = {i \in list : records[i].ts <= t1} /\ left = {i \in list : records[i].ts < t0}
      BY DEF BisectLeft, BisectRight
    <2> HIDE DEF right, left
    <2>2. \A i \in list : records[i].ts < t0 => records[i].ts <= t1
      BY <1>1
    <2> QED
      BY <2>1, <2>2
  <1>3. IsFiniteSet(right) /\ Cardinality(right) \in Nat
    BY <1>2, ListFacts
  <1> HIDE DEF right, left
  <1>4. Cardinality(right \ left) = Cardinality(right) - Cardinality(right \cap left)
    BY <1>3, FS_Difference
  <1>5. right \cap left = left
    BY <1>2
  <1> QED
    BY <1>4, <1>5 DEF CountWithin, Slice, right, left

LEMMA SessionFacts ==
    ASSUME LogInv, NEW s \in Sessions
    PROVE  /\ s.place \in 1 .. Len(records) /\ s.create = records[s.place]
           /\ s.create.kind = "create" /\ s.create.ts \in Nat /\ s.create.reg \in Registration
           /\ s.create.uuid \in {s.create.reg, Unknown} /\ s.create.status \in {0, 201, 500}
           /\ s.uuid = UuidOf(s.create)
           /\ s.script = ScriptOf(s.create) /\ s.register = RegisterOf(s.create)
           /\ s.facts = FactsOf(s.create)
           /\ s.compliance = Cardinality(ComplianceOf(s.uuid))
           /\ s.status = StatusCallsOf(s.create)
           /\ s = Session(s.place)
  <1>1. PICK p \in Of("create") : s = Session(p)
    BY DEF Sessions
  <1>2. p \in 1 .. Len(records) /\ records[p].kind = "create"
    BY OfFacts
  <1>3. /\ s.place = p /\ s.create = records[p] /\ s.uuid = UuidOf(s.create)
        /\ s.script = ScriptOf(s.create) /\ s.register = RegisterOf(s.create)
        /\ s.facts = FactsOf(s.create)
        /\ s.compliance = Cardinality(ComplianceOf(s.uuid))
        /\ s.status = StatusCallsOf(s.create)
    BY <1>1 DEF Session
  <1> QED
    BY <1>1, <1>2, <1>3, LogFacts

\* With the audit line the UUID is that of the registration, and all its
\* compliance calls are counted.
LEMMA AuditedFromInv == LogInv => AuditedIsExact
  <1> SUFFICES ASSUME LogInv, NEW s \in Sessions, s.create.uuid # Unknown
               PROVE  /\ s.uuid = s.create.reg
                      /\ s.compliance = Cardinality(RecordsOf(s.create.reg, "compliance"))
    BY DEF AuditedIsExact
  <1>1. s.uuid = s.create.reg
    BY SessionFacts DEF UuidOf
  <1>2. ComplianceOf(s.create.reg) = RecordsOf(s.create.reg, "compliance")
    BY DEF ComplianceOf, RecordsOf, Of
  <1> QED
    BY <1>1, <1>2, SessionFacts

\* In an empty neighbourhood a slice holds the requests of one registration,
\* and all of those it sent after its consumer.
LEMMA LoneSlice ==
    ASSUME LogInv, NEW s \in Sessions, ~ Crowded(s), NEW kind \in Kind,
           NEW t0 \in Int, NEW t1 \in Int,
           s.create.ts - Window <= t0, t1 <= s.create.ts + Window
    PROVE  \A i \in Slice(Of(kind), t0, t1) : records[i].reg = s.create.reg
  <1>1. Slice(Of(kind), t0, t1) = {i \in Of(kind) : t0 <= records[i].ts /\ records[i].ts <= t1}
    BY OfFacts, SliceIs
  <1>2. \A i \in Of(kind) : i \in DOMAIN records /\ records[i].ts \in Nat
    BY OfFacts, LogFacts
  <1>3. s.create.ts \in Nat /\ Window \in Nat
    BY SessionFacts, PlanFacts
  <1> QED
    BY <1>1, <1>2, <1>3 DEF Crowded

LEMMA OwnFollows ==
    ASSUME LogInv, NEW s \in Sessions, NEW kind \in {"compliance", "status", "facts", "register"},
           NEW i \in RecordsOf(s.create.reg, kind)
    PROVE  i \in Of(kind) /\ s.place < i /\ s.create.ts <= records[i].ts
  <1>1. /\ s.place \in 1 .. Len(records) /\ s.create = records[s.place]
        /\ s.create.kind = "create"
    BY SessionFacts
  <1>2. i \in 1 .. Len(records) /\ records[i].reg = s.create.reg /\ records[i].kind = kind
    BY LogFacts DEF RecordsOf
  <1>3. i # s.place /\ ~ (i < s.place)
    BY <1>1, <1>2, LogFacts DEF LogInv, ScriptThenCreate
  <1>4. s.place < i
    BY <1>1, <1>2, <1>3, LogFacts
  <1> QED
    BY <1>1, <1>2, <1>4, LogFacts DEF Of

LEMMA LoneWindow ==
    ASSUME LogInv, NEW s \in Sessions, ~ Crowded(s), NEW kind \in {"compliance", "status", "facts", "register"}
    PROVE  Slice(Of(kind), s.create.ts, s.create.ts + Window) = Near(s, kind)
  <1> DEFINE slice == Slice(Of(kind), s.create.ts, s.create.ts + Window)
  <1>1. s.create.ts \in Nat /\ Window \in Nat
    BY SessionFacts, PlanFacts
  <1>2. slice = {i \in Of(kind) : s.create.ts <= records[i].ts /\ records[i].ts <= s.create.ts + Window}
    BY <1>1, OfFacts, SliceIs
  <1>3. \A i \in slice : records[i].reg = s.create.reg
    BY <1>1, LoneSlice DEF Kind
  <1>4. slice \subseteq Near(s, kind)
    BY <1>2, <1>3 DEF Near, RecordsOf, Of
  <1>5. Near(s, kind) \subseteq slice
    BY <1>2, OwnFollows DEF Near
  <1> QED
    BY <1>4, <1>5

LEMMA Shared == \A n \in Nat : Round(n, 1) = n
  <1> TAKE n \in Nat
  <1>1. n \div 1 = n /\ n % 1 = 0
    OBVIOUS
  <1> QED
    BY <1>1 DEF Round

LEMMA AloneFromInv == LogInv => AloneIsExact
  <1> SUFFICES ASSUME LogInv, NEW s \in Sessions, ~ Crowded(s)
               PROVE  /\ s.uuid \in {s.create.reg, Unknown}
                      /\ Own(s, s.script) /\ Own(s, s.register) /\ Own(s, s.facts)
                      /\ Near(s, "register") # {} => s.register # {}
                      /\ Near(s, "facts") # {} => s.facts # {} /\ s.uuid = s.create.reg
                      /\ s.status = Cardinality(Near(s, "status"))
    BY DEF AloneIsExact
  <1> DEFINE slice(kind) == Slice(Of(kind), s.create.ts, s.create.ts + Window)
             scripts == Slice(Of("script"), s.create.ts - Window, s.create.ts)
             n == Len(records)
  <1>1. s.create.ts \in Nat /\ Window \in Nat /\ n \in Nat /\ s.create.uuid \in {s.create.reg, Unknown}
    BY SessionFacts, PlanFacts, LogFacts
  <1>2. \A kind \in Kind : slice(kind) \in SUBSET (1 .. n) /\ slice(kind) \in SUBSET Nat
    BY <1>1, OfFacts, SliceIs
  <1>3. \A kind \in Kind : \A i \in slice(kind) : records[i].reg = s.create.reg
    <2> TAKE kind \in Kind
    <2>1. s.create.ts + Window \in Int /\ s.create.ts - Window <= s.create.ts
          /\ s.create.ts + Window <= s.create.ts + Window /\ s.create.ts \in Int
      BY <1>1
    <2> QED
      BY <2>1, LoneSlice
  <1>4. scripts \in SUBSET (1 .. n) /\ \A i \in scripts : records[i].reg = s.create.reg
    BY <1>1, OfFacts, SliceIs, LoneSlice DEF Kind
  <1>5. \A kind \in {"compliance", "status", "facts", "register"} : slice(kind) = Near(s, kind)
    BY LoneWindow
  <1> HIDE DEF n, scripts
  <1>6. Own(s, s.script)
    <2>1. s.script = LastOf(scripts)
      BY SessionFacts DEF ScriptOf, scripts
    <2>2. scripts # {} => Max(scripts) \in scripts
      BY <1>1, <1>4, LastPlace
    <2> QED
      BY <1>4, <2>1, <2>2 DEF LastOf, Own
  <1>7. /\ s.register = FirstOf(slice("register")) /\ s.facts = FirstOf(slice("facts"))
    BY SessionFacts DEF RegisterOf, FactsOf
  <1>8. s.uuid = IF s.create.uuid # Unknown THEN s.create.uuid
                 ELSE IF slice("compliance") # {} THEN OwnerOf(slice("compliance"))
                 ELSE OwnerOf(slice("facts"))
    BY SessionFacts DEF UuidOf
  <1>9. s.status = Round(CountWithin(Of("status"), s.create.ts, s.create.ts + Window),
             IF CountWithin(Of("create"), s.create.ts, s.create.ts + Window) > 1
             THEN CountWithin(Of("create"), s.create.ts, s.create.ts + Window) ELSE 1)
    BY SessionFacts DEF StatusCallsOf
  <1>10. \A kind \in Kind : CountWithin(Of(kind), s.create.ts, s.create.ts + Window) = Cardinality(slice(kind))
    BY <1>1, OfFacts, CountIs
  <1> HIDE DEF slice
  <1>11. \A kind \in Kind : slice(kind) # {} => Min(slice(kind)) \in slice(kind)
    BY <1>2, FirstPlace
  <1>12. \A kind \in Kind : slice(kind) # {} => OwnerOf(slice(kind)) = s.create.reg
    BY <1>3, <1>11 DEF OwnerOf
  <1>13. Own(s, s.register) /\ Own(s, s.facts)
    BY <1>3, <1>7, <1>11 DEF FirstOf, Own, Kind
  <1>14. s.uuid \in {s.create.reg, Unknown}
    BY <1>1, <1>8, <1>12 DEF OwnerOf, Kind
  <1>15. Near(s, "register") # {} => s.register # {}
    BY <1>5, <1>7 DEF FirstOf
  <1>16. Near(s, "facts") # {} => s.facts # {} /\ s.uuid = s.create.reg
    BY <1>1, <1>5, <1>7, <1>8, <1>12 DEF FirstOf, Kind
  <1>17. s.status = Cardinality(Near(s, "status"))
    <2>1. \A i, j \in slice("create") : i = j
      <3>1. \A i \in slice("create") : i \in DOMAIN records /\ records[i].kind = "create" /\ records[i].reg = s.create.reg
        BY <1>1, <1>3, OfFacts, SliceIs, LogFacts DEF slice, Kind
      <3> QED
        BY <3>1 DEF LogInv, LoggedOnce
    <2>2. IsFiniteSet(slice("create")) /\ Cardinality(slice("create")) <= 1
      <3>1. CASE slice("create") = {}
        BY <3>1, FS_EmptySet
      <3>2. CASE slice("create") # {}
        <4>1. PICK i : slice("create") = {i}
          BY <2>1, <3>2
        <4>2. IsFiniteSet({i}) /\ Cardinality({i}) = 1
          BY FS_Singleton
        <4> QED
          BY <4>1, <4>2
      <3> QED
        BY <3>1, <3>2
    <2>3. Cardinality(slice("create")) \in Nat
      BY <2>2, FS_CardinalityType
    <2>4. Cardinality(slice("status")) \in Nat
      BY <1>2, ListFacts DEF Kind, n
    <2>5. s.status = Round(Cardinality(slice("status")), 1)
      BY <1>9, <1>10, <2>2, <2>3 DEF Kind
    <2>6. s.status = Cardinality(slice("status"))
      BY <2>4, <2>5, Shared
    <2> QED
      BY <1>5, <2>6
  <1> QED
    BY <1>6, <1>13, <1>14, <1>15, <1>16, <1>17

\* With an audit line always, and without one wherever nobody comes near, what
\* the sessions say of a registration is what it sent, however many others
\* register at the same time.
THEOREM LogAttributionIsExact == LogSpec => []AttributionIsExact
  <1>1. LogInv => AttributionIsExact
    BY AuditedFromInv, AloneFromInv DEF AttributionIsExact
  <1> QED
    BY <1>1, LogInvariant, PTL

-----------------------------------------------------------------------------
(***************************************************************************)
(* Sessions, traces and errors.                                            *)
(***************************************************************************)
\* _pass2 looks back at least as far as _build_trace for the script ...
LEMMA ScriptsAgree ==
    ASSUME LogInv, NEW s \in Sessions, TraceScripts(s) # {}
    PROVE  s.script # {} /\ s.script \subseteq TraceScripts(s)
  <1> DEFINE upTo == BisectRight(Of("script"), s.create.ts)
             slice == Slice(Of("script"), s.create.ts - Window, s.create.ts)
             n == Len(records)
  <1>1. s.create.ts \in Nat /\ Window \in Nat /\ LookBack \in Nat /\ LookBack <= Window /\ n \in Nat
    BY SessionFacts, PlanFacts, LogFacts
  <1>2. /\ upTo = {i \in Of("script") : records[i].ts <= s.create.ts}
        /\ slice = {i \in Of("script") : s.create.ts - Window <= records[i].ts /\ records[i].ts <= s.create.ts}
    BY <1>1, OfFacts, SliceIs DEF BisectRight
  <1>3. TraceScripts(s) =
           {i \in upTo : records[i].ts = records[Max(upTo)].ts /\ records[i].ts >= s.create.ts - LookBack}
    BY DEF TraceScripts
  <1>4. s.script = LastOf(slice)
    BY SessionFacts DEF ScriptOf
  <1> HIDE DEF upTo, slice, n
  <1>5. upTo \in SUBSET (1 .. n) /\ slice \subseteq upTo /\ slice \in SUBSET (1 .. n)
    BY <1>2, OfFacts DEF n
  <1>6. \A i \in upTo : records[i].ts \in Nat
    BY <1>5, LogFacts DEF n
  <1>7. PICK i \in upTo : records[i].ts = records[Max(upTo)].ts /\ records[i].ts >= s.create.ts - LookBack
    BY <1>3
  <1>8. Max(upTo) \in upTo /\ \A j \in upTo : j <= Max(upTo)
    BY <1>1, <1>5, <1>7, LastPlace
  <1>9. Max(upTo) \in slice /\ Max(upTo) \in TraceScripts(s)
    <2>1. records[Max(upTo)].ts >= s.create.ts - LookBack /\ records[Max(upTo)].ts <= s.create.ts
      BY <1>2, <1>7, <1>8
    <2>2. records[Max(upTo)].ts >= s.create.ts - Window
      BY <1>1, <1>6, <1>8, <2>1
    <2> QED
      BY <1>2, <1>3, <1>8, <2>1, <2>2
  <1>10. Max(slice) \in slice /\ \A j \in slice : j <= Max(slice)
    BY <1>1, <1>5, <1>9, LastPlace
  <1>11. Max(slice) = Max(upTo)
    <2>0. slice \in SUBSET Nat /\ upTo \in SUBSET Nat
      BY <1>1, <1>5
    <2>1. Max(slice) \in Nat /\ Max(upTo) \in Nat
      BY <2>0, <1>8, <1>10
    <2>2. Max(slice) <= Max(upTo) /\ Max(upTo) <= Max(slice)
      BY <1>5, <1>8, <1>9, <1>10
    <2> QED
      BY <2>1, <2>2
  <1> QED
    BY <1>4, <1>9, <1>11 DEF LastOf

\* ... and both take the first POST /register from the second of the creation on.
LEMMA RegistersAgree ==
    ASSUME LogInv, NEW s \in Sessions
    PROVE  s.register \subseteq TraceRegisters(s)
  <1> DEFINE from == Of("register") \ BisectLeft(Of("register"), s.create.ts)
             slice == Slice(Of("register"), s.create.ts, s.create.ts + Window)
             n == Len(records)
  <1>1. /\ s.create.ts \in Nat /\ Window \in Nat /\ LookAhead \in Nat
        /\ Window <= LookAhead /\ n \in Nat
    BY SessionFacts, PlanFacts, LogFacts
  <1>2. Of("register") \in SUBSET (1 .. n) /\ \A i \in Of("register") : records[i].ts \in Nat
    BY OfFacts, LogFacts
  <1>3. /\ from = {i \in Of("register") : s.create.ts <= records[i].ts}
        /\ slice = {i \in Of("register") : s.create.ts <= records[i].ts /\ records[i].ts <= s.create.ts + Window}
    BY <1>1, <1>2, OfFacts, SliceIs DEF BisectLeft
  <1>4. TraceRegisters(s) =
           {i \in from : records[i].ts = records[Min(from)].ts /\ records[i].ts <= s.create.ts + LookAhead}
    BY DEF TraceRegisters
  <1>5. s.register = FirstOf(slice)
    BY SessionFacts DEF RegisterOf
  <1> HIDE DEF from, slice
  <1>6. CASE slice = {}
    BY <1>5, <1>6 DEF FirstOf
  <1>7. CASE slice # {}
    <2>1. slice \in SUBSET Nat /\ from \in SUBSET Nat /\ slice \subseteq from /\ from \in SUBSET (1 .. n)
      BY <1>1, <1>2, <1>3
    <2>2. Min(slice) \in slice /\ \A j \in slice : Min(slice) <= j
      BY <1>7, <2>1, FirstPlace
    <2>3. Min(from) \in from /\ \A j \in from : Min(from) <= j
      BY <1>7, <2>1, FirstPlace
    <2>4. Min(from) \in slice
      <3>1. records[Min(from)].ts <= records[Min(slice)].ts
        <4>1. Min(slice) \in 1 .. n /\ Min(from) \in 1 .. n /\ Min(from) <= Min(slice)
          BY <2>1, <2>2, <2>3
        <4> QED
          BY <4>1, LogFacts
      <3>2. records[Min(slice)].ts <= s.create.ts + Window
        BY <1>3, <2>2
      <3>3. records[Min(from)].ts <= s.create.ts + Window
        BY <1>1, <1>2, <1>3, <2>1, <2>2, <2>3, <3>1, <3>2
      <3> QED
        BY <1>3, <2>3, <3>3
    <2>5. Min(slice) = Min(from)
      <3>1. Min(slice) \in Nat /\ Min(from) \in Nat
        BY <2>1, <2>2, <2>3
      <3>2. Min(slice) <= Min(from) /\ Min(from) <= Min(slice)
        BY <2>1, <2>2, <2>3, <2>4
      <3> QED
        BY <3>1, <3>2
    <2>6. records[Min(slice)].ts <= s.create.ts + LookAhead
      BY <1>1, <1>2, <1>3, <2>2
    <2> QED
      BY <1>4, <1>5, <1>7, <2>3, <2>5, <2>6 DEF FirstOf
  <1> QED
    BY <1>6, <1>7

LEMMA TraceFromInv == LogInv => TraceAgrees
  <1> SUFFICES ASSUME LogInv, NEW s \in Sessions
               PROVE  Cardinality(TraceOwn(s) \cap Of("compliance")) <= s.compliance
    BY ScriptsAgree, RegistersAgree DEF TraceAgrees
  <1>1. s.compliance = Cardinality(ComplianceOf(s.uuid))
    BY SessionFacts
  <1>2. TraceOwn(s) \cap Of("compliance") \subseteq ComplianceOf(s.uuid)
    BY DEF TraceOwn, ComplianceOf
  <1>3. ComplianceOf(s.uuid) \in SUBSET (1 .. Len(records))
    BY OfFacts DEF ComplianceOf
  <1>4. IsFiniteSet(ComplianceOf(s.uuid))
    BY <1>3, ListFacts
  <1> QED
    BY <1>1, <1>2, <1>4, FS_Subset

LEMMA SessionsFinite == LogInv => IsFiniteSet(Sessions) /\ Cardinality(Sessions) \in Nat
  <1> SUFFICES ASSUME LogInv PROVE IsFiniteSet(Sessions)
    BY FS_CardinalityType
  <1> DEFINE f == [p \in Of("create") |-> Session(p)]
  <1>1. IsFiniteSet(Of("create"))
    BY OfFacts, ListFacts
  <1>2. f \in Surjection(Of("create"), Sessions)
    BY DEF Surjection, Sessions
  <1> QED
    BY <1>1, <1>2, FS_Surjection

\* The sessions are counted by their registrations.
LEMMA OneSessionEach ==
    ASSUME LogInv
    PROVE  Cardinality(Sessions) = Cardinality({reg \in Registration : RecordsOf(reg, "create") # {}})
  <1> DEFINE regs == {reg \in Registration : RecordsOf(reg, "create") # {}}
             f == [s \in Sessions |-> s.create.reg]
  <1>1. \A s \in Sessions :
            /\ s.place \in DOMAIN records /\ s.create = records[s.place]
            /\ s.create.kind = "create" /\ s.create.reg \in Registration /\ s = Session(s.place)
    BY SessionFacts, LogFacts
  <1>2. \A s \in Sessions : s.create.reg \in regs
    BY <1>1 DEF RecordsOf
  <1>3. \A s, t \in Sessions : s.create.reg = t.create.reg => s = t
    <2> SUFFICES ASSUME NEW s \in Sessions, NEW t \in Sessions, s.create.reg = t.create.reg
                 PROVE  s = t
      OBVIOUS
    <2>1. s.place = t.place
      BY <1>1 DEF LogInv, LoggedOnce
    <2> QED
      BY <1>1, <2>1
  <1>4. \A reg \in regs : \E s \in Sessions : s.create.reg = reg
    <2> TAKE reg \in regs
    <2>1. PICK p \in DOMAIN records : records[p].reg = reg /\ records[p].kind = "create"
      BY DEF RecordsOf
    <2>2. Session(p) \in Sessions /\ Session(p).create = records[p]
      BY <2>1 DEF Sessions, Session, Of
    <2> QED
      BY <2>1, <2>2
  <1> HIDE DEF regs
  <1>5. f \in Bijection(Sessions, regs)
    BY <1>2, <1>3, <1>4 DEF Bijection, Injection, Surjection, IsInjective
  <1>6. ExistsBijection(Sessions, regs)
    BY <1>5 DEF ExistsBijection
  <1> QED
    BY <1>6, SessionsFinite, FS_Bijection DEF regs

LEMMA ErrorsFromInv == LogInv => ErrorsAddUp
  <1> SUFFICES ASSUME LogInv
               PROVE  ErrorCount + Cardinality({s \in Sessions : s.create.status = 201}) = Cardinality(Sessions)
    BY OneSessionEach DEF ErrorsAddUp
  <1> DEFINE Passed == {s \in Sessions : s.create.status = 201}
  <1>1. \A s \in Sessions : s.create.status \in {0, 201, 500}
    BY SessionFacts
  <1>2. /\ Sessions = (Errors \cup Timeouts) \cup Passed
        /\ Errors \cap Timeouts = {} /\ (Errors \cup Timeouts) \cap Passed = {}
        /\ Errors \subseteq Sessions /\ Timeouts \subseteq Sessions /\ Passed \subseteq Sessions
    BY <1>1 DEF Errors, Timeouts
  <1> HIDE DEF Passed
  <1>3. IsFiniteSet(Errors) /\ IsFiniteSet(Timeouts) /\ IsFiniteSet(Passed)
    BY <1>2, SessionsFinite, FS_Subset
  <1>4. Cardinality(Errors \cap Timeouts) = 0 /\ Cardinality((Errors \cup Timeouts) \cap Passed) = 0
    BY <1>2, FS_EmptySet, Zenon
  <1>5. /\ IsFiniteSet(Errors \cup Timeouts)
        /\ Cardinality(Errors \cup Timeouts)
             = Cardinality(Errors) + Cardinality(Timeouts) - Cardinality(Errors \cap Timeouts)
    BY <1>3, FS_Union
  <1>6. Cardinality((Errors \cup Timeouts) \cup Passed)
          = Cardinality(Errors \cup Timeouts) + Cardinality(Passed)
              - Cardinality((Errors \cup Timeouts) \cap Passed)
    BY <1>3, <1>5, FS_Union
  <1>7. /\ Cardinality(Errors) \in Nat /\ Cardinality(Timeouts) \in Nat /\ Cardinality(Passed) \in Nat
        /\ Cardinality(Errors \cup Timeouts) \in Nat
    BY <1>3, <1>5, FS_CardinalityType
  <1>8. Cardinality(Errors \cup Timeouts) = Cardinality(Errors) + Cardinality(Timeouts)
    BY <1>4, <1>5, <1>7
  <1>9. Cardinality(Sessions) = Cardinality(Errors \cup Timeouts) + Cardinality(Passed)
    <2>1. Cardinality(Sessions) = Cardinality((Errors \cup Timeouts) \cup Passed)
      BY <1>2, Zenon
    <2> QED
      BY <2>1, <1>4, <1>6, <1>7
  <1>10. ErrorCount + Cardinality(Passed) = Cardinality(Sessions)
    BY <1>7, <1>8, <1>9 DEF ErrorCount
  <1> QED
    BY <1>10 DEF Passed

\* The traces show what the sessions were counted with, and every registration
\* whose creation was logged is one session and a success or one error.
THEOREM LogFiguresAgree == LogSpec => []FiguresAgree
  <1>1. LogInv => FiguresAgree
    BY TraceFromInv, ErrorsFromInv DEF FiguresAgree
  <1> QED
    BY <1>1, LogInvariant, PTL

-----------------------------------------------------------------------------
(***************************************************************************)
(* The calls of a trace.                                                   *)
(***************************************************************************)
Segment ==
    {"GET", "POST", "PUT", "register", "rhsm", "consumers", ":id", "status", "compliance",
     "certificates", "accessible_content", "content_overrides", "release"}

LEMMA MatchesIs ==
    ASSUME NEW r \in Seq(Segment), NEW p \in Seq(Segment)
    PROVE  Matches(r, p) <=> Len(p) <= Len(r) /\ \A k \in 1 .. Len(p) : p[k] = r[k]
  <1>1. SubSeq(p, 1, Len(p)) = [k \in 1 .. Len(p) |-> p[k]]
    OBVIOUS
  <1>2. ASSUME Len(p) <= Len(r)
        PROVE  SubSeq(r, 1, Len(p)) = [k \in 1 .. Len(p) |-> r[k]]
    BY <1>2
  <1> QED
    BY <1>1, <1>2 DEF Matches, IsPrefix

LEMMA PhaseFields ==
    ASSUME NEW entry, NEW name, NEW patterns, entry = [name |-> name, patterns |-> patterns]
    PROVE  entry.name = name /\ entry.patterns = patterns
  OBVIOUS

LEMMA PhaseFacts ==
    /\ DOMAIN PHASES = 1 .. 9
    /\ PHASES[1].name = "Script delivery" /\ PHASES[1].patterns = {<<"GET", "register">>}
    /\ PHASES[2].name = "Consumer creation" /\ PHASES[2].patterns = {<<"POST", "rhsm", "consumers">>}
    /\ PHASES[3].name = "Status / cert loop" /\ <<"GET", "rhsm">> \in PHASES[3].patterns
    /\ \A p \in PHASES[3].patterns : p \in Seq(Segment) /\ Len(p) >= 2 /\ p[1] = "GET"
    /\ PHASES[4].name = "Host registration" /\ PHASES[4].patterns = {<<"POST", "register">>}
    /\ PHASES[5].name = "Facts update" /\ PHASES[5].patterns = {<<"PUT", "rhsm", "consumers", ":id">>}
  <1>1. DOMAIN PHASES = 1 .. 9
    BY DEF PHASES
  <1>2. PHASES[1] = [name |-> "Script delivery", patterns |-> {<<"GET", "register">>}]
    BY DEF PHASES
  <1>3. PHASES[2] = [name |-> "Consumer creation", patterns |-> {<<"POST", "rhsm", "consumers">>}]
    BY DEF PHASES
  <1>4. PHASES[3] = [name |-> "Status / cert loop", patterns |->
        {<<"GET", "rhsm", "status">>, <<"GET", "rhsm">>}
          \cup {<<"GET", "rhsm", "consumers", ":id", what>> :
                  what \in {"certificates", "accessible_content", "content_overrides", "release"}}]
    BY DEF PHASES
  <1>5. PHASES[4] = [name |-> "Host registration", patterns |-> {<<"POST", "register">>}]
    BY DEF PHASES
  <1>6. PHASES[5] = [name |-> "Facts update", patterns |-> {<<"PUT", "rhsm", "consumers", ":id">>}]
    BY DEF PHASES
  <1>7. \A what \in Segment : /\ <<"GET", "rhsm", "consumers", ":id", what>> \in Seq(Segment)
                             /\ Len(<<"GET", "rhsm", "consumers", ":id", what>>) = 5
                             /\ <<"GET", "rhsm", "consumers", ":id", what>>[1] = "GET"
    BY DEF Segment
  <1>8. PHASES[3].patterns =
          {<<"GET", "rhsm", "status">>, <<"GET", "rhsm">>}
            \cup {<<"GET", "rhsm", "consumers", ":id", what>> :
                    what \in {"certificates", "accessible_content", "content_overrides", "release"}}
    <2>0. SUFFICES ASSUME NEW patterns, patterns = {<<"GET", "rhsm", "status">>, <<"GET", "rhsm">>}
            \cup {<<"GET", "rhsm", "consumers", ":id", what>> :
                    what \in {"certificates", "accessible_content", "content_overrides", "release"}}
                 PROVE  PHASES[3].patterns = patterns
      OBVIOUS
    <2>1. PHASES[3] = [name |-> "Status / cert loop", patterns |-> patterns]
      BY <1>4, <2>0, Zenon
    <2> QED
      BY <2>1, PhaseFields, Zenon
  <1>9. \A p \in PHASES[3].patterns : p \in Seq(Segment) /\ Len(p) >= 2 /\ p[1] = "GET"
    <2> TAKE p \in PHASES[3].patterns
    <2>1. CASE p = <<"GET", "rhsm", "status">>
      <3>1. <<"GET", "rhsm", "status">> \in Seq(Segment) /\ Len(<<"GET", "rhsm", "status">>) >= 2
            /\ <<"GET", "rhsm", "status">>[1] = "GET"
        BY DEF Segment
      <3> QED
        BY <2>1, <3>1, Zenon
    <2>2. CASE p = <<"GET", "rhsm">>
      <3>1. <<"GET", "rhsm">> \in Seq(Segment) /\ Len(<<"GET", "rhsm">>) >= 2 /\ <<"GET", "rhsm">>[1] = "GET"
        BY DEF Segment
      <3> QED
        BY <2>2, <3>1, Zenon
    <2>3. CASE \E what \in {"certificates", "accessible_content", "content_overrides", "release"} :
                 p = <<"GET", "rhsm", "consumers", ":id", what>>
      <3>1. PICK what \in {"certificates", "accessible_content", "content_overrides", "release"} :
               p = <<"GET", "rhsm", "consumers", ":id", what>>
        BY <2>3
      <3>2. what \in Segment
        BY DEF Segment
      <3>3. /\ <<"GET", "rhsm", "consumers", ":id", what>> \in Seq(Segment)
            /\ Len(<<"GET", "rhsm", "consumers", ":id", what>>) = 5
            /\ <<"GET", "rhsm", "consumers", ":id", what>>[1] = "GET"
        BY <1>7, <3>2
      <3>4. Len(p) = 5 /\ p \in Seq(Segment) /\ p[1] = "GET"
        BY <3>1, <3>3, Zenon
      <3> QED
        BY <3>4
    <2> QED
      BY <1>8, <2>1, <2>2, <2>3, Zenon
  <1>10. <<"GET", "rhsm">> \in PHASES[3].patterns
    BY <1>8, Zenon
  <1>11. PHASES[3].name = "Status / cert loop"
    <2>1. PICK patterns : PHASES[3] = [name |-> "Status / cert loop", patterns |-> patterns]
      BY <1>4, Zenon
    <2> QED
      BY <2>1, PhaseFields, Zenon
  <1>12. /\ PHASES[1].name = "Script delivery" /\ PHASES[1].patterns = {<<"GET", "register">>}
         /\ PHASES[2].name = "Consumer creation" /\ PHASES[2].patterns = {<<"POST", "rhsm", "consumers">>}
         /\ PHASES[4].name = "Host registration" /\ PHASES[4].patterns = {<<"POST", "register">>}
         /\ PHASES[5].name = "Facts update" /\ PHASES[5].patterns = {<<"PUT", "rhsm", "consumers", ":id">>}
    <2>1. PHASES[1].name = "Script delivery" /\ PHASES[1].patterns = {<<"GET", "register">>}
      <3> SUFFICES ASSUME NEW patterns, patterns = {<<"GET", "register">>}
                   PROVE  PHASES[1].name = "Script delivery" /\ PHASES[1].patterns = patterns
        OBVIOUS
      <3>1. PHASES[1] = [name |-> "Script delivery", patterns |-> patterns]
        BY <1>2, Zenon
      <3> QED
        BY <3>1, PhaseFields, Zenon
    <2>2. PHASES[2].name = "Consumer creation" /\ PHASES[2].patterns = {<<"POST", "rhsm", "consumers">>}
      <3> SUFFICES ASSUME NEW patterns, patterns = {<<"POST", "rhsm", "consumers">>}
                   PROVE  PHASES[2].name = "Consumer creation" /\ PHASES[2].patterns = patterns
        OBVIOUS
      <3>1. PHASES[2] = [name |-> "Consumer creation", patterns |-> patterns]
        BY <1>3, Zenon
      <3> QED
        BY <3>1, PhaseFields, Zenon
    <2>3. PHASES[4].name = "Host registration" /\ PHASES[4].patterns = {<<"POST", "register">>}
      <3> SUFFICES ASSUME NEW patterns, patterns = {<<"POST", "register">>}
                   PROVE  PHASES[4].name = "Host registration" /\ PHASES[4].patterns = patterns
        OBVIOUS
      <3>1. PHASES[4] = [name |-> "Host registration", patterns |-> patterns]
        BY <1>5, Zenon
      <3> QED
        BY <3>1, PhaseFields, Zenon
    <2>4. PHASES[5].name = "Facts update" /\ PHASES[5].patterns = {<<"PUT", "rhsm", "consumers", ":id">>}
      <3> SUFFICES ASSUME NEW patterns, patterns = {<<"PUT", "rhsm", "consumers", ":id">>}
                   PROVE  PHASES[5].name = "Facts update" /\ PHASES[5].patterns = patterns
        OBVIOUS
      <3>1. PHASES[5] = [name |-> "Facts update", patterns |-> patterns]
        BY <1>6, Zenon
      <3> QED
        BY <3>1, PhaseFields, Zenon
    <2> QED
      BY <2>1, <2>2, <2>3, <2>4
  <1> QED
    BY <1>1, <1>9, <1>10, <1>11, <1>12, Zenon

\* What there is to know of a path.
Begins(path, length, one, two) ==
    path \in Seq(Segment) /\ Len(path) = length /\ path[1] = one /\ path[2] = two

LEMMA Paths ==
    /\ Begins(RequestOf("script"), 2, "GET", "register")
    /\ Begins(RequestOf("create"), 3, "POST", "rhsm") /\ RequestOf("create")[3] = "consumers"
    /\ Begins(RequestOf("compliance"), 5, "GET", "rhsm")
    /\ Begins(RequestOf("status"), 3, "GET", "rhsm")
    /\ Begins(RequestOf("facts"), 4, "PUT", "rhsm") /\ RequestOf("facts")[3] = "consumers"
    /\ RequestOf("facts")[4] = ":id"
    /\ Begins(RequestOf("register"), 2, "POST", "register")
    /\ Begins(<<"GET", "register">>, 2, "GET", "register")
    /\ Begins(<<"POST", "rhsm", "consumers">>, 3, "POST", "rhsm")
    /\ <<"POST", "rhsm", "consumers">>[3] = "consumers"
    /\ Begins(<<"GET", "rhsm">>, 2, "GET", "rhsm")
    /\ Begins(<<"POST", "register">>, 2, "POST", "register")
    /\ Begins(<<"PUT", "rhsm", "consumers", ":id">>, 4, "PUT", "rhsm")
    /\ <<"PUT", "rhsm", "consumers", ":id">>[3] = "consumers"
    /\ <<"PUT", "rhsm", "consumers", ":id">>[4] = ":id"
  <1>1. RequestOf("script") = <<"GET", "register">>
    BY DEF RequestOf
  <1>2. RequestOf("create") = <<"POST", "rhsm", "consumers">>
    BY DEF RequestOf
  <1>3. RequestOf("compliance") = <<"GET", "rhsm", "consumers", ":id", "compliance">>
    BY DEF RequestOf
  <1>4. RequestOf("status") = <<"GET", "rhsm", "status">>
    BY DEF RequestOf
  <1>5. RequestOf("facts") = <<"PUT", "rhsm", "consumers", ":id">>
    BY DEF RequestOf
  <1>6. RequestOf("register") = <<"POST", "register">>
    BY DEF RequestOf
  <1>7. Begins(<<"GET", "register">>, 2, "GET", "register")
    BY DEF Begins, Segment
  <1>8. Begins(<<"POST", "rhsm", "consumers">>, 3, "POST", "rhsm")
    BY DEF Begins, Segment
  <1>9. Begins(<<"GET", "rhsm">>, 2, "GET", "rhsm")
    BY DEF Begins, Segment
  <1>10. Begins(<<"POST", "register">>, 2, "POST", "register")
    BY DEF Begins, Segment
  <1>11. Begins(<<"PUT", "rhsm", "consumers", ":id">>, 4, "PUT", "rhsm")
    BY DEF Begins, Segment
  <1>12. Begins(<<"GET", "rhsm", "status">>, 3, "GET", "rhsm")
    BY DEF Begins, Segment
  <1>13. Begins(<<"GET", "rhsm", "consumers", ":id", "compliance">>, 5, "GET", "rhsm")
    BY DEF Begins, Segment
  <1>14. /\ <<"POST", "rhsm", "consumers">>[3] = "consumers"
         /\ <<"PUT", "rhsm", "consumers", ":id">>[3] = "consumers"
         /\ <<"PUT", "rhsm", "consumers", ":id">>[4] = ":id"
    OBVIOUS
  <1> QED
    BY <1>1, <1>2, <1>3, <1>4, <1>5, <1>6, <1>7, <1>8, <1>9, <1>10, <1>11, <1>12, <1>13, <1>14, Zenon

\* Paths that begin otherwise do not match, the same ones do.
LEMMA OtherPath ==
    ASSUME NEW r, NEW l, NEW a, NEW b, Begins(r, l, a, b),
           NEW p \in Seq(Segment), Len(p) >= 2, p[1] # a \/ p[2] # b
    PROVE  ~ Matches(r, p)
  <1>1. 1 \in 1 .. Len(p) /\ 2 \in 1 .. Len(p)
    OBVIOUS
  <1>2. r \in Seq(Segment) /\ r[1] = a /\ r[2] = b
    BY DEF Begins
  <1> QED
    BY <1>1, <1>2, MatchesIs

LEMMA TwoSegments ==
    ASSUME NEW r, NEW l \in Nat, l >= 2, NEW a, NEW b, Begins(r, l, a, b), NEW p, Begins(p, 2, a, b)
    PROVE  Matches(r, p)
  <1>1. r \in Seq(Segment) /\ p \in Seq(Segment) /\ Len(p) = 2 /\ Len(p) <= Len(r)
    BY DEF Begins
  <1>2. \A k \in 1 .. Len(p) : k = 1 \/ k = 2
    BY <1>1
  <1>3. \A k \in 1 .. Len(p) : p[k] = r[k]
    BY <1>2 DEF Begins
  <1> QED
    BY <1>1, <1>3, MatchesIs

LEMMA MatchesItself == ASSUME NEW r \in Seq(Segment) PROVE Matches(r, r)
  BY MatchesIs

\* A request is of phase i when it fits one of its patterns and none before.
LEMMA PhaseIs ==
    ASSUME NEW request, NEW i \in 1 .. 9, \E p \in PHASES[i].patterns : Matches(request, p),
           \A j \in 1 .. i - 1 : \A p \in PHASES[j].patterns : ~ Matches(request, p)
    PROVE  PhaseOf(request) = PHASES[i].name
  <1> DEFINE fits == {j \in DOMAIN PHASES : \E p \in PHASES[j].patterns : Matches(request, p)}
  <1>0. DOMAIN PHASES = 1 .. 9
    BY PhaseFacts
  <1>1. i \in fits
    BY <1>0
  <1>2. \A j \in fits : j \in 1 .. 9 /\ ~ (j \in 1 .. i - 1)
    BY <1>0, Zenon
  <1>3. PhaseOf(request) = PHASES[Min(fits)].name
    BY <1>1 DEF PhaseOf
  <1> HIDE DEF fits
  <1>4. fits \in SUBSET Nat
    BY <1>2
  <1>5. Min(fits) \in fits /\ Min(fits) <= i
    BY <1>1, <1>4, FirstPlace
  <1>6. Min(fits) = i
    BY <1>2, <1>5
  <1> QED
    BY <1>3, <1>6

LEMMA PhaseOfRequests ==
    /\ PhaseOf(RequestOf("script")) = "Script delivery"
    /\ PhaseOf(RequestOf("create")) = "Consumer creation"
    /\ PhaseOf(RequestOf("compliance")) = "Status / cert loop"
    /\ PhaseOf(RequestOf("status")) = "Status / cert loop"
    /\ PhaseOf(RequestOf("register")) = "Host registration"
    /\ PhaseOf(RequestOf("facts")) = "Facts update"
  <1> DEFINE script == RequestOf("script")
             create == RequestOf("create")
             compliance == RequestOf("compliance")
             status == RequestOf("status")
             register == RequestOf("register")
             facts == RequestOf("facts")
  <1>1. /\ Begins(script, 2, "GET", "register") /\ Begins(register, 2, "POST", "register")
        /\ Begins(create, 3, "POST", "rhsm") /\ Begins(facts, 4, "PUT", "rhsm")
        /\ Begins(compliance, 5, "GET", "rhsm") /\ Begins(status, 3, "GET", "rhsm")
    BY Paths
  <1>2. /\ PHASES[1].patterns = {script} /\ PHASES[2].patterns = {create}
        /\ PHASES[4].patterns = {register} /\ PHASES[5].patterns = {facts}
    BY PhaseFacts, Zenon DEF RequestOf
  <1>3. /\ PHASES[1].name = "Script delivery" /\ PHASES[2].name = "Consumer creation"
        /\ PHASES[3].name = "Status / cert loop"
        /\ PHASES[4].name = "Host registration" /\ PHASES[5].name = "Facts update"
    BY PhaseFacts
  <1>4. /\ <<"GET", "rhsm">> \in PHASES[3].patterns /\ Begins(<<"GET", "rhsm">>, 2, "GET", "rhsm")
        /\ \A p \in PHASES[3].patterns : p \in Seq(Segment) /\ Len(p) >= 2 /\ p[1] = "GET"
    BY PhaseFacts, Paths
  <1> HIDE DEF script, create, compliance, status, register, facts
  <1>5. /\ script \in Seq(Segment) /\ Len(script) >= 2 /\ script[1] = "GET" /\ script[2] = "register"
        /\ create \in Seq(Segment) /\ Len(create) >= 2 /\ create[1] = "POST" /\ create[2] = "rhsm"
        /\ register \in Seq(Segment) /\ Len(register) >= 2 /\ register[1] = "POST" /\ register[2] = "register"
        /\ facts \in Seq(Segment)
    BY <1>1 DEF Begins
  <1>6. PhaseOf(script) = "Script delivery"
    <2>1. Matches(script, script)
      BY <1>5, MatchesItself
    <2>2. PhaseOf(script) = PHASES[1].name
      BY <1>2, <2>1, PhaseIs
    <2> QED
      BY <1>3, <2>2
  <1>7. ASSUME NEW r, NEW l, NEW a, NEW b, Begins(r, l, a, b), a # "GET" \/ b # "register"
        PROVE  \A p \in PHASES[1].patterns : ~ Matches(r, p)
    BY <1>2, <1>5, <1>7, OtherPath
  <1>8. ASSUME NEW r, NEW l, NEW a, NEW b, Begins(r, l, a, b), a # "POST" \/ b # "rhsm"
        PROVE  \A p \in PHASES[2].patterns : ~ Matches(r, p)
    BY <1>2, <1>5, <1>8, OtherPath
  <1>9. ASSUME NEW r, NEW l, NEW a, NEW b, Begins(r, l, a, b), a # "GET"
        PROVE  \A p \in PHASES[3].patterns : ~ Matches(r, p)
    BY <1>4, <1>9, OtherPath
  <1>10. ASSUME NEW r, NEW l, NEW a, NEW b, Begins(r, l, a, b), a # "POST" \/ b # "register"
         PROVE  \A p \in PHASES[4].patterns : ~ Matches(r, p)
    BY <1>2, <1>5, <1>10, OtherPath
  <1>11. PhaseOf(create) = "Consumer creation"
    <2>1. Matches(create, create)
      BY <1>5, MatchesItself
    <2>2. \A p \in PHASES[1].patterns : ~ Matches(create, p)
      BY <1>1, <1>7
    <2>3. \A j \in 1 .. 2 - 1 : j = 1
      OBVIOUS
    <2>4. PhaseOf(create) = PHASES[2].name
      BY <1>2, <2>1, <2>2, <2>3, PhaseIs
    <2> QED
      BY <1>3, <2>4
  <1>12. ASSUME NEW r, NEW l \in Nat, l >= 2, Begins(r, l, "GET", "rhsm")
         PROVE  PhaseOf(r) = "Status / cert loop"
    <2>1. Matches(r, <<"GET", "rhsm">>)
      BY <1>4, <1>12, TwoSegments
    <2>2. \A p \in PHASES[1].patterns \cup PHASES[2].patterns : ~ Matches(r, p)
      BY <1>7, <1>8, <1>12
    <2>3. \A j \in 1 .. 3 - 1 : j = 1 \/ j = 2
      OBVIOUS
    <2>4. PhaseOf(r) = PHASES[3].name
      BY <1>4, <2>1, <2>2, <2>3, PhaseIs
    <2> QED
      BY <1>3, <2>4
  <1>13. PhaseOf(register) = "Host registration"
    <2>1. Matches(register, register)
      BY <1>5, MatchesItself
    <2>2. \A p \in PHASES[1].patterns \cup PHASES[2].patterns \cup PHASES[3].patterns : ~ Matches(register, p)
      BY <1>1, <1>7, <1>8, <1>9
    <2>3. \A j \in 1 .. 4 - 1 : j = 1 \/ j = 2 \/ j = 3
      OBVIOUS
    <2>4. PhaseOf(register) = PHASES[4].name
      BY <1>2, <2>1, <2>2, <2>3, PhaseIs
    <2> QED
      BY <1>3, <2>4
  <1>14. PhaseOf(facts) = "Facts update"
    <2>1. Matches(facts, facts)
      BY <1>5, MatchesItself
    <2>2. \A p \in PHASES[1].patterns \cup PHASES[2].patterns \cup PHASES[3].patterns \cup PHASES[4].patterns :
             ~ Matches(facts, p)
      BY <1>1, <1>7, <1>8, <1>9, <1>10
    <2>3. \A j \in 1 .. 5 - 1 : j = 1 \/ j = 2 \/ j = 3 \/ j = 4
      OBVIOUS
    <2>4. PhaseOf(facts) = PHASES[5].name
      BY <1>2, <2>1, <2>2, <2>3, PhaseIs
    <2> QED
      BY <1>3, <2>4
  <1>15. PhaseOf(compliance) = "Status / cert loop"
    <2>1. 5 \in Nat /\ 5 >= 2
      OBVIOUS
    <2> QED
      BY <1>1, <1>12, <2>1, Zenon
  <1>16. PhaseOf(status) = "Status / cert loop"
    <2>1. 3 \in Nat /\ 3 >= 2
      OBVIOUS
    <2> QED
      BY <1>1, <1>12, <2>1, Zenon
  <1> QED
    BY <1>6, <1>11, <1>13, <1>14, <1>15, <1>16 DEF script, create, compliance, status, register, facts

\* The phase of a request of the plan.
PhaseName(kind) ==
    CASE kind = "script" -> "Script delivery"
      [] kind = "create" -> "Consumer creation"
      [] kind = "register" -> "Host registration"
      [] kind = "facts" -> "Facts update"
      [] OTHER -> "Status / cert loop"

LEMMA CallFacts ==
    ASSUME LogInv, NEW i \in 1 .. Len(records)
    PROVE  /\ Call(i).id = i /\ Call(i).ts = records[i].ts /\ Call(i).reg = records[i].reg
           /\ PhaseOf(Call(i).request) = PhaseName(records[i].kind)
  <1>1. records[i].kind \in Kind
    BY LogFacts
  <1>2. /\ Call(i).id = i /\ Call(i).ts = records[i].ts /\ Call(i).reg = records[i].reg
        /\ Call(i).request = RequestOf(records[i].kind)
    BY DEF Call
  <1>3. \A kind \in Kind : PhaseOf(RequestOf(kind)) = PhaseName(kind)
    <2> TAKE kind \in Kind
    <2>1. CASE kind = "script"
      BY <2>1, PhaseOfRequests DEF PhaseName
    <2>2. CASE kind = "create"
      BY <2>2, PhaseOfRequests DEF PhaseName
    <2>3. CASE kind = "register"
      BY <2>3, PhaseOfRequests DEF PhaseName
    <2>4. CASE kind = "facts"
      BY <2>4, PhaseOfRequests DEF PhaseName
    <2>5. CASE kind = "compliance"
      BY <2>5, PhaseOfRequests DEF PhaseName
    <2>6. CASE kind = "status"
      BY <2>6, PhaseOfRequests DEF PhaseName
    <2> QED
      BY <2>1, <2>2, <2>3, <2>4, <2>5, <2>6 DEF Kind
  <1> QED
    BY <1>1, <1>2, <1>3

LEMMA EntryFacts ==
    ASSUME LogInv, NEW s \in Sessions
    PROVE  /\ IsFiniteSet(StatusEntry(s))
           /\ \A c, d \in StatusEntry(s) : c = d
           /\ \A c \in StatusEntry(s) :
                /\ c.id = 0 /\ c.ts = s.create.ts /\ c.reg = s.create.reg
                /\ PhaseOf(c.request) = "Status / cert loop"
  <1> DEFINE entry == [id |-> 0, request |-> RequestOf("status"), ts |-> s.create.ts, reg |-> s.create.reg]
  <1>1. StatusEntry(s) = {} \/ StatusEntry(s) = {entry}
    BY DEF StatusEntry
  <1>2. /\ entry.id = 0 /\ entry.ts = s.create.ts /\ entry.reg = s.create.reg
        /\ PhaseOf(entry.request) = "Status / cert loop"
    BY PhaseOfRequests
  <1> HIDE DEF entry
  <1>3. IsFiniteSet({entry}) /\ IsFiniteSet({})
    BY FS_Singleton, FS_EmptySet
  <1> QED
    BY <1>1, <1>2, <1>3

\* Calls are told apart by their places.
LEMMA CallsCount ==
    ASSUME LogInv, NEW places \in SUBSET (1 .. Len(records))
    PROVE  /\ IsFiniteSet({Call(i) : i \in places})
           /\ Cardinality({Call(i) : i \in places}) = Cardinality(places)
  <1> DEFINE calls == {Call(i) : i \in places}
             f == [i \in places |-> Call(i)]
  <1>1. IsFiniteSet(places)
    BY ListFacts
  <1>2. \A i \in places : Call(i).id = i
    BY CallFacts
  <1>3. f \in Bijection(places, calls)
    BY <1>2 DEF Bijection, Injection, Surjection, IsInjective
  <1>4. ExistsBijection(places, calls)
    BY <1>3 DEF ExistsBijection
  <1> QED
    BY <1>1, <1>3, <1>4, FS_Bijection

-----------------------------------------------------------------------------
\* Of a registration that nobody comes near the trace has the one script there is ...
LEMMA LoneScript ==
    ASSUME LogInv, NEW s \in Sessions, TraceAlone(s)
    PROVE  TraceScripts(s) = LoggedInReach(s, "script")
  <1> DEFINE upTo == BisectRight(Of("script"), s.create.ts)
             n == Len(records)
             reg == s.create.reg
             t == s.create.ts
  <1>1. /\ t \in Nat /\ LookBack \in Nat /\ LookAhead \in Nat /\ n \in Nat
        /\ s.place \in 1 .. n /\ s.create = records[s.place] /\ s.create.kind = "create"
    BY SessionFacts, PlanFacts, LogFacts
  <1>2. DOMAIN records = 1 .. n /\ \A i \in 1 .. n : records[i].ts \in Nat
    BY LogFacts
  <1>3. upTo = {i \in 1 .. n : records[i].kind = "script" /\ records[i].ts <= t}
    BY <1>2 DEF BisectRight, Of
  <1>4. TraceScripts(s) =
           {i \in upTo : records[i].ts = records[Max(upTo)].ts /\ records[i].ts >= t - LookBack}
    BY DEF TraceScripts
  <1>5. LoggedInReach(s, "script") =
           {i \in 1 .. n : /\ records[i].reg = reg /\ records[i].kind = "script"
                           /\ t - LookBack <= records[i].ts /\ records[i].ts <= t + LookAhead}
    BY <1>2 DEF LoggedInReach, RecordsOf, InReach
  <1>6. \A i \in 1 .. n : t - LookBack <= records[i].ts /\ records[i].ts <= t + LookAhead => records[i].reg = reg
    BY <1>2 DEF TraceAlone, InReach
  <1> HIDE DEF upTo, n, reg, t
  <1>7. ASSUME NEW i \in TraceScripts(s) PROVE i \in LoggedInReach(s, "script")
    <2>1. i \in 1 .. n /\ records[i].ts <= t /\ records[i].kind = "script" /\ records[i].ts >= t - LookBack
      BY <1>3, <1>4
    <2>2. t - LookBack <= records[i].ts /\ records[i].ts <= t + LookAhead
      BY <1>1, <1>2, <2>1
    <2> QED
      BY <1>5, <1>6, <2>1, <2>2
  <1>8. ASSUME NEW i \in LoggedInReach(s, "script") PROVE i \in TraceScripts(s)
    <2>1. i \in 1 .. n /\ records[i].reg = reg /\ records[i].kind = "script" /\ t - LookBack <= records[i].ts
      BY <1>5
    <2>2. i < s.place
      BY <1>1, <1>2, <2>1 DEF LogInv, ScriptThenCreate, reg
    <2>3. records[i].ts <= t
      <3>1. i <= s.place
        BY <1>1, <2>1, <2>2
      <3> QED
        BY <1>1, <2>1, <3>1, LogFacts DEF n, t
    <2>4. i \in upTo
      BY <1>3, <2>1, <2>3
    <2>5. upTo \in SUBSET (1 .. n)
      BY <1>3
    <2>6. Max(upTo) \in upTo /\ i <= Max(upTo)
      BY <1>1, <2>4, <2>5, LastPlace
    <2>7. Max(upTo) \in 1 .. n /\ records[Max(upTo)].kind = "script" /\ records[Max(upTo)].ts <= t
      BY <1>3, <2>6
    <2>8. records[i].ts <= records[Max(upTo)].ts
      BY <2>1, <2>6, <2>7, LogFacts DEF n
    <2>9. t - LookBack <= records[Max(upTo)].ts /\ records[Max(upTo)].ts <= t + LookAhead
      BY <1>1, <1>2, <2>1, <2>7, <2>8
    <2>10. records[Max(upTo)].reg = reg
      BY <1>6, <2>7, <2>9
    <2>11. Max(upTo) = i
      BY <1>2, <2>1, <2>7, <2>10 DEF LogInv, LoggedOnce
    <2>12. records[i].ts >= t - LookBack
      BY <1>1, <1>2, <2>1
    <2> QED
      BY <1>4, <2>4, <2>11, <2>12
  <1> QED
    BY <1>7, <1>8

\* ... and the one POST /register.
LEMMA LoneRegister ==
    ASSUME LogInv, NEW s \in Sessions, TraceAlone(s)
    PROVE  TraceRegisters(s) = LoggedInReach(s, "register")
  <1> DEFINE from == Of("register") \ BisectLeft(Of("register"), s.create.ts)
             n == Len(records)
             reg == s.create.reg
             t == s.create.ts
  <1>1. /\ t \in Nat /\ LookBack \in Nat /\ LookAhead \in Nat /\ n \in Nat
        /\ s.place \in 1 .. n /\ s.create = records[s.place] /\ s.create.kind = "create"
    BY SessionFacts, PlanFacts, LogFacts
  <1>2. DOMAIN records = 1 .. n /\ \A i \in 1 .. n : records[i].ts \in Nat
    BY LogFacts
  <1>3. from = {i \in 1 .. n : records[i].kind = "register" /\ t <= records[i].ts}
    <2>1. Of("register") = {i \in 1 .. n : records[i].kind = "register"}
      BY <1>2 DEF Of
    <2>2. from = {i \in Of("register") : ~ (records[i].ts < t)}
      BY DEF BisectLeft
    <2> HIDE DEF from
    <2> QED
      BY <1>1, <1>2, <2>1, <2>2
  <1>4. TraceRegisters(s) =
           {i \in from : records[i].ts = records[Min(from)].ts /\ records[i].ts <= t + LookAhead}
    BY DEF TraceRegisters
  <1>5. LoggedInReach(s, "register") =
           {i \in 1 .. n : /\ records[i].reg = reg /\ records[i].kind = "register"
                           /\ t - LookBack <= records[i].ts /\ records[i].ts <= t + LookAhead}
    BY <1>2 DEF LoggedInReach, RecordsOf, InReach
  <1>6. \A i \in 1 .. n : t - LookBack <= records[i].ts /\ records[i].ts <= t + LookAhead => records[i].reg = reg
    BY <1>2 DEF TraceAlone, InReach
  <1> HIDE DEF from, n, reg, t
  <1>7. ASSUME NEW i \in TraceRegisters(s) PROVE i \in LoggedInReach(s, "register")
    <2>1. i \in 1 .. n /\ t <= records[i].ts /\ records[i].kind = "register" /\ records[i].ts <= t + LookAhead
      BY <1>3, <1>4
    <2>2. t - LookBack <= records[i].ts
      BY <1>1, <1>2, <2>1
    <2> QED
      BY <1>5, <1>6, <2>1, <2>2
  <1>8. ASSUME NEW i \in LoggedInReach(s, "register") PROVE i \in TraceRegisters(s)
    <2>1. i \in 1 .. n /\ records[i].reg = reg /\ records[i].kind = "register" /\ records[i].ts <= t + LookAhead
      BY <1>5
    <2>2. ~ (i < s.place) /\ i # s.place
      BY <1>1, <1>2, <2>1 DEF LogInv, ScriptThenCreate, reg
    <2>3. t <= records[i].ts
      <3>1. s.place <= i
        BY <1>1, <2>1, <2>2
      <3> QED
        BY <1>1, <2>1, <3>1, LogFacts DEF n, t
    <2>4. i \in from
      BY <1>3, <2>1, <2>3
    <2>5. from \in SUBSET Nat
      BY <1>1, <1>3
    <2>6. Min(from) \in from /\ Min(from) <= i
      BY <2>4, <2>5, FirstPlace
    <2>7. Min(from) \in 1 .. n /\ records[Min(from)].kind = "register" /\ t <= records[Min(from)].ts
      BY <1>3, <2>6
    <2>8. records[Min(from)].ts <= records[i].ts
      BY <2>1, <2>6, <2>7, LogFacts DEF n
    <2>9. t - LookBack <= records[Min(from)].ts /\ records[Min(from)].ts <= t + LookAhead
      BY <1>1, <1>2, <2>1, <2>7, <2>8
    <2>10. records[Min(from)].reg = reg
      BY <1>6, <2>7, <2>9
    <2>11. Min(from) = i
      BY <1>2, <2>1, <2>7, <2>10 DEF LogInv, LoggedOnce
    <2> QED
      BY <1>4, <2>1, <2>4, <2>11
  <1> QED
    BY <1>7, <1>8

\* What is chosen of at most one is all there is.
LEMMA OneOfOne ==
    ASSUME NEW S, \A i, j \in S : i = j, NEW found \in OneOf(S)
    PROVE  found = S
  BY DEF OneOf

\* So the trace of such a registration has the calls of its requests in reach.
LEMMA LoneTraceIs ==
    ASSUME LogInv, NEW s \in Sessions, TraceAlone(s), s.create.uuid # Unknown, NEW trace \in Traces(s)
    PROVE  \E places \in SUBSET (1 .. Len(records)) :
              /\ trace = {Call(i) : i \in places} \cup StatusEntry(s)
              /\ \A i \in places : records[i].reg = s.create.reg
              /\ {i \in places : records[i].kind = "create"} = {s.place}
              /\ \A kind \in {"script", "register", "facts"} :
                    {i \in places : records[i].kind = kind} = LoggedInReach(s, kind)
  <1> DEFINE n == Len(records)
             reg == s.create.reg
  <1>1. PICK script \in OneOf(TraceScripts(s)), register \in OneOf(TraceRegisters(s)) :
           trace = {Call(i) : i \in TraceOwn(s) \cup {s.place} \cup script \cup register} \cup StatusEntry(s)
    <2>1. Traces(s) =
             {{Call(i) : i \in TraceOwn(s) \cup {s.place} \cup script \cup register} \cup StatusEntry(s) :
                 script \in OneOf(TraceScripts(s)), register \in OneOf(TraceRegisters(s))}
      BY DEF Traces
    <2> QED
      BY <2>1
  <1>2. \A kind \in {"script", "create", "register"} : \A i, j \in LoggedInReach(s, kind) : i = j
    BY DEF LoggedInReach, RecordsOf, LogInv, LoggedOnce
  <1>3. script = LoggedInReach(s, "script")
    <2>1. TraceScripts(s) = LoggedInReach(s, "script")
      BY LoneScript
    <2> QED
      BY <1>1, <1>2, <2>1, OneOfOne
  <1>4. register = LoggedInReach(s, "register")
    <2>1. TraceRegisters(s) = LoggedInReach(s, "register")
      BY LoneRegister
    <2> QED
      BY <1>1, <1>2, <2>1, OneOfOne
  <1>5. s.uuid = reg /\ s.place \in 1 .. n /\ s.create = records[s.place] /\ s.create.kind = "create"
    BY AuditedFromInv, SessionFacts DEF AuditedIsExact
  <1>6. DOMAIN records = 1 .. n
    BY LogFacts
  <1>7. TraceOwn(s) = {i \in 1 .. n : /\ records[i].kind \in {"compliance", "facts"}
                                      /\ records[i].reg = reg /\ InReach(s, records[i].ts)}
    BY <1>5, <1>6 DEF TraceOwn, Of
  <1>8. \A kind : LoggedInReach(s, kind) = {i \in 1 .. n : /\ records[i].reg = reg /\ records[i].kind = kind
                                                           /\ InReach(s, records[i].ts)}
    BY <1>6 DEF LoggedInReach, RecordsOf
  <1> DEFINE places == TraceOwn(s) \cup {s.place} \cup script \cup register
  <1>9. places \in SUBSET (1 .. n) /\ \A i \in places : records[i].reg = reg
    BY <1>3, <1>4, <1>5, <1>7, <1>8
  <1>10. {i \in places : records[i].kind = "create"} = {s.place}
    BY <1>3, <1>4, <1>5, <1>7, <1>8
  <1>11. \A kind \in {"script", "register", "facts"} :
            {i \in places : records[i].kind = kind} = LoggedInReach(s, kind)
    <2>1. {i \in places : records[i].kind = "script"} = LoggedInReach(s, "script")
      BY <1>3, <1>4, <1>5, <1>7, <1>8
    <2>2. {i \in places : records[i].kind = "register"} = LoggedInReach(s, "register")
      BY <1>3, <1>4, <1>5, <1>7, <1>8
    <2>3. {i \in places : records[i].kind = "facts"} = LoggedInReach(s, "facts")
      BY <1>3, <1>4, <1>5, <1>7, <1>8
    <2> QED
      BY <2>1, <2>2, <2>3
  <1>12. trace = {Call(i) : i \in places} \cup StatusEntry(s)
    BY <1>1
  <1> HIDE DEF places
  <1> QED
    BY <1>9, <1>10, <1>11, <1>12 DEF n, reg

-----------------------------------------------------------------------------
\* The calls of a trace are put in order by time, step and place.
LEMMA CallsOrdered ==
    ASSUME LogInv, NEW s \in Sessions, NEW places \in SUBSET (1 .. Len(records)), NEW trace,
           trace = {Call(i) : i \in places} \cup StatusEntry(s)
    PROVE  /\ IsFiniteSet(trace) /\ IsOrder(trace, CallOrder(trace))
           /\ \A c \in trace : c.ts \in Nat
  <1>1. \A c \in trace : (\E i \in places : c = Call(i)) \/ c \in StatusEntry(s)
    OBVIOUS
  <1>2. Len(records) \in Nat /\ s.create.ts \in Nat /\ \A i \in places : records[i].ts \in Nat
    BY LogFacts, SessionFacts
  <1>3. \A i \in places : Call(i).id = i /\ Call(i).ts = records[i].ts
    BY CallFacts
  <1>31. \A c \in StatusEntry(s) : c.id = 0 /\ c.ts = s.create.ts
    BY EntryFacts
  <1>4. \A c \in trace : c.id \in Nat /\ c.ts \in Nat
    <2> TAKE c \in trace
    <2>1. CASE c \in StatusEntry(s)
      BY <1>2, <1>31, <2>1
    <2>2. CASE \E i \in places : c = Call(i)
      BY <1>2, <1>3, <2>2
    <2> QED
      BY <1>1, <2>1, <2>2
  <1>5. \A c, d \in trace : c.id = d.id => c = d
    <2> SUFFICES ASSUME NEW c \in trace, NEW d \in trace, c.id = d.id PROVE c = d
      OBVIOUS
    <2>1. \A i \in places : i # 0
      BY <1>2
    <2>2. CASE c \in StatusEntry(s) /\ d \in StatusEntry(s)
      BY <2>2, EntryFacts
    <2>3. CASE c \in StatusEntry(s) /\ d \notin StatusEntry(s)
      BY <1>1, <1>3, <1>31, <2>1, <2>3
    <2>4. CASE c \notin StatusEntry(s) /\ d \in StatusEntry(s)
      BY <1>1, <1>3, <1>31, <2>1, <2>4
    <2>5. CASE c \notin StatusEntry(s) /\ d \notin StatusEntry(s)
      BY <1>1, <1>3, <2>5
    <2> QED
      BY <2>2, <2>3, <2>4, <2>5
  <1>6. \A c \in trace : StepOf(c) \in Nat
    BY DEF StepOf
  <1>7. \A c, d : <<c, d>> \in CallOrder(trace) <=> c \in trace /\ d \in trace /\ CallBefore(c, d)
    BY DEF CallOrder
  <1>8. \A c \in trace : ~ CallBefore(c, c)
    BY <1>4, <1>6 DEF CallBefore
  <1>9. \A c, d, e \in trace : CallBefore(c, d) /\ CallBefore(d, e) => CallBefore(c, e)
    BY <1>4, <1>6 DEF CallBefore
  <1>10. \A c, d \in trace : c = d \/ CallBefore(c, d) \/ CallBefore(d, c)
    BY <1>4, <1>5, <1>6 DEF CallBefore
  <1>11. IsOrder(trace, CallOrder(trace))
    BY <1>7, <1>8, <1>9, <1>10, Zenon DEF IsOrder
  <1>12. IsFiniteSet({Call(i) : i \in places}) /\ IsFiniteSet(StatusEntry(s))
    BY CallsCount, EntryFacts
  <1>13. IsFiniteSet(trace)
    BY <1>12, FS_Union
  <1> QED
    BY <1>4, <1>11, <1>13

\* The arrows of the diagram are those of the calls, in their order.
LEMMA ArrowsInOrder ==
    ASSUME NEW trace, IsFiniteSet(trace), IsOrder(trace, CallOrder(trace)), NEW direct
    PROVE  /\ DOMAIN Diagram(trace, direct) = 1 .. Cardinality(trace)
           /\ \A c, d \in trace : c.ts < d.ts =>
                 \E j, k \in 1 .. Cardinality(trace) :
                    /\ j < k
                    /\ Diagram(trace, direct)[j] = Arrow(c, direct)
                    /\ Diagram(trace, direct)[k] = Arrow(d, direct)
  <1> DEFINE n == Cardinality(trace)
             sorted == Sorted(trace, CallOrder(trace))
  <1>1. /\ sorted \in [1 .. n -> trace]
        /\ \A c \in trace : \E k \in 1 .. n : sorted[k] = c
        /\ \A j, k \in 1 .. n : j < k <=> <<sorted[j], sorted[k]>> \in CallOrder(trace)
    BY SortedFacts
  <1>2. Diagram(trace, direct) = [i \in DOMAIN sorted |-> Arrow(sorted[i], direct)]
    BY DEF Diagram
  <1> HIDE DEF sorted, n
  <1>3. Diagram(trace, direct) = [i \in 1 .. n |-> Arrow(sorted[i], direct)]
    BY <1>1, <1>2
  <1>4. ASSUME NEW c \in trace, NEW d \in trace, c.ts < d.ts
        PROVE  \E j, k \in 1 .. n : j < k /\ Diagram(trace, direct)[j] = Arrow(c, direct)
                                          /\ Diagram(trace, direct)[k] = Arrow(d, direct)
    <2>1. <<c, d>> \in CallOrder(trace)
      BY <1>4 DEF CallOrder, CallBefore
    <2>2. PICK j \in 1 .. n : sorted[j] = c
      BY <1>1
    <2>3. PICK k \in 1 .. n : sorted[k] = d
      BY <1>1
    <2>4. j < k
      BY <1>1, <2>1, <2>2, <2>3
    <2> QED
      BY <1>3, <2>2, <2>3, <2>4
  <1> QED
    BY <1>3, <1>4 DEF n

LEMMA LoneFromInv == LogInv => LoneTraceIsWhole
  <1> SUFFICES ASSUME LogInv, NEW s \in Sessions, TraceAlone(s), s.create.uuid # Unknown, NEW trace \in Traces(s)
               PROVE  /\ \A c \in trace : c.reg = s.create.reg
                      /\ Cardinality(CallsIn(trace, "Script delivery")) = Cardinality(LoggedInReach(s, "script"))
                      /\ Cardinality(CallsIn(trace, "Consumer creation")) = 1
                      /\ Cardinality(CallsIn(trace, "Host registration")) = Cardinality(LoggedInReach(s, "register"))
                      /\ Cardinality(CallsIn(trace, "Facts update")) = Cardinality(LoggedInReach(s, "facts"))
                      /\ Cardinality(CallsIn(trace, "Other")) = 0
                      /\ DOMAIN Diagram(trace, TRUE) = 1 .. Cardinality(trace)
                      /\ \A c, d \in trace :
                           c.ts < d.ts =>
                              \E j, k \in 1 .. Cardinality(trace) :
                                  /\ j < k
                                  /\ Diagram(trace, TRUE)[j] = Arrow(c, TRUE)
                                  /\ Diagram(trace, TRUE)[k] = Arrow(d, TRUE)
    BY Zenon DEF LoneTraceIsWhole
  <1>1. PICK places \in SUBSET (1 .. Len(records)) :
              /\ trace = {Call(i) : i \in places} \cup StatusEntry(s)
              /\ \A i \in places : records[i].reg = s.create.reg
              /\ {i \in places : records[i].kind = "create"} = {s.place}
              /\ \A kind \in {"script", "register", "facts"} :
                    {i \in places : records[i].kind = kind} = LoggedInReach(s, kind)
    BY LoneTraceIs
  <1>2. \A i \in places : /\ records[i].kind \in Kind /\ Call(i).reg = records[i].reg
                          /\ PhaseOf(Call(i).request) = PhaseName(records[i].kind)
    BY CallFacts, LogFacts
  <1>3. \A c \in trace : c.reg = s.create.reg
    BY <1>1, <1>2, EntryFacts
  \* The calls of a phase are those of its kind of request.
  <1>4. ASSUME NEW kind \in {"script", "create", "register", "facts"}
        PROVE  Cardinality(CallsIn(trace, PhaseName(kind))) = Cardinality({i \in places : records[i].kind = kind})
    <2> DEFINE own == {i \in places : records[i].kind = kind}
    <2>1. PhaseName(kind) # "Status / cert loop" /\ \A k \in Kind : PhaseName(k) = PhaseName(kind) => k = kind
      BY DEF PhaseName, Kind
    <2>2. \A c \in StatusEntry(s) : PhaseOf(c.request) # PhaseName(kind)
      BY <2>1, EntryFacts
    <2>3. \A i \in places : PhaseOf(Call(i).request) = PhaseName(kind) <=> i \in own
      BY <1>2, <2>1
    <2> HIDE DEF own
    <2>4. own \subseteq places
      BY DEF own
    <2>5. CallsIn(trace, PhaseName(kind)) = {Call(i) : i \in own}
      BY <1>1, <2>2, <2>3, <2>4 DEF CallsIn
    <2>6. Cardinality({Call(i) : i \in own}) = Cardinality(own)
      BY <2>4, CallsCount
    <2> QED
      BY <2>5, <2>6 DEF own
  <1>5. Cardinality(CallsIn(trace, "Consumer creation")) = 1
    <2>1. Cardinality({s.place}) = 1
      BY FS_Singleton
    <2>2. PhaseName("create") = "Consumer creation"
      BY DEF PhaseName
    <2>3. Cardinality(CallsIn(trace, PhaseName("create"))) = Cardinality({i \in places : records[i].kind = "create"})
      BY <1>4
    <2> QED
      BY <1>1, <2>1, <2>2, <2>3
  <1>6. /\ PhaseName("script") = "Script delivery" /\ PhaseName("register") = "Host registration"
        /\ PhaseName("facts") = "Facts update"
    BY DEF PhaseName
  <1>7. \A kind \in {"script", "register", "facts"} :
           Cardinality(CallsIn(trace, PhaseName(kind))) = Cardinality(LoggedInReach(s, kind))
    BY <1>1, <1>4
  <1>8. /\ Cardinality(CallsIn(trace, "Script delivery")) = Cardinality(LoggedInReach(s, "script"))
        /\ Cardinality(CallsIn(trace, "Host registration")) = Cardinality(LoggedInReach(s, "register"))
        /\ Cardinality(CallsIn(trace, "Facts update")) = Cardinality(LoggedInReach(s, "facts"))
    BY <1>6, <1>7
  <1>9. Cardinality(CallsIn(trace, "Other")) = 0
    <2>1. \A kind \in Kind : PhaseName(kind) # "Other"
      BY DEF PhaseName, Kind
    <2>2. \A c \in trace : PhaseOf(c.request) # "Other"
      <3>1. \A i \in places : PhaseOf(Call(i).request) # "Other"
        BY <1>2, <2>1
      <3>2. \A c \in StatusEntry(s) : PhaseOf(c.request) = "Status / cert loop"
        BY EntryFacts
      <3> QED
        BY <1>1, <3>1, <3>2
    <2>3. CallsIn(trace, "Other") = {}
      BY <2>2 DEF CallsIn
    <2>4. Cardinality({}) = 0
      BY FS_EmptySet
    <2> QED
      BY <2>3, <2>4
  <1>10. IsFiniteSet(trace) /\ IsOrder(trace, CallOrder(trace))
    BY <1>1, CallsOrdered
  <1>11. /\ DOMAIN Diagram(trace, TRUE) = 1 .. Cardinality(trace)
         /\ \A c, d \in trace : c.ts < d.ts =>
              \E j, k \in 1 .. Cardinality(trace) :
                 /\ j < k
                 /\ Diagram(trace, TRUE)[j] = Arrow(c, TRUE)
                 /\ Diagram(trace, TRUE)[k] = Arrow(d, TRUE)
    BY <1>10, ArrowsInOrder
  <1> QED
    BY <1>3, <1>5, <1>8, <1>9, <1>11

\* The trace of a registration with an audit line that nobody comes near is
\* whole, each of its calls is in its phase, and the diagram shows every call in
\* its turn.
THEOREM LogLoneTraceIsWhole == LogSpec => []LoneTraceIsWhole
  <1>1. LogInv => LoneTraceIsWhole
    BY LoneFromInv
  <1> QED
    BY <1>1, LogInvariant, PTL

-----------------------------------------------------------------------------
(***************************************************************************)
(* The cache of what was read.                                             *)
(***************************************************************************)
Stage ==
    {"idle", "sessions", "records", "lines", "write_raw", "write_records",
     "build", "write_sessions", "return"}
Pickle == [state : {"absent", "torn", "whole"}, version : Nat, from : Int,
           routed : BOOLEAN, stats : Int]
CacheCall == [inventory : BOOLEAN, load : BOOLEAN, records : Int, sessions : Int,
         routed : BOOLEAN, stats : Int]

CacheTypeOK ==
    /\ version \in [File -> Nat]
    /\ raw \in Int /\ raw >= NoLog /\ raw <= Whole
    /\ pickle \in [File -> Pickle]
    /\ step \in Stage
    /\ job \in CacheCall
    /\ result \subseteq CacheCall
    /\ history \in [cut : BOOLEAN, removed : BOOLEAN, inventories : SUBSET BOOLEAN,
                    loaded : BOOLEAN]

\* What a call has read by the step it is at.
ReadByStep ==
    /\ step \in {"sessions", "records", "lines", "write_raw"} => job.records = NoLog
    /\ step = "sessions" => job.sessions = NoLog /\ job.stats = NoLog
    /\ step \in {"write_records", "build", "write_sessions"} => job.records # NoLog
    /\ step = "write_sessions" => job.sessions = job.records
    /\ step = "return" /\ job.load => job.records # NoLog
    /\ \A r \in result : r.load => r.records # NoLog
    /\ \A f \in File : pickle[f].state = "whole" => pickle[f].from # NoLog

\* Sessions are routed as some call asked for it.
RoutedAsAsked ==
    /\ pickle["sessions"].state = "whole" => pickle["sessions"].routed \in history.inventories
    /\ step # "idle" => job.inventory \in history.inventories
    /\ job.sessions # NoLog => job.routed \in history.inventories
    /\ \A r \in result : r.inventory \in history.inventories /\ r.routed \in history.inventories
    /\ step = "return" => job.sessions # NoLog

\* Everything that is kept, under way or returned is of the log of this length.
AllFrom(length) ==
    /\ \A f \in File : pickle[f].state = "whole" => pickle[f].from = length
    /\ pickle["sessions"].state = "whole" => pickle["sessions"].stats \in {length, NoLog}
    /\ job.records \in {length, NoLog}
    /\ job.sessions \in {length, NoLog}
    /\ job.stats \in {length, NoLog}
    /\ \A r \in result :
         r.sessions = length /\ r.records \in {length, NoLog} /\ r.stats \in {length, NoLog}

WholeUnlessCut ==
    ~history.cut =>
        /\ AllFrom(Whole)
        /\ step # "write_raw" => raw \in {NoLog, Whole}

\* The log is not there, or still being written.
NoLogYet == raw <= 0 \/ step = "write_raw"

\* Until the log is there nothing is kept of it; from then on it is never
\* written again, and statistics are read from it.
OnceUnlessRemoved ==
    ~history.removed =>
        /\ NoLogYet =>
             /\ \A f \in File : pickle[f].state # "whole"
             /\ job.records = NoLog /\ job.sessions = NoLog /\ job.stats = NoLog
             /\ result = {} /\ ~history.loaded
        /\ ~NoLogYet => AllFrom(raw)
        /\ pickle["sessions"].state = "whole" => pickle["sessions"].stats # NoLog
        /\ step \in {"write_records", "build", "write_sessions", "return"} => job.stats # NoLog
        /\ \A r \in result : r.stats # NoLog

CacheInv == CacheTypeOK /\ ReadByStep /\ RoutedAsAsked /\ WholeUnlessCut /\ OnceUnlessRemoved

-----------------------------------------------------------------------------
(***************************************************************************)
(* Step by step; first what a step leaves in the call and in the files.    *)
(***************************************************************************)
LEMMA CacheFacts ==
    ASSUME CacheInv
    PROVE  /\ CacheTypeOK /\ ReadByStep /\ RoutedAsAsked /\ WholeUnlessCut /\ OnceUnlessRemoved
           /\ raw \in Int /\ raw <= Whole /\ raw >= NoLog
           /\ Whole \in Int /\ Whole > 0
           /\ NoLog \in Int /\ NoLog < 0
           /\ job \in CacheCall /\ job.records \in Int /\ job.sessions \in Int /\ job.stats \in Int
           /\ \A f \in File : pickle[f] \in Pickle /\ pickle[f].from \in Int
           /\ version["records"] \in Nat /\ version["sessions"] \in Nat
  BY RunCacheAssumption DEF CacheInv, CacheTypeOK, NoLog, CacheCall, Pickle, File

LEMMA PickleFacts == NoPickle \in Pickle /\ Torn \in Pickle /\ Torn.state = "torn"
  <1>1. NoPickle \in Pickle
    BY DEF NoPickle, NoLog, Pickle
  <1> QED
    BY <1>1 DEF Torn, Pickle

LEMMA ReadSessionsStep == ASSUME CacheInv, ReadSessions PROVE CacheInv'
  <1>1. /\ raw' = raw /\ pickle' = pickle /\ result' = result /\ history' = history
        /\ version' = version /\ step = "sessions" /\ job' \in CacheCall
        /\ job'.inventory = job.inventory /\ job'.load = job.load /\ job'.records = job.records
        /\ \/ /\ pickle["sessions"].state = "whole"
              /\ job'.sessions = pickle["sessions"].from
              /\ job'.routed = pickle["sessions"].routed
              /\ job'.stats = pickle["sessions"].stats
              /\ step' = IF job.load THEN "records" ELSE "return"
           \/ job' = job /\ step' = "records"
    <2>1. job \in CacheCall /\ pickle["sessions"] \in Pickle
      BY CacheFacts DEF CacheTypeOK, File
    <2> QED
      BY CacheFacts, <2>1 DEF ReadSessions, Hit, CacheCall, Pickle
  <1>2. CacheTypeOK'
    BY CacheFacts, <1>1 DEF NoLog, CacheTypeOK, Stage
  <1>3. ReadByStep'
    BY CacheFacts, <1>1 DEF NoLog, CacheTypeOK, ReadByStep, File
  <1>4. RoutedAsAsked'
    BY CacheFacts, <1>1 DEF NoLog, CacheTypeOK, ReadByStep, RoutedAsAsked, File
  <1>5. WholeUnlessCut'
    BY CacheFacts, <1>1 DEF NoLog, CacheTypeOK, ReadByStep, RoutedAsAsked, WholeUnlessCut, AllFrom, File
  <1>6. OnceUnlessRemoved'
    BY CacheFacts, <1>1 DEF NoLog, CacheTypeOK, ReadByStep, RoutedAsAsked, OnceUnlessRemoved, NoLogYet, AllFrom, File
  <1> QED
    BY <1>2, <1>3, <1>4, <1>5, <1>6 DEF CacheInv

LEMMA ReadRecordsStep == ASSUME CacheInv, ReadRecords PROVE CacheInv'
  <1>1. /\ raw' = raw /\ pickle' = pickle /\ result' = result /\ history' = history
        /\ version' = version /\ step = "records" /\ job' \in CacheCall
        /\ job'.inventory = job.inventory /\ job'.load = job.load
        /\ job'.sessions = job.sessions /\ job'.routed = job.routed
        /\ \/ /\ pickle["records"].state = "whole"
              /\ job'.records = pickle["records"].from
              /\ job'.stats = IF job.stats = NoLog /\ raw > 0 THEN raw ELSE job.stats
              /\ step' = "build"
           \/ job' = job /\ step' = "lines"
    <2>1. job \in CacheCall /\ pickle["records"] \in Pickle /\ raw \in Int
      BY CacheFacts DEF CacheTypeOK, File
    <2> QED
      BY CacheFacts, <2>1 DEF ReadRecords, Hit, StatsOnRecordsHit, LinesCached, CacheCall, Pickle
  <1>2. CacheTypeOK'
    BY CacheFacts, <1>1 DEF NoLog, CacheTypeOK, Stage
  <1>3. ReadByStep'
    BY CacheFacts, <1>1 DEF NoLog, CacheTypeOK, ReadByStep, File
  <1>4. RoutedAsAsked'
    BY CacheFacts, <1>1 DEF NoLog, CacheTypeOK, ReadByStep, RoutedAsAsked
  <1>5. WholeUnlessCut'
    BY CacheFacts, <1>1 DEF NoLog, CacheTypeOK, ReadByStep, RoutedAsAsked, WholeUnlessCut, AllFrom, File
  <1>6. OnceUnlessRemoved'
    BY CacheFacts, <1>1 DEF NoLog, CacheTypeOK, ReadByStep, RoutedAsAsked, OnceUnlessRemoved, NoLogYet, AllFrom, File
  <1> QED
    BY <1>2, <1>3, <1>4, <1>5, <1>6 DEF CacheInv

LEMMA ParsedFacts ==
    ASSUME CacheTypeOK, NEW length \in Int, Parsed(length)
    PROVE  /\ job' \in CacheCall /\ job'.inventory = job.inventory /\ job'.load = job.load
           /\ job'.sessions = job.sessions /\ job'.routed = job.routed
           /\ job'.records = length
           /\ job'.stats = IF job.stats = NoLog THEN length ELSE job.stats
           /\ pickle' \in [File -> Pickle] /\ pickle'["records"].state = "torn"
           /\ pickle'["sessions"] = pickle["sessions"]
           /\ step' = "write_records"
  <1>1. job \in CacheCall /\ pickle \in [File -> Pickle]
    BY DEF CacheTypeOK
  <1>2. Torn \in Pickle /\ Torn.state = "torn"
    BY PickleFacts
  <1>3. pickle' = [pickle EXCEPT !["records"] = Torn] /\ step' = "write_records"
    BY DEF Parsed
  <1>4. job' = [job EXCEPT !.records = length,
                           !.stats = IF job.stats = NoLog THEN length ELSE job.stats]
    BY DEF Parsed
  <1>5. pickle' \in [File -> Pickle] /\ pickle'["records"] = Torn
        /\ pickle'["sessions"] = pickle["sessions"]
    BY <1>1, <1>2, <1>3 DEF File
  <1>6. /\ job' \in CacheCall /\ job'.inventory = job.inventory /\ job'.load = job.load
        /\ job'.sessions = job.sessions /\ job'.routed = job.routed
        /\ job'.records = length
        /\ job'.stats = IF job.stats = NoLog THEN length ELSE job.stats
    BY <1>1, <1>4 DEF CacheCall
  <1> QED
    BY <1>2, <1>3, <1>5, <1>6

LEMMA ReadLinesStep == ASSUME CacheInv, ReadLines PROVE CacheInv'
  <1>1. /\ raw > 0 /\ raw' = raw /\ result' = result /\ history' = history
        /\ version' = version /\ step = "lines"
        /\ job' \in CacheCall /\ job'.inventory = job.inventory /\ job'.load = job.load
        /\ job'.sessions = job.sessions /\ job'.routed = job.routed
        /\ job'.records = raw
        /\ job'.stats = IF job.stats = NoLog THEN raw ELSE job.stats
        /\ pickle' \in [File -> Pickle] /\ pickle'["records"].state = "torn"
        /\ pickle'["sessions"] = pickle["sessions"] /\ step' = "write_records"
    <2>1. raw \in Int /\ raw > 0 /\ Parsed(raw)
      BY CacheFacts DEF ReadLines, LinesCached, CacheTypeOK
    <2> QED
      BY CacheFacts, <2>1, ParsedFacts DEF ReadLines
  <1>2. CacheTypeOK'
    BY CacheFacts, <1>1 DEF NoLog, CacheTypeOK, Stage
  <1>3. ReadByStep'
    BY CacheFacts, <1>1 DEF NoLog, CacheTypeOK, ReadByStep, File
  <1>4. RoutedAsAsked'
    BY CacheFacts, <1>1 DEF NoLog, CacheTypeOK, ReadByStep, RoutedAsAsked
  <1>5. WholeUnlessCut'
    BY CacheFacts, <1>1 DEF NoLog, CacheTypeOK, ReadByStep, RoutedAsAsked, WholeUnlessCut, AllFrom, File
  <1>6. OnceUnlessRemoved'
    BY CacheFacts, <1>1 DEF NoLog, CacheTypeOK, ReadByStep, RoutedAsAsked, OnceUnlessRemoved, NoLogYet, AllFrom, File
  <1> QED
    BY <1>2, <1>3, <1>4, <1>5, <1>6 DEF CacheInv

LEMMA DownloadStep == ASSUME CacheInv, Download PROVE CacheInv'
  <1>1. /\ ~(raw > 0) /\ raw' = 0 /\ result' = result /\ history' = history
        /\ version' = version /\ pickle' = pickle /\ job' = job
        /\ step = "lines" /\ step' = "write_raw"
    BY CacheFacts DEF Download, LinesCached
  <1>2. CacheTypeOK'
    BY CacheFacts, <1>1 DEF NoLog, CacheTypeOK, Stage
  <1>3. ReadByStep'
    BY CacheFacts, <1>1 DEF NoLog, CacheTypeOK, ReadByStep, File
  <1>4. RoutedAsAsked'
    BY CacheFacts, <1>1 DEF NoLog, CacheTypeOK, ReadByStep, RoutedAsAsked
  <1>5. WholeUnlessCut'
    BY CacheFacts, <1>1 DEF NoLog, CacheTypeOK, ReadByStep, RoutedAsAsked, WholeUnlessCut, AllFrom, File
  <1>6. OnceUnlessRemoved'
    BY CacheFacts, <1>1 DEF NoLog, CacheTypeOK, ReadByStep, RoutedAsAsked, OnceUnlessRemoved, NoLogYet, AllFrom, File
  <1> QED
    BY <1>2, <1>3, <1>4, <1>5, <1>6 DEF CacheInv

LEMMA WriteRawStep == ASSUME CacheInv, WriteRaw PROVE CacheInv'
  <1>1. /\ result' = result /\ history' = history /\ version' = version /\ step = "write_raw"
        /\ \/ raw < Whole /\ raw' = raw + 1 /\ pickle' = pickle /\ job' = job /\ step' = step
           \/ /\ raw = Whole /\ raw' = raw
              /\ job' \in CacheCall /\ job'.inventory = job.inventory /\ job'.load = job.load
              /\ job'.sessions = job.sessions /\ job'.routed = job.routed
              /\ job'.records = Whole
              /\ job'.stats = IF job.stats = NoLog THEN Whole ELSE job.stats
              /\ pickle' \in [File -> Pickle] /\ pickle'["records"].state = "torn"
              /\ pickle'["sessions"] = pickle["sessions"] /\ step' = "write_records"
    <2>1. CASE raw < Whole
      BY CacheFacts, <2>1 DEF WriteRaw
    <2>2. CASE ~(raw < Whole)
      <3>1. raw = Whole /\ Parsed(Whole) /\ Whole \in Int
        BY <2>2, CacheFacts DEF WriteRaw
      <3> QED
        BY CacheFacts, <3>1, ParsedFacts DEF WriteRaw
    <2> QED
      BY CacheFacts, <2>1, <2>2
  <1>2. CacheTypeOK'
    BY CacheFacts, <1>1 DEF NoLog, CacheTypeOK, Stage
  <1>3. ReadByStep'
    BY CacheFacts, <1>1 DEF NoLog, CacheTypeOK, ReadByStep, File
  <1>4. RoutedAsAsked'
    BY CacheFacts, <1>1 DEF NoLog, CacheTypeOK, ReadByStep, RoutedAsAsked
  <1>5. WholeUnlessCut'
    BY CacheFacts, <1>1 DEF NoLog, CacheTypeOK, ReadByStep, RoutedAsAsked, WholeUnlessCut, AllFrom, File
  <1>6. OnceUnlessRemoved'
    BY CacheFacts, <1>1 DEF NoLog, CacheTypeOK, ReadByStep, RoutedAsAsked, OnceUnlessRemoved, NoLogYet, AllFrom, File
  <1> QED
    BY <1>2, <1>3, <1>4, <1>5, <1>6 DEF CacheInv

LEMMA WriteRecordsStep == ASSUME CacheInv, WriteRecords PROVE CacheInv'
  <1>1. /\ result' = result /\ history' = history /\ version' = version /\ raw' = raw
        /\ job' = job /\ step = "write_records" /\ step' = "build"
        /\ pickle' \in [File -> Pickle] /\ pickle'["sessions"] = pickle["sessions"]
        /\ pickle'["records"].from = job.records
    <2> DEFINE new == [NoPickle EXCEPT !.state = "whole", !.version = version["records"],
                                       !.from = job.records]
    <2>1. new \in Pickle /\ new.from = job.records
      BY CacheFacts, PickleFacts DEF Pickle
    <2>2. pickle' = [pickle EXCEPT !["records"] = new]
      BY CacheFacts DEF WriteRecords
    <2> HIDE DEF new
    <2> QED
      BY CacheFacts, <2>1, <2>2 DEF WriteRecords, CacheTypeOK, File
  <1>2. CacheTypeOK'
    BY CacheFacts, <1>1 DEF NoLog, CacheTypeOK, Stage
  <1>3. ReadByStep'
    BY CacheFacts, <1>1 DEF NoLog, CacheTypeOK, ReadByStep, File
  <1>4. RoutedAsAsked'
    BY CacheFacts, <1>1 DEF NoLog, CacheTypeOK, ReadByStep, RoutedAsAsked
  <1>5. WholeUnlessCut'
    BY CacheFacts, <1>1 DEF NoLog, CacheTypeOK, ReadByStep, RoutedAsAsked, WholeUnlessCut, AllFrom, File
  <1>6. OnceUnlessRemoved'
    BY CacheFacts, <1>1 DEF NoLog, CacheTypeOK, ReadByStep, RoutedAsAsked, OnceUnlessRemoved, NoLogYet, AllFrom, File
  <1> QED
    BY <1>2, <1>3, <1>4, <1>5, <1>6 DEF CacheInv

LEMMA BuildSessionsStep == ASSUME CacheInv, BuildSessions PROVE CacheInv'
  <1>1. /\ result' = result /\ history' = history /\ version' = version /\ raw' = raw
        /\ step = "build"
        /\ \/ /\ job.sessions = NoLog /\ step' = "write_sessions" /\ job' \in CacheCall
              /\ job'.inventory = job.inventory /\ job'.load = job.load
              /\ job'.records = job.records /\ job'.stats = job.stats
              /\ job'.sessions = job.records /\ job'.routed = job.inventory
              /\ pickle' \in [File -> Pickle] /\ pickle'["sessions"].state = "torn"
              /\ pickle'["records"] = pickle["records"]
           \/ job.sessions # NoLog /\ step' = "return" /\ job' = job /\ pickle' = pickle
    <2>1. CASE job.sessions = NoLog
      <3>1. /\ job' = [job EXCEPT !.sessions = job.records, !.routed = job.inventory]
            /\ pickle' = [pickle EXCEPT !["sessions"] = Torn]
            /\ Torn \in Pickle /\ Torn.state = "torn"
        BY CacheFacts, <2>1, PickleFacts DEF BuildSessions
      <3>2. pickle' \in [File -> Pickle] /\ pickle'["sessions"] = Torn
            /\ pickle'["records"] = pickle["records"]
        BY CacheFacts, <3>1 DEF CacheTypeOK, File
      <3>3. /\ job' \in CacheCall /\ job'.inventory = job.inventory /\ job'.load = job.load
            /\ job'.records = job.records /\ job'.stats = job.stats
            /\ job'.sessions = job.records /\ job'.routed = job.inventory
        BY CacheFacts, <3>1 DEF CacheTypeOK, CacheCall
      <3> QED
        BY CacheFacts, <2>1, <3>1, <3>2, <3>3 DEF BuildSessions
    <2>2. CASE job.sessions # NoLog
      BY CacheFacts, <2>2 DEF BuildSessions
    <2> QED
      BY CacheFacts, <2>1, <2>2
  <1>2. CacheTypeOK'
    BY CacheFacts, <1>1 DEF NoLog, CacheTypeOK, Stage
  <1>3. ReadByStep'
    BY CacheFacts, <1>1 DEF NoLog, CacheTypeOK, ReadByStep, File
  <1>4. RoutedAsAsked'
    BY CacheFacts, <1>1 DEF NoLog, CacheTypeOK, ReadByStep, RoutedAsAsked
  <1>5. WholeUnlessCut'
    BY CacheFacts, <1>1 DEF NoLog, CacheTypeOK, ReadByStep, RoutedAsAsked, WholeUnlessCut, AllFrom, File
  <1>6. OnceUnlessRemoved'
    BY CacheFacts, <1>1 DEF NoLog, CacheTypeOK, ReadByStep, RoutedAsAsked, OnceUnlessRemoved, NoLogYet, AllFrom, File
  <1> QED
    BY <1>2, <1>3, <1>4, <1>5, <1>6 DEF CacheInv

LEMMA WriteSessionsStep == ASSUME CacheInv, WriteSessions PROVE CacheInv'
  <1>1. /\ result' = result /\ history' = history /\ version' = version /\ raw' = raw
        /\ job' = job /\ step = "write_sessions" /\ step' = "return"
        /\ pickle' \in [File -> Pickle] /\ pickle'["records"] = pickle["records"]
        /\ pickle'["sessions"].from = job.sessions
        /\ pickle'["sessions"].routed = job.routed
        /\ pickle'["sessions"].stats = job.stats
    <2> DEFINE new == [state |-> "whole", version |-> version["sessions"], from |-> job.sessions,
                       routed |-> job.routed, stats |-> job.stats]
    <2>1. /\ new \in Pickle /\ new.from = job.sessions
          /\ new.routed = job.routed /\ new.stats = job.stats
      BY CacheFacts DEF CacheTypeOK, Pickle, CacheCall, File
    <2>2. pickle' = [pickle EXCEPT !["sessions"] = new]
      BY CacheFacts DEF WriteSessions
    <2> HIDE DEF new
    <2> QED
      BY CacheFacts, <2>1, <2>2 DEF WriteSessions, CacheTypeOK, File
  <1>2. CacheTypeOK'
    BY CacheFacts, <1>1 DEF NoLog, CacheTypeOK, Stage
  <1>3. ReadByStep'
    BY CacheFacts, <1>1 DEF NoLog, CacheTypeOK, ReadByStep, File
  <1>4. RoutedAsAsked'
    BY CacheFacts, <1>1 DEF NoLog, CacheTypeOK, ReadByStep, RoutedAsAsked
  <1>5. WholeUnlessCut'
    BY CacheFacts, <1>1 DEF NoLog, CacheTypeOK, ReadByStep, RoutedAsAsked, WholeUnlessCut, AllFrom, File
  <1>6. OnceUnlessRemoved'
    BY CacheFacts, <1>1 DEF NoLog, CacheTypeOK, ReadByStep, RoutedAsAsked, OnceUnlessRemoved, NoLogYet, AllFrom, File
  <1> QED
    BY <1>2, <1>3, <1>4, <1>5, <1>6 DEF CacheInv

LEMMA ReturnStep == ASSUME CacheInv, Return PROVE CacheInv'
  <1>1. /\ result' = {job} /\ version' = version /\ raw' = raw /\ job' = job /\ pickle' = pickle
        /\ step = "return" /\ step' = "idle"
        /\ history' \in [cut : BOOLEAN, removed : BOOLEAN, inventories : SUBSET BOOLEAN,
                          loaded : BOOLEAN]
        /\ history'.cut = history.cut /\ history'.removed = history.removed
        /\ history'.inventories = history.inventories
    BY CacheFacts DEF Return, CacheTypeOK
  <1>2. CacheTypeOK'
    BY CacheFacts, <1>1 DEF NoLog, CacheTypeOK, Stage
  <1>3. ReadByStep'
    BY CacheFacts, <1>1 DEF NoLog, CacheTypeOK, ReadByStep, File
  <1>4. RoutedAsAsked'
    BY CacheFacts, <1>1 DEF NoLog, CacheTypeOK, ReadByStep, RoutedAsAsked
  <1>5. WholeUnlessCut'
    BY CacheFacts, <1>1 DEF NoLog, CacheTypeOK, ReadByStep, RoutedAsAsked, WholeUnlessCut, AllFrom, File
  <1>6. OnceUnlessRemoved'
    BY CacheFacts, <1>1 DEF NoLog, CacheTypeOK, ReadByStep, RoutedAsAsked, OnceUnlessRemoved, NoLogYet, AllFrom, File
  <1> QED
    BY <1>2, <1>3, <1>4, <1>5, <1>6 DEF CacheInv

LEMMA StopStep == ASSUME CacheInv, Stop PROVE CacheInv'
  <1>1. /\ result' = result /\ version' = version /\ raw' = raw /\ job' = job /\ pickle' = pickle
        /\ step # "idle" /\ step' = "idle"
        /\ history' \in [cut : BOOLEAN, removed : BOOLEAN, inventories : SUBSET BOOLEAN,
                          loaded : BOOLEAN]
        /\ ~history'.cut => ~history.cut /\ (step = "write_raw" => raw = Whole)
        /\ history'.removed = history.removed /\ history'.loaded = history.loaded
        /\ history'.inventories = history.inventories
    <2> DEFINE cut == history.cut \/ (step = "write_raw" /\ raw < Whole)
    <2>1. /\ history' = [history EXCEPT !.cut = cut]
          /\ cut \in BOOLEAN /\ (~cut => ~history.cut /\ (step = "write_raw" => raw = Whole))
      BY CacheFacts DEF Stop, CacheTypeOK
    <2> HIDE DEF cut
    <2> QED
      BY CacheFacts, <2>1 DEF Stop, CacheTypeOK
  <1>2. CacheTypeOK'
    BY CacheFacts, <1>1 DEF NoLog, CacheTypeOK, Stage
  <1>3. ReadByStep'
    BY CacheFacts, <1>1 DEF NoLog, CacheTypeOK, ReadByStep, File
  <1>4. RoutedAsAsked'
    BY CacheFacts, <1>1 DEF NoLog, CacheTypeOK, ReadByStep, RoutedAsAsked
  <1>5. WholeUnlessCut'
    BY CacheFacts, <1>1 DEF NoLog, CacheTypeOK, ReadByStep, RoutedAsAsked, WholeUnlessCut, AllFrom, File
  <1>6. OnceUnlessRemoved'
    BY CacheFacts, <1>1 DEF NoLog, CacheTypeOK, ReadByStep, RoutedAsAsked, OnceUnlessRemoved, NoLogYet, AllFrom, File
  <1> QED
    BY <1>2, <1>3, <1>4, <1>5, <1>6 DEF CacheInv

LEMMA RemoveRawStep == ASSUME CacheInv, RemoveRaw PROVE CacheInv'
  <1>1. /\ result' = result /\ version' = version /\ raw' = NoLog /\ job' = job /\ pickle' = pickle
        /\ step = "idle" /\ step' = "idle"
        /\ history' \in [cut : BOOLEAN, removed : BOOLEAN, inventories : SUBSET BOOLEAN,
                          loaded : BOOLEAN]
        /\ history'.cut = history.cut /\ history'.removed = TRUE
        /\ history'.inventories = history.inventories
    BY CacheFacts DEF RemoveRaw, CacheTypeOK
  <1>2. CacheTypeOK'
    BY CacheFacts, <1>1 DEF NoLog, CacheTypeOK, Stage
  <1>3. ReadByStep'
    BY CacheFacts, <1>1 DEF NoLog, CacheTypeOK, ReadByStep, File
  <1>4. RoutedAsAsked'
    BY CacheFacts, <1>1 DEF NoLog, CacheTypeOK, ReadByStep, RoutedAsAsked
  <1>5. WholeUnlessCut'
    BY CacheFacts, <1>1 DEF NoLog, CacheTypeOK, ReadByStep, RoutedAsAsked, WholeUnlessCut, AllFrom, File
  <1>6. OnceUnlessRemoved'
    BY CacheFacts, <1>1 DEF NoLog, CacheTypeOK, ReadByStep, RoutedAsAsked, OnceUnlessRemoved, NoLogYet, AllFrom, File
  <1> QED
    BY <1>2, <1>3, <1>4, <1>5, <1>6 DEF CacheInv

LEMMA BeginStep ==
    ASSUME CacheInv, NEW inventory \in BOOLEAN, NEW load \in BOOLEAN, Begin(inventory, load)
    PROVE  CacheInv'
  <1>1. /\ version' = version /\ raw' = raw /\ pickle' = pickle /\ result' = result
        /\ step = "idle" /\ step' = "sessions"
        /\ job' \in CacheCall /\ job'.inventory = inventory
        /\ job'.records = NoLog /\ job'.sessions = NoLog /\ job'.stats = NoLog
        /\ history' \in [cut : BOOLEAN, removed : BOOLEAN, inventories : SUBSET BOOLEAN,
                          loaded : BOOLEAN]
        /\ history'.cut = history.cut /\ history'.removed = history.removed
        /\ history'.loaded = history.loaded
        /\ history'.inventories = history.inventories \cup {inventory}
    <2>1. job' = LoadCall(inventory, load)
      BY DEF Begin
    <2>2. /\ job' \in CacheCall /\ job'.inventory = inventory
          /\ job'.records = NoLog /\ job'.sessions = NoLog /\ job'.stats = NoLog
      BY CacheFacts, <2>1 DEF LoadCall, CacheCall
    <2>3. history.inventories \cup {inventory} \in SUBSET BOOLEAN
      BY CacheFacts DEF CacheTypeOK
    <2> DEFINE asked == history.inventories \cup {inventory}
    <2>4. history' = [history EXCEPT !.inventories = asked]
      BY DEF Begin
    <2>5. asked \in SUBSET BOOLEAN
      BY <2>3
    <2> HIDE DEF asked
    <2>6. /\ history' \in [cut : BOOLEAN, removed : BOOLEAN, inventories : SUBSET BOOLEAN,
                            loaded : BOOLEAN]
          /\ history'.cut = history.cut /\ history'.removed = history.removed
          /\ history'.loaded = history.loaded
          /\ history'.inventories = asked
      BY CacheFacts, <2>4, <2>5 DEF CacheTypeOK
    <2> QED
      BY <2>2, <2>6 DEF Begin, asked
  <1>2. CacheTypeOK'
    BY CacheFacts, <1>1 DEF NoLog, CacheTypeOK, Stage
  <1>3. ReadByStep'
    BY CacheFacts, <1>1 DEF NoLog, CacheTypeOK, ReadByStep, File
  <1>4. RoutedAsAsked'
    BY CacheFacts, <1>1 DEF NoLog, CacheTypeOK, ReadByStep, RoutedAsAsked, File
  <1>5. WholeUnlessCut'
    BY CacheFacts, <1>1 DEF NoLog, CacheTypeOK, ReadByStep, RoutedAsAsked, WholeUnlessCut, AllFrom, File
  <1>6. OnceUnlessRemoved'
    BY CacheFacts, <1>1 DEF NoLog, CacheTypeOK, ReadByStep, RoutedAsAsked, OnceUnlessRemoved, NoLogYet, AllFrom, File
  <1> QED
    BY <1>2, <1>3, <1>4, <1>5, <1>6 DEF CacheInv

LEMMA UpdateStep ==
    ASSUME CacheInv, NEW f \in File, Update(f)
    PROVE  CacheInv'
  <1>1. /\ version' \in [File -> Nat] /\ raw' = raw /\ pickle' = pickle /\ result' = result
        /\ job' = job /\ step' = step /\ history' = history
    BY CacheFacts DEF Update, CacheTypeOK
  <1>2. CacheTypeOK'
    BY CacheFacts, <1>1 DEF NoLog, CacheTypeOK, Stage
  <1>3. ReadByStep'
    BY CacheFacts, <1>1 DEF NoLog, CacheTypeOK, ReadByStep, File
  <1>4. RoutedAsAsked'
    BY CacheFacts, <1>1 DEF NoLog, CacheTypeOK, ReadByStep, RoutedAsAsked, File
  <1>5. WholeUnlessCut'
    BY CacheFacts, <1>1 DEF NoLog, CacheTypeOK, ReadByStep, RoutedAsAsked, WholeUnlessCut, AllFrom, File
  <1>6. OnceUnlessRemoved'
    BY CacheFacts, <1>1 DEF NoLog, CacheTypeOK, ReadByStep, RoutedAsAsked, OnceUnlessRemoved, NoLogYet, AllFrom, File
  <1> QED
    BY <1>2, <1>3, <1>4, <1>5, <1>6 DEF CacheInv

LEMMA CacheInitHolds == CacheInit => CacheInv
  <1> SUFFICES ASSUME CacheInit PROVE CacheInv
    OBVIOUS
  <1>1. /\ raw = NoLog /\ step = "idle" /\ result = {} /\ NoLog \in Int /\ NoLog < 0
        /\ \A f \in File : pickle[f] = NoPickle
        /\ NoPickle.state = "absent" /\ ~history.loaded
    BY DEF CacheInit, NoLog, NoPickle
  <1>2. /\ job \in CacheCall /\ job.records = NoLog /\ job.sessions = NoLog /\ job.stats = NoLog
    BY <1>1 DEF CacheInit, LoadCall, CacheCall
  <1>3. CacheTypeOK
    <2>1. version \in [File -> Nat] /\ pickle \in [File -> Pickle]
      BY PickleFacts DEF CacheInit
    <2>2. history \in [cut : BOOLEAN, removed : BOOLEAN, inventories : SUBSET BOOLEAN,
                       loaded : BOOLEAN]
      BY DEF CacheInit
    <2>3. raw \in Int /\ raw >= NoLog /\ raw <= Whole
      BY <1>1, RunCacheAssumption
    <2>4. step \in Stage
      BY <1>1 DEF Stage
    <2> QED
      BY <1>1, <1>2, <2>1, <2>2, <2>3, <2>4 DEF CacheTypeOK
  <1>4. ReadByStep /\ RoutedAsAsked /\ WholeUnlessCut /\ OnceUnlessRemoved
    BY <1>1, <1>2 DEF ReadByStep, RoutedAsAsked, WholeUnlessCut, OnceUnlessRemoved, NoLogYet,
       AllFrom, File
  <1> QED
    BY <1>3, <1>4 DEF CacheInv

LEMMA CacheInvInductive == CacheInv /\ [CacheNext]_cacheVars => CacheInv'
  <1> SUFFICES ASSUME CacheInv, [CacheNext]_cacheVars PROVE CacheInv'
    OBVIOUS
  <1>1. CASE UNCHANGED cacheVars
    BY <1>1 DEF cacheVars, CacheInv, CacheTypeOK, ReadByStep, RoutedAsAsked, WholeUnlessCut,
       AllFrom, OnceUnlessRemoved, NoLogYet
  <1>2. CASE CacheNext
    BY <1>2, BeginStep, ReadSessionsStep, ReadRecordsStep, ReadLinesStep, DownloadStep,
       WriteRawStep, WriteRecordsStep, BuildSessionsStep, WriteSessionsStep, ReturnStep,
       StopStep, RemoveRawStep, UpdateStep
    DEF CacheNext
  <1> QED
    BY <1>1, <1>2

-----------------------------------------------------------------------------
LEMMA FreshFromInv == CacheInv => CachedIsFresh
  <1> SUFFICES ASSUME CacheInv, NEW r \in result
               PROVE  /\ ~history.cut => r.sessions = Whole /\ r.records \in {Whole, NoLog}
                      /\ Cardinality(history.inventories) = 1 => r.routed = r.inventory
                      /\ r.load => r.records # NoLog
    BY DEF CachedIsFresh
  <1>1. ~history.cut => r.sessions = Whole /\ r.records \in {Whole, NoLog}
    BY DEF CacheInv, WholeUnlessCut, AllFrom
  <1>2. ASSUME Cardinality(history.inventories) = 1
        PROVE  r.routed = r.inventory
    <2>1. history.inventories \subseteq {TRUE, FALSE}
      BY DEF CacheInv, CacheTypeOK
    <2>2. IsFiniteSet(history.inventories)
      <3>1. IsFiniteSet({TRUE, FALSE})
        <4>1. IsFiniteSet({TRUE}) /\ IsFiniteSet({FALSE})
          BY FS_Singleton
        <4>2. IsFiniteSet({TRUE} \cup {FALSE})
          BY <4>1, FS_Union
        <4>3. {TRUE} \cup {FALSE} = {TRUE, FALSE}
          OBVIOUS
        <4> QED
          BY <4>2, <4>3
      <3> QED
        BY <2>1, <3>1, FS_Subset
    <2>3. PICK x : history.inventories = {x}
      BY <1>2, <2>2, FS_Singleton
    <2>4. r.routed \in history.inventories /\ r.inventory \in history.inventories
      BY DEF CacheInv, RoutedAsAsked
    <2> QED
      BY <2>3, <2>4
  <1>3. r.load => r.records # NoLog
    BY DEF CacheInv, ReadByStep
  <1> QED
    BY <1>1, <1>2, <1>3

LEMMA OneLogFromInv == CacheInv => OneLog
  <1> SUFFICES ASSUME CacheInv, NEW r \in result
               PROVE  /\ r.stats = NoLog => history.removed
                      /\ ~(history.cut /\ history.removed) =>
                           /\ r.records \in {r.sessions, NoLog}
                           /\ r.stats \in {r.sessions, NoLog}
    BY DEF OneLog
  <1>1. CASE ~history.removed
    <2>1. ~NoLogYet
      BY <1>1 DEF CacheInv, OnceUnlessRemoved
    <2> QED
      BY <1>1, <2>1 DEF CacheInv, OnceUnlessRemoved, AllFrom
  <1>2. CASE history.removed /\ ~history.cut
    BY <1>2 DEF CacheInv, WholeUnlessCut, AllFrom
  <1> QED
    BY <1>1, <1>2

(***************************************************************************)
(* A script cannot tell whether its data come out of the cache, however    *)
(* long the log is, however often the scripts were updated, and wherever   *)
(* the calls before were stopped.                                          *)
(***************************************************************************)
THEOREM SpecCacheIsTransparent == CacheSpec => []CacheIsTransparent
  <1>1. CacheInv => CacheIsTransparent
    BY FreshFromInv, OneLogFromInv DEF CacheIsTransparent
  <1> QED
    BY <1>1, CacheInitHolds, CacheInvInductive, PTL DEF CacheSpec

(***************************************************************************)
(* After the first call that came to its end nothing downloads the log or  *)
(* writes to it, unless somebody removes it.                               *)
(***************************************************************************)
THEOREM SpecDownloadedOnce == CacheSpec => []DownloadedOnce
  <1>1. CacheInv => DownloadedOnce
    <2> SUFFICES ASSUME CacheInv, history.loaded, ~history.removed
                 PROVE  raw > 0 /\ step # "write_raw"
      BY DEF DownloadedOnce
    <2>1. ~NoLogYet
      BY DEF CacheInv, OnceUnlessRemoved
    <2>2. raw \in Int
      BY CacheFacts
    <2> QED
      BY <2>1, <2>2 DEF NoLogYet
  <1> QED
    BY <1>1, CacheInitHolds, CacheInvInductive, PTL DEF CacheSpec

-----------------------------------------------------------------------------
(***************************************************************************)
(* Comparison of runs.                                                     *)
(***************************************************************************)
\* A build has levels of the experiment, each with one of its results.
ComparisonInv ==
    /\ json \in [Build -> UNION {[levels -> UNION {Results[lv] : lv \in Level}] : levels \in SUBSET Level}]
    /\ \A b \in Build : \A lv \in LevelsOf(b) : json[b][lv] \in Results[lv]

LEMMA LevelFacts ==
    /\ IsFiniteSet(Build) /\ IsFiniteSet(Level)
    /\ \A lv \in Level : lv \in Nat \ {0}
    /\ Level \in SUBSET Nat
    /\ \A lv \in Level : \A r \in Results[lv] :
         r.passed \in 0..lv /\ r.seconds \in Nat /\ r.inserts \in Nat \cup {Missing}
  BY ComparisonAssumption

LEMMA ComparisonBegins == ComparisonInit => ComparisonInv
  <1> SUFFICES ASSUME ComparisonInit PROVE ComparisonInv
    OBVIOUS
  <1> DEFINE outcomes == UNION {Results[lv] : lv \in Level}
  <1>1. <<>> \in [{} -> outcomes] /\ DOMAIN <<>> = {}
    OBVIOUS
  <1>2. <<>> \in UNION {[levels -> outcomes] : levels \in SUBSET Level}
    BY <1>1
  <1>3. json = [b \in Build |-> <<>>]
    BY DEF ComparisonInit
  <1> HIDE DEF outcomes
  <1>4. json \in [Build -> UNION {[levels -> outcomes] : levels \in SUBSET Level}]
    BY <1>2, <1>3
  <1>5. \A b \in Build : LevelsOf(b) = {}
    BY <1>1, <1>3 DEF LevelsOf
  <1> QED
    BY <1>4, <1>5 DEF ComparisonInv, outcomes

LEMMA FilesFacts ==
    ASSUME ComparisonInv, NEW b \in Build
    PROVE  /\ LevelsOf(b) \in SUBSET Level
           /\ \A lv \in LevelsOf(b) : lv \in Level /\ json[b][lv] \in Results[lv]
  <1>1. PICK levels \in SUBSET Level : json[b] \in [levels -> UNION {Results[lv] : lv \in Level}]
    BY DEF ComparisonInv
  <1> QED
    BY <1>1 DEF ComparisonInv, LevelsOf

LEMMA RunLevelStep ==
    ASSUME ComparisonInv, NEW b \in Build, RunLevel(b)
    PROVE  ComparisonInv'
  <1> DEFINE lv == Min(Following(b))
             outcomes == UNION {Results[l] : l \in Level}
             Files == UNION {[levels -> outcomes] : levels \in SUBSET Level}
  <1>1. PICK outcome \in Results[lv] :
           json' = [json EXCEPT ![b] = [l \in LevelsOf(b) \cup {lv} |-> IF l = lv THEN outcome ELSE json[b][l]]]
    BY Zenon DEF RunLevel
  <1>2. lv \in Level
    <2>1. Following(b) \in SUBSET Nat /\ Following(b) # {} /\ Following(b) \subseteq Level
      BY LevelFacts DEF RunLevel, Following
    <2> QED
      BY <2>1, FirstPlace
  <1> HIDE DEF lv
  <1> DEFINE file == [l \in LevelsOf(b) \cup {lv} |-> IF l = lv THEN outcome ELSE json[b][l]]
  <1>3. /\ LevelsOf(b) \cup {lv} \in SUBSET Level /\ DOMAIN file = LevelsOf(b) \cup {lv}
        /\ \A l \in LevelsOf(b) \cup {lv} : file[l] \in Results[l]
    BY <1>2, FilesFacts
  <1>4. file \in [LevelsOf(b) \cup {lv} -> outcomes]
    BY <1>3
  <1>5. json' = [json EXCEPT ![b] = file]
    BY <1>1
  <1> HIDE DEF file, outcomes
  <1>6. file \in Files
    BY <1>3, <1>4
  <1>7. json \in [Build -> Files]
    BY DEF ComparisonInv, outcomes
  <1> HIDE DEF Files
  <1>8. json' \in [Build -> Files] /\ \A c \in Build : json'[c] = IF c = b THEN file ELSE json[c]
    BY <1>5, <1>6, <1>7
  <1>9. \A c \in Build : \A l \in DOMAIN json'[c] : json'[c][l] \in Results[l]
    BY <1>3, <1>8 DEF ComparisonInv, LevelsOf
  <1> QED
    BY <1>8, <1>9 DEF ComparisonInv, LevelsOf, Files, outcomes

LEMMA ComparisonInvariant == ComparisonSpec => []ComparisonInv
  <1>1. ComparisonInv /\ UNCHANGED comparisonVars => ComparisonInv'
    BY DEF ComparisonInv, LevelsOf, comparisonVars
  <1>2. ComparisonInv /\ [ComparisonNext]_comparisonVars => ComparisonInv'
    BY <1>1, RunLevelStep DEF ComparisonNext
  <1> QED
    BY <1>2, ComparisonBegins, PTL DEF ComparisonSpec

-----------------------------------------------------------------------------
LEMMA MeanOf ==
    ASSUME NEW S, IsFiniteSet(S), S # {}, NEW f, DOMAIN f = S, NEW lo \in Int, NEW hi \in Int,
           \A x \in S : f[x] \in Int /\ lo <= f[x] /\ f[x] <= hi
    PROVE  /\ Mean(f) \in Int /\ lo <= Mean(f) /\ Mean(f) <= hi
           /\ Mean(f) = hi <=> \A x \in S : f[x] = hi
  <1>1. Mean(f) = SumFunctionOnSet(f, S) \div Cardinality(S)
    BY DEF Mean, SumFunction
  <1> DEFINE m == Mean(f)
  <1>2. m = SumFunctionOnSet(f, S) \div Cardinality(S)
    BY <1>1
  <1> HIDE DEF m
  <1>3. m \in Int /\ lo <= m /\ m <= hi
    BY <1>2, MeanLiesBetween
  <1>4. m = hi <=> \A x \in S : f[x] = hi
    BY <1>2, MeanLiesBetween
  <1> QED
    BY <1>3, <1>4 DEF m

\* A mean of counts is a count.
LEMMA MeanNat ==
    ASSUME NEW S, IsFiniteSet(S), S # {}, NEW f, DOMAIN f = S, \A x \in S : f[x] \in Nat
    PROVE  Mean(f) \in Nat
  <1> DEFINE values == {f[x] : x \in S}
  <1>1. values \in SUBSET Int /\ values # {} /\ IsFiniteSet(values)
    <2>1. IsFiniteSet(values)
      <3> DEFINE g == [x \in S |-> f[x]]
      <3>1. g \in Surjection(S, values)
        BY DEF Surjection
      <3> QED
        BY <3>1, FS_Surjection
    <2> QED
      BY <2>1
  <1>2. Max(values) \in values /\ \A v \in values : v <= Max(values)
    BY <1>1, Greatest
  <1>3. Max(values) \in Int
    BY <1>1, <1>2
  <1>4. \A x \in S : f[x] \in Int /\ 0 <= f[x] /\ f[x] <= Max(values)
    BY <1>2
  <1> HIDE DEF values
  <1>5. Mean(f) \in Int /\ 0 <= Mean(f)
    BY <1>3, <1>4, MeanOf
  <1> QED
    BY <1>5

\* The builds that have a level, and its cell.
LEMMA CellFacts ==
    ASSUME ComparisonInv, NEW builds \in SUBSET Build, NEW lv \in AllLevels(builds)
    PROVE  /\ lv \in Level /\ lv \in Nat \ {0}
           /\ Having(builds, lv) # {} /\ IsFiniteSet(Having(builds, lv))
           /\ \A b \in Having(builds, lv) :
                /\ json[b][lv].passed \in 0..lv /\ json[b][lv].seconds \in Nat
                /\ json[b][lv].inserts \in Nat \cup {Missing}
           /\ Averaged(builds, lv).passed = MeanPassed(Having(builds, lv), lv)
           /\ Averaged(builds, lv).total = lv
           /\ Averaged(builds, lv).passed \in 0..lv /\ Averaged(builds, lv).seconds \in Nat
           /\ Averaged(builds, lv).inserts \in Nat \cup {Missing}
  <1> DEFINE having == Having(builds, lv)
             measured == {b \in having : json[b][lv].inserts # Missing}
  <1>1. having # {} /\ having \in SUBSET Build /\ \A b \in having : lv \in LevelsOf(b)
    BY DEF AllLevels, Having
  <1>2. IsFiniteSet(having) /\ IsFiniteSet(measured)
    BY <1>1, LevelFacts, FS_Subset
  <1>3. lv \in Level /\ \A b \in having : json[b][lv] \in Results[lv]
    BY <1>1, FilesFacts
  <1>4. /\ lv \in Nat \ {0}
        /\ \A b \in having : /\ json[b][lv].passed \in 0..lv /\ json[b][lv].seconds \in Nat
                             /\ json[b][lv].inserts \in Nat \cup {Missing}
    BY <1>3, LevelFacts
  <1>5. /\ Averaged(builds, lv).passed = MeanPassed(having, lv)
        /\ Averaged(builds, lv).total = lv
        /\ Averaged(builds, lv).seconds = Mean([b \in having |-> json[b][lv].seconds])
        /\ Averaged(builds, lv).inserts =
              IF measured = {} THEN Missing ELSE Mean([b \in measured |-> json[b][lv].inserts])
    BY DEF Averaged
  <1> HIDE DEF having
  <1>6. MeanPassed(having, lv) \in 0..lv
    <2> DEFINE f == PassedOf(having, lv)
    <2>1. DOMAIN f = having /\ \A b \in having : f[b] \in Int /\ 0 <= f[b] /\ f[b] <= lv
      BY <1>4 DEF PassedOf
    <2> HIDE DEF f
    <2>2. Mean(f) \in Int /\ 0 <= Mean(f) /\ Mean(f) <= lv
      BY <1>1, <1>2, <1>4, <2>1, MeanOf
    <2> QED
      BY <1>4, <2>2 DEF MeanPassed, f
  <1>7. Mean([b \in having |-> json[b][lv].seconds]) \in Nat
    <2> DEFINE f == [b \in having |-> json[b][lv].seconds]
    <2>1. DOMAIN f = having /\ \A b \in having : f[b] \in Nat
      BY <1>4
    <2> HIDE DEF f
    <2>2. Mean(f) \in Nat
      BY <1>1, <1>2, <2>1, MeanNat
    <2> QED
      BY <2>2 DEF f
  <1>8. ASSUME measured # {} PROVE Mean([b \in measured |-> json[b][lv].inserts]) \in Nat
    <2> DEFINE f == [b \in measured |-> json[b][lv].inserts]
    <2>1. DOMAIN f = measured /\ \A b \in measured : f[b] \in Nat
      BY <1>4
    <2> HIDE DEF f, measured
    <2>2. Mean(f) \in Nat
      BY <1>2, <1>8, <2>1, MeanNat
    <2> QED
      BY <2>2 DEF f
  <1> HIDE DEF measured
  <1> QED
    BY <1>1, <1>2, <1>3, <1>4, <1>5, <1>6, <1>7, <1>8 DEF having

\* A level is fully passed when it was in every build that has it ...
LEMMA AverageIsFull ==
    ASSUME ComparisonInv, NEW builds \in SUBSET Build, NEW lv \in AllLevels(builds)
    PROVE  Averaged(builds, lv).passed = lv <=> \A b \in Having(builds, lv) : json[b][lv].passed = lv
  <1> DEFINE having == Having(builds, lv)
             f == PassedOf(having, lv)
  <1>1. /\ having # {} /\ IsFiniteSet(having) /\ lv \in Int
        /\ \A b \in having : json[b][lv].passed \in Int /\ 0 <= json[b][lv].passed /\ json[b][lv].passed <= lv
        /\ Averaged(builds, lv).passed = MeanPassed(having, lv)
    BY CellFacts
  <1> HIDE DEF having
  <1>2. DOMAIN f = having /\ \A b \in having : f[b] = json[b][lv].passed
    BY DEF PassedOf
  <1> HIDE DEF f
  <1>3. Mean(f) = lv <=> \A b \in having : f[b] = lv
    BY <1>1, <1>2, MeanOf
  <1> QED
    BY <1>1, <1>2, <1>3 DEF MeanPassed, f, having

\* ... and steep when all of them lost a twentieth.
LEMMA LossIsSteep ==
    ASSUME ComparisonInv, NEW builds \in SUBSET Build, NEW lv \in AllLevels(builds),
           \A b \in Having(builds, lv) : 100 * json[b][lv].passed < 95 * lv
    PROVE  PassRate(Averaged(builds, lv)) < 95
  <1> DEFINE having == Having(builds, lv)
             f == PassedOf(having, lv)
             most == (95 * lv - 1) \div 100
             m == Averaged(builds, lv).passed
             rate == (100 * m) \div lv
  <1>1. /\ having # {} /\ IsFiniteSet(having) /\ lv \in Nat \ {0} /\ m \in 0..lv
        /\ \A b \in having : json[b][lv].passed \in 0..lv
        /\ m = MeanPassed(having, lv) /\ Averaged(builds, lv).total = lv
    BY CellFacts
  <1>2. \A b \in having : 100 * json[b][lv].passed < 95 * lv
    OBVIOUS
  <1>3. PassRate(Averaged(builds, lv)) = rate
    BY <1>1 DEF PassRate
  <1>4. most \in Int /\ 100 * most <= 95 * lv - 1 /\ 95 * lv - 1 < 100 * most + 100
    <2>1. 95 * lv - 1 \in Int /\ 100 \in Nat \ {0}
      BY <1>1
    <2> QED
      BY <2>1, Quotient
  <1> HIDE DEF having, most
  <1>5. DOMAIN f = having /\ \A b \in having : f[b] = json[b][lv].passed
    BY DEF PassedOf
  <1>6. \A b \in having : f[b] \in Int /\ 0 <= f[b] /\ f[b] <= most
    BY <1>1, <1>2, <1>4, <1>5
  <1> HIDE DEF f
  <1>7. Mean(f) <= most
    BY <1>1, <1>4, <1>5, <1>6, MeanOf
  <1>8. m <= most
    BY <1>1, <1>7 DEF MeanPassed, f
  <1> HIDE DEF m
  <1>9. 100 * m < 95 * lv /\ 100 * m \in Int /\ lv * 95 = 95 * lv
    BY <1>1, <1>4, <1>8
  <1>10. rate \in Int /\ lv * rate <= 100 * m
    BY <1>1, <1>9, Quotient
  <1> HIDE DEF rate
  <1>11. ASSUME 95 <= rate PROVE FALSE
    <2>1. lv * 95 <= lv * rate
      BY <1>1, <1>10, <1>11, ProductGrows
    <2>2. lv * rate \in Int
      BY <1>1, <1>10
    <2> QED
      BY <1>1, <1>9, <1>10, <2>1, <2>2
  <1> QED
    BY <1>3, <1>10, <1>11

LEMMA ColumnFacts ==
    /\ \A c \in DOMAIN Columns : Columns[c] \in SUBSET Build
    /\ \A builds \in Range(Columns) : builds \in SUBSET Build
    /\ \A c \in DOMAIN Columns : AllLevels(Columns[c]) \in SUBSET Levels
  <1>1. <<Baseline>> \in Seq(SUBSET Build) /\ Batches \in Seq(SUBSET Build)
    BY ComparisonAssumption
  <1>2. Columns \in Seq(SUBSET Build)
    BY <1>1 DEF Columns
  <1>3. \A c \in DOMAIN Columns : Columns[c] \in SUBSET Build
    BY <1>2
  <1> QED
    BY <1>3 DEF Range, Levels

LEMMA HidesNothing == ComparisonInv => AverageHidesNothing
  <1> SUFFICES ASSUME ComparisonInv, NEW builds \in Range(Columns), NEW lv \in AllLevels(builds)
               PROVE  /\ Averaged(builds, lv).passed = lv <=>
                            \A b \in Having(builds, lv) : json[b][lv].passed = lv
                      /\ (\A b \in Having(builds, lv) : 100 * json[b][lv].passed < 95 * lv)
                            => Cliff(builds) # 0 /\ Cliff(builds) <= lv
    BY DEF AverageHidesNothing
  <1>1. builds \in SUBSET Build
    BY ColumnFacts
  <1>2. ASSUME \A b \in Having(builds, lv) : 100 * json[b][lv].passed < 95 * lv
        PROVE  Cliff(builds) # 0 /\ Cliff(builds) <= lv
    <2> DEFINE steep == {l \in AllLevels(builds) : PassRate(Averaged(builds, l)) < 95}
    <2>1. lv \in steep
      BY <1>1, <1>2, LossIsSteep
    <2>2. \A l \in steep : l \in Nat \ {0}
      BY <1>1, CellFacts
    <2>3. Cliff(builds) = Min(steep)
      BY <2>1 DEF Cliff
    <2> HIDE DEF steep
    <2>4. steep \in SUBSET Nat
      BY <2>2
    <2>5. Min(steep) \in steep /\ Min(steep) <= lv
      BY <2>1, <2>4, FirstPlace
    <2> QED
      BY <2>2, <2>3, <2>5
  <1> QED
    BY <1>1, <1>2, AverageIsFull

-----------------------------------------------------------------------------
\* What the tables show of a column are the levels of its builds.
LEMMA TablesShow ==
    ASSUME ComparisonInv, NEW c \in DOMAIN Columns, NEW lv \in Levels
    PROVE  /\ Throughput[lv][c].shown # <<>> <=> lv \in AllLevels(Columns[c])
           /\ Throughput[lv][c].shown # <<>> =>
                Throughput[lv][c].shown[1] = Averaged(Columns[c], lv)
           /\ MetricTable[lv][c].shown # <<>> <=>
                lv \in AllLevels(Columns[c]) /\ Averaged(Columns[c], lv).inserts # Missing
           /\ MetricTable[lv][c].shown # <<>> =>
                MetricTable[lv][c].shown[1] = Averaged(Columns[c], lv).inserts
  <1> DEFINE builds == Columns[c]
             a == Averaged(builds, lv)
  <1>1. lv \in AllLevels(builds) <=> Having(builds, lv) # {}
    BY DEF AllLevels, Having
  <1>2. \A x : <<x>> # <<>> /\ <<x>>[1] = x
    OBVIOUS
  <1>3. Throughput[lv][c].shown = CellOf(builds, lv)
    BY DEF Throughput
  <1>4. MetricTable[lv][c].shown =
           IF CellOf(builds, lv) = <<>> \/ CellOf(builds, lv)[1].inserts = Missing THEN <<>>
           ELSE <<CellOf(builds, lv)[1].inserts>>
    BY DEF MetricTable
  <1>5. CellOf(builds, lv) = IF Having(builds, lv) = {} THEN <<>> ELSE <<a>>
    BY DEF CellOf
  <1> HIDE DEF builds, a
  <1>6. CASE Having(builds, lv) = {}
    <2>1. CellOf(builds, lv) = <<>>
      BY <1>5, <1>6
    <2> QED
      BY <1>1, <1>3, <1>4, <1>6, <2>1 DEF builds
  <1>7. CASE Having(builds, lv) # {}
    <2>1. CellOf(builds, lv) # <<>> /\ CellOf(builds, lv)[1] = a
      BY <1>2, <1>5, <1>7
    <2>2. Throughput[lv][c].shown # <<>> /\ Throughput[lv][c].shown[1] = a
      BY <1>3, <2>1
    <2>3. MetricTable[lv][c].shown = IF a.inserts = Missing THEN <<>> ELSE <<a.inserts>>
      BY <1>4, <2>1
    <2>4. /\ MetricTable[lv][c].shown # <<>> <=> a.inserts # Missing
          /\ MetricTable[lv][c].shown # <<>> => MetricTable[lv][c].shown[1] = a.inserts
      BY <1>2, <2>3
    <2> QED
      BY <1>1, <1>7, <2>2, <2>4 DEF builds, a
  <1> QED
    BY <1>6, <1>7

\* A mean with weights lies between the values that have weight.
LEMMA WeightedMean ==
    ASSUME NEW S, IsFiniteSet(S), NEW p, NEW w, NEW v, NEW lo \in Nat, NEW hi \in Nat,
           \A x \in S : p[x] \in Nat /\ v[x] \in Nat /\ w[x] = v[x] * p[x],
           \A x \in S : p[x] > 0 => lo <= v[x] /\ v[x] <= hi,
           \E x \in S : p[x] > 0
    PROVE  /\ SumFunctionOnSet(p, S) # 0
           /\ SumFunctionOnSet(w, S) \div SumFunctionOnSet(p, S) \in lo..hi
  <1> DEFINE low == [x \in S |-> lo * p[x]]
             high == [x \in S |-> hi * p[x]]
             none == [x \in S |-> 0]
             P == SumFunctionOnSet(p, S)
             W == SumFunctionOnSet(w, S)
  <1>1. \A x \in S : low[x] \in Int /\ w[x] \in Int /\ high[x] \in Int /\ low[x] <= w[x] /\ w[x] <= high[x]
    <2> TAKE x \in S
    <2>1. p[x] \in Nat /\ v[x] \in Nat /\ w[x] = v[x] * p[x] /\ low[x] = lo * p[x] /\ high[x] = hi * p[x]
      OBVIOUS
    <2> HIDE DEF low, high
    <2>2. CASE p[x] = 0
      BY <2>1, <2>2
    <2>3. CASE p[x] > 0
      <3>1. p[x] * lo <= p[x] * v[x] /\ p[x] * v[x] <= p[x] * hi
        BY <2>1, <2>3, ProductGrows
      <3> QED
        BY <2>1, <3>1
    <2> QED
      BY <2>1, <2>2, <2>3
  <1>2. P \in Int /\ W \in Int
    BY <1>1, SumInt
  <1>3. 0 < P
    <2>1. \A x \in S : none[x] \in Int /\ p[x] \in Int /\ none[x] <= p[x] /\ none[x] = 0
      OBVIOUS
    <2> HIDE DEF none
    <2>2. SumFunctionOnSet(none, S) = Cardinality(S) * 0
      BY <2>1, SumOfEqual
    <2>3. SumFunctionOnSet(none, S) < SumFunctionOnSet(p, S)
      BY <2>1, SumBelow
    <2>4. Cardinality(S) * 0 = 0
      BY FS_CardinalityType
    <2> QED
      BY <2>2, <2>3, <2>4
  <1>4. SumFunctionOnSet(low, S) = lo * P /\ SumFunctionOnSet(high, S) = hi * P
    <2>1. \A x \in S : p[x] \in Int /\ low[x] = lo * p[x] /\ high[x] = hi * p[x]
      OBVIOUS
    <2> HIDE DEF low, high
    <2> QED
      BY <2>1, SumTimes
  <1>5. SumFunctionOnSet(low, S) <= W /\ W <= SumFunctionOnSet(high, S)
    <2> HIDE DEF low, high
    <2> QED
      BY <1>1, SumBelow
  <1> HIDE DEF P, W
  <1>6. P * lo <= W /\ W <= P * hi
    BY <1>2, <1>4, <1>5
  <1>7. P \in Nat \ {0}
    BY <1>2, <1>3
  <1>8. W \div P \in Int /\ lo <= W \div P /\ W \div P <= hi
    BY <1>2, <1>6, <1>7, QuotientBetween
  <1> QED
    BY <1>7, <1>8 DEF P, W
\* So the summary is that of the tables.
LEMMA SummaryOfColumn ==
    ASSUME ComparisonInv, NEW c \in DOMAIN Columns
    PROVE  LET shown == {lv \in Levels : Throughput[lv][c].shown # <<>>}
               cell(lv) == Throughput[lv][c].shown[1]
               times == {cell(lv).seconds : lv \in {l \in shown : cell(l).passed > 0}}
               metrics == {MetricTable[lv][c].shown[1] : lv \in
                              {l \in Levels : MetricTable[l][c].shown # <<>>}}
           IN /\ Summary[c].passed = SumFunction([lv \in shown |-> cell(lv).passed])
              /\ Summary[c].attempted = SumFunction([lv \in shown |-> cell(lv).total])
              /\ times # {} => Summary[c].seconds \in Min(times)..Max(times)
              /\ metrics # {} => Summary[c].inserts \in Min(metrics)..Max(metrics)
  <1> DEFINE builds == Columns[c]
             levels == AllLevels(builds)
             a(lv) == Averaged(builds, lv)
             shown == {lv \in Levels : Throughput[lv][c].shown # <<>>}
             cell(lv) == Throughput[lv][c].shown[1]
             times == {cell(lv).seconds : lv \in {l \in shown : cell(l).passed > 0}}
             metrics == {MetricTable[lv][c].shown[1] : lv \in
                              {l \in Levels : MetricTable[l][c].shown # <<>>}}
             measured == {lv \in levels : a(lv).inserts # Missing}
             p == [lv \in levels |-> a(lv).passed]
             v == [lv \in levels |-> a(lv).seconds]
             w == [lv \in levels |-> a(lv).seconds * a(lv).passed]
             n == [lv \in measured |-> a(lv).inserts]
  <1>1. builds \in SUBSET Build /\ levels \in SUBSET Levels
    BY ColumnFacts
  <1>2. \A lv \in levels : /\ lv \in Level /\ a(lv).passed \in Nat /\ a(lv).seconds \in Nat
                           /\ a(lv).inserts \in Nat \cup {Missing} /\ a(lv).total = lv
    <2> TAKE lv \in levels
    <2>1. lv \in Level /\ lv \in Nat \ {0} /\ a(lv).passed \in 0..lv
      BY <1>1, CellFacts
    <2>2. a(lv).seconds \in Nat /\ a(lv).inserts \in Nat \cup {Missing} /\ a(lv).total = lv
      BY <1>1, CellFacts
    <2> HIDE DEF a
    <2> QED
      BY <2>1, <2>2
  <1>3. IsFiniteSet(levels) /\ IsFiniteSet(measured)
    <2>1. levels \in SUBSET Level /\ measured \in SUBSET Level
      BY <1>2
    <2> QED
      BY <2>1, LevelFacts, FS_Subset
  <1>4. /\ Summary[c].passed = SumFunction(p) /\ Summary[c].attempted = Attempted(builds)
        /\ Summary[c].seconds = IF SumFunction(p) = 0 THEN 0 ELSE SumFunction(w) \div SumFunction(p)
        /\ Summary[c].inserts = IF measured = {} THEN 0 ELSE Mean(n)
    BY DEF Summary
  <1>5. Attempted(builds) = SumFunction([lv \in levels |-> a(lv).total])
    BY DEF Attempted
  <1>6. /\ shown = levels /\ \A lv \in levels : cell(lv) = a(lv)
    <2>1. \A lv \in Levels : Throughput[lv][c].shown # <<>> <=> lv \in levels
      BY TablesShow
    <2>2. \A lv \in Levels : Throughput[lv][c].shown # <<>> => cell(lv) = a(lv)
      BY TablesShow
    <2> HIDE DEF a, levels, cell
    <2> QED
      BY <1>1, <2>1, <2>2
  <1>7. metrics = {a(lv).inserts : lv \in measured}
    <2>1. \A lv \in Levels : MetricTable[lv][c].shown # <<>> <=> lv \in measured
      BY TablesShow
    <2>2. \A lv \in Levels : MetricTable[lv][c].shown # <<>> => MetricTable[lv][c].shown[1] = a(lv).inserts
      BY TablesShow
    <2>3. measured \subseteq Levels
      BY <1>1
    <2> HIDE DEF a, measured
    <2> QED
      BY <2>1, <2>2, <2>3
  <1> HIDE DEF a, levels, builds, cell, shown
  <1>8. SumFunction([lv \in shown |-> cell(lv).passed]) = SumFunction(p)
    <2>1. [lv \in shown |-> cell(lv).passed] = p
      BY <1>6
    <2> QED
      BY <2>1
  <1>9. SumFunction([lv \in shown |-> cell(lv).total]) = SumFunction([lv \in levels |-> a(lv).total])
    <2>1. [lv \in shown |-> cell(lv).total] = [lv \in levels |-> a(lv).total]
      BY <1>6
    <2> QED
      BY <2>1
  <1>10. times = {a(lv).seconds : lv \in {l \in levels : a(l).passed > 0}}
    BY <1>6
  <1>11. ASSUME times # {} PROVE Summary[c].seconds \in Min(times)..Max(times)
    <2>1. times \in SUBSET Nat /\ times \in SUBSET Int
      BY <1>2, <1>10
    <2>2. IsFiniteSet(times)
      <3> DEFINE some == {l \in levels : a(l).passed > 0}
                 g == [lv \in some |-> a(lv).seconds]
      <3>1. IsFiniteSet(some)
        BY <1>3, FS_Subset
      <3>2. g \in Surjection(some, times)
        BY <1>10 DEF Surjection
      <3> QED
        BY <3>1, <3>2, FS_Surjection
    <2> HIDE DEF times
    <2>3. Min(times) \in times /\ \A x \in times : Min(times) <= x
      BY <1>11, <2>1, FirstPlace
    <2>4. Max(times) \in times /\ \A x \in times : x <= Max(times)
      BY <1>11, <2>1, <2>2, Greatest
    <2>5. Min(times) \in Nat /\ Max(times) \in Nat
      BY <2>1, <2>3, <2>4
    <2>6. \A lv \in levels : p[lv] \in Nat /\ v[lv] \in Nat /\ w[lv] = v[lv] * p[lv]
      BY <1>2
    <2>7. \A lv \in levels : p[lv] > 0 => v[lv] \in times
      BY <1>10
    <2>8. \E lv \in levels : p[lv] > 0
      BY <1>10, <1>11
    <2>9. DOMAIN p = levels /\ DOMAIN w = levels
      OBVIOUS
    <2> HIDE DEF p, v, w
    <2>10. \A lv \in levels : p[lv] > 0 => Min(times) <= v[lv] /\ v[lv] <= Max(times)
      BY <2>3, <2>4, <2>7
    <2>11. /\ SumFunctionOnSet(p, levels) # 0
           /\ SumFunctionOnSet(w, levels) \div SumFunctionOnSet(p, levels) \in Min(times)..Max(times)
      BY <1>3, <2>5, <2>6, <2>8, <2>10, WeightedMean
    <2>12. SumFunction(p) = SumFunctionOnSet(p, levels) /\ SumFunction(w) = SumFunctionOnSet(w, levels)
      BY <2>9 DEF SumFunction
    <2> QED
      BY <1>4, <2>11, <2>12
  <1>12. ASSUME metrics # {} PROVE Summary[c].inserts \in Min(metrics)..Max(metrics)
    <2>1. /\ DOMAIN n = measured /\ measured # {} /\ \A lv \in measured : n[lv] \in metrics
      BY <1>7, <1>12
    <2>2. \A lv \in measured : n[lv] \in Nat
      BY <1>2
    <2>21. \A lv \in measured : a(lv).inserts \in Nat
      BY <1>2
    <2> HIDE DEF metrics
    <2>3. metrics \in SUBSET Nat /\ metrics \in SUBSET Int
      BY <1>7, <2>21
    <2>4. IsFiniteSet(metrics)
      <3> DEFINE g == [lv \in measured |-> a(lv).inserts]
      <3>1. g \in Surjection(measured, metrics)
        BY <1>7 DEF Surjection
      <3> QED
        BY <1>3, <3>1, FS_Surjection
    <2> HIDE DEF measured, n
    <2>5. Min(metrics) \in metrics /\ \A x \in metrics : Min(metrics) <= x
      BY <1>12, <2>3, FirstPlace
    <2>6. Max(metrics) \in metrics /\ \A x \in metrics : x <= Max(metrics)
      BY <1>12, <2>3, <2>4, Greatest
    <2>7. Min(metrics) \in Int /\ Max(metrics) \in Int
      BY <2>3, <2>5, <2>6
    <2>8. \A lv \in measured : n[lv] \in Int /\ Min(metrics) <= n[lv] /\ n[lv] <= Max(metrics)
      BY <2>1, <2>2, <2>5, <2>6
    <2>9. Mean(n) \in Int /\ Min(metrics) <= Mean(n) /\ Mean(n) <= Max(metrics)
      BY <1>3, <2>1, <2>7, <2>8, MeanOf
    <2> QED
      BY <1>4, <2>1, <2>7, <2>9
  <1> HIDE DEF times, metrics
  <1>13. /\ Summary[c].passed = SumFunction([lv \in shown |-> cell(lv).passed])
         /\ Summary[c].attempted = SumFunction([lv \in shown |-> cell(lv).total])
    BY <1>4, <1>5, <1>8, <1>9
  <1> QED
    BY <1>11, <1>12, <1>13 DEF times, metrics, shown, cell

\* Whatever levels the builds have run, with whatever results: averaging hides
\* no failure, and the summary is that of the tables.
THEOREM SpecComparisonIsFair == ComparisonSpec => []ComparisonIsFair
  <1>1. ComparisonInv => SummaryIsTheTable
    BY SummaryOfColumn, Zenon DEF SummaryIsTheTable
  <1>2. ComparisonInv => ComparisonIsFair
    BY <1>1, HidesNothing DEF ComparisonIsFair
  <1> QED
    BY <1>2, ComparisonInvariant, PTL

-----------------------------------------------------------------------------
(***************************************************************************)
(* The campaign and its reports.  Batches do not overlap: what is sent in  *)
(* one is over before the next begins.                                     *)
(***************************************************************************)
SessionRecord == [client : Client, at : Nat, status : {0, 201, 500}, ms : Nat, first : BOOLEAN]
RowRecord == [level : Nat, passed : Nat, since : Nat, until : Nat, total : Int]
ClientRecord ==
    [state : {"new", "script", "creating", "passed", "failed", "retried"},
     start : Nat \cup {Never}, end : Nat \cup {Never}]

CampaignTypeOK ==
    /\ batchOf \in [Client -> Nat] /\ batch \in Nat /\ second \in Nat
    /\ phase \in {"idle", "first tries", "retries", "over"}
    /\ client \in [Client -> ClientRecord]
    /\ sessions \in Seq(SessionRecord)
    /\ rows \in Seq(RowRecord)

HasStarted(c) == client[c].start # Never

\* A container goes through its first try in its batch, while that one is tried.
TriesInItsBatch ==
    /\ phase = "first tries" => batch # 0
    /\ \A c \in Client :
        /\ client[c].start <= second /\ client[c].end <= second
        /\ HasStarted(c) => batchOf[c] \in 1..batch
        /\ client[c].state = "new" => ~HasStarted(c) /\ client[c].end = Never
        /\ client[c].state \in {"script", "creating"} =>
              /\ HasStarted(c) /\ client[c].end = Never
              /\ phase = "first tries" /\ batchOf[c] = batch
        /\ client[c].state \in {"passed", "failed", "retried"} =>
              HasStarted(c) /\ client[c].start <= client[c].end

\* A batch is over before the next one starts.
BatchesApart ==
    \A c, d \in Client :
        /\ HasStarted(c) /\ HasStarted(d) /\ batchOf[c] < batchOf[d] => client[c].end < client[d].start
        /\ HasStarted(c) /\ batchOf[c] < batch /\ phase = "first tries" => client[c].end < second

\* Before and after the first tries of a batch are the sessions of others, and after
\* them its retries.
Apart == {s \in SessionRecord :
    /\ HasStarted(s.client)
    /\ s.at <= second /\ (s.status # 0 => s.at + s.ms <= second)
    /\ s.first => client[s.client].start <= s.at /\ client[s.client].state \notin {"new", "script"}
    /\ phase = "first tries" /\ batchOf[s.client] = batch => s.first
    /\ phase = "first tries" /\ batchOf[s.client] # batch => s.at < second
    /\ \A d \in Client : HasStarted(d) =>
          /\ batchOf[s.client] < batchOf[d] => s.at < client[d].start
          /\ ~s.first /\ batchOf[d] <= batchOf[s.client] => client[d].end < s.at}

SessionsApart == \A i \in DOMAIN sessions : sessions[i] \in Apart

\* Of its first try a container has one session, and whoever passed was answered.
FirstTries ==
    /\ \A i, j \in DOMAIN sessions :
         sessions[i].first /\ sessions[j].first /\ sessions[i].client = sessions[j].client => i = j
    /\ \A c \in Client : client[c].state \notin {"new", "script"} =>
         \E i \in DOMAIN sessions : sessions[i].client = c /\ sessions[i].first
    /\ \A i \in DOMAIN sessions :
         LET s == sessions[i] IN
         s.first /\ client[s.client].state = "passed" =>
            s.status # 0 /\ s.at < client[s.client].end /\ s.at + s.ms <= client[s.client].end

\* A row is that of a batch whose first tries are over.
PassedIn(b) == {c \in InBatch(b) : client[c].state = "passed"}
IsRowOf(row, b) ==
    /\ row.level = Cardinality(InBatch(b)) /\ row.level # 0
    /\ \E c \in PassedIn(b) : client[c].start = row.since
    /\ \E c \in PassedIn(b) : client[c].end = row.until
    /\ \A c \in PassedIn(b) : row.since <= client[c].start /\ client[c].end <= row.until

RowsOfBatches ==
    /\ \A k \in DOMAIN rows : \E b \in 1..batch :
          IsRowOf(rows[k], b) /\ (phase = "first tries" => b < batch)
    /\ \A k, l \in DOMAIN rows : rows[k].since = rows[l].since => k = l

CampaignInv ==
    /\ CampaignTypeOK /\ TriesInItsBatch /\ BatchesApart
    /\ SessionsApart /\ FirstTries /\ RowsOfBatches

LEMMA CampaignBasics ==
    ASSUME CampaignInv
    PROVE  /\ batch \in Nat /\ second \in Nat
           /\ \A c \in Client :
                /\ batchOf[c] \in Nat
                /\ client[c] \in ClientRecord
                /\ client[c].start \in Nat \cup {Never} /\ client[c].end \in Nat \cup {Never}
                /\ client[c].state \in {"new", "script", "creating", "passed", "failed", "retried"}
           /\ Len(sessions) \in Nat /\ DOMAIN sessions = 1..Len(sessions)
           /\ \A i \in 1..Len(sessions) :
                /\ sessions[i] \in SessionRecord
                /\ sessions[i].client \in Client /\ sessions[i].at \in Nat /\ sessions[i].ms \in Nat
                /\ sessions[i].status \in {0, 201, 500} /\ sessions[i].first \in BOOLEAN
           /\ Len(rows) \in Nat /\ DOMAIN rows = 1..Len(rows)
           /\ \A k \in 1..Len(rows) :
                /\ rows[k] \in RowRecord
                /\ rows[k].level \in Nat /\ rows[k].since \in Nat /\ rows[k].until \in Nat
  <1>1. CampaignTypeOK
    BY DEF CampaignInv
  <1>2. \A c \in Client : batchOf[c] \in Nat /\ client[c] \in ClientRecord
    BY <1>1 DEF CampaignTypeOK
  <1>3. \A c \in Client :
                /\ client[c].start \in Nat \cup {Never} /\ client[c].end \in Nat \cup {Never}
                /\ client[c].state \in {"new", "script", "creating", "passed", "failed", "retried"}
    BY <1>2 DEF ClientRecord
  <1>11. sessions \in Seq(SessionRecord) /\ rows \in Seq(RowRecord)
    BY <1>1 DEF CampaignTypeOK
  <1>4. Len(sessions) \in Nat /\ DOMAIN sessions = 1..Len(sessions) /\ \A i \in 1..Len(sessions) : sessions[i] \in SessionRecord
    BY <1>11
  <1>5. \A i \in 1..Len(sessions) :
                /\ sessions[i].client \in Client /\ sessions[i].at \in Nat /\ sessions[i].ms \in Nat
                /\ sessions[i].status \in {0, 201, 500} /\ sessions[i].first \in BOOLEAN
    BY <1>4 DEF SessionRecord
  <1>6. Len(rows) \in Nat /\ DOMAIN rows = 1..Len(rows) /\ \A k \in 1..Len(rows) : rows[k] \in RowRecord
    BY <1>11
  <1>7. \A k \in 1..Len(rows) : rows[k].level \in Nat /\ rows[k].since \in Nat /\ rows[k].until \in Nat
    BY <1>6 DEF RowRecord
  <1> QED
    <2>1. batch \in Nat /\ second \in Nat
      BY <1>1 DEF CampaignTypeOK
    <2> QED
      BY <1>2, <1>3, <1>4, <1>5, <1>6, <1>7, <2>1

LEMMA CampaignBegins == CampaignInit => CampaignInv
  <1> SUFFICES ASSUME CampaignInit PROVE CampaignInv
    OBVIOUS
  <1>1. /\ batchOf \in [Client -> Nat] /\ batch = 0 /\ second = 0 /\ phase = "idle"
        /\ sessions = <<>> /\ rows = <<>>
        /\ client = [c \in Client |-> [state |-> "new", start |-> Never, end |-> Never]]
    BY CampaignAssumption DEF CampaignInit
  <1>2. \A c \in Client : client[c].state = "new" /\ client[c].start = Never /\ client[c].end = Never
    BY <1>1
  <1>3. CampaignTypeOK
    <2>1. [state |-> "new", start |-> Never, end |-> Never] \in ClientRecord
      BY DEF ClientRecord
    <2>2. client \in [Client -> ClientRecord]
      BY <1>1, <2>1
    <2>3. sessions \in Seq(SessionRecord) /\ rows \in Seq(RowRecord)
      BY <1>1
    <2> QED
      BY <1>1, <2>2, <2>3 DEF CampaignTypeOK
  <1>4. TriesInItsBatch
    BY <1>1, <1>2 DEF TriesInItsBatch, HasStarted, Never
  <1>5. BatchesApart
    BY <1>2 DEF BatchesApart, HasStarted
  <1>6. DOMAIN sessions = {} /\ DOMAIN rows = {}
    BY <1>1
  <1>7. SessionsApart /\ RowsOfBatches
    BY <1>6 DEF SessionsApart, RowsOfBatches
  <1>8. FirstTries
    BY <1>2, <1>6 DEF FirstTries
  <1> QED
    BY <1>3, <1>4, <1>5, <1>7, <1>8 DEF CampaignInv

LEMMA StartBatchStep == CampaignInv /\ StartBatch => CampaignInv'
  <1> SUFFICES ASSUME CampaignInv, StartBatch PROVE CampaignInv'
    OBVIOUS
  <1>1. /\ phase = "idle" /\ batch' = batch + 1 /\ phase' = "first tries"
        /\ batchOf' = batchOf /\ second' = second /\ client' = client /\ sessions' = sessions /\ rows' = rows
        /\ \A c \in Client : client[c].end < second
        /\ \A s \in Range(sessions) : s.at < second
    BY DEF StartBatch, AllIsBefore, FirstTriesAreBefore
  <1>0. /\ batch \in Nat /\ second \in Nat /\ DOMAIN sessions = 1..Len(sessions)
        /\ \A i \in 1..Len(sessions) : sessions[i].client \in Client /\ sessions[i].at \in Nat
        /\ \A c \in Client : /\ batchOf[c] \in Nat
                            /\ client[c].start \in Nat \cup {Never} /\ client[c].end \in Nat \cup {Never}
                            /\ client[c].state \in {"new", "script", "creating", "passed", "failed", "retried"}
    BY CampaignBasics
  <1>9. batch \in Nat /\ batch' = batch + 1 /\ phase' = "first tries"
    BY <1>0, <1>1
  <1>2. \A i \in 1..Len(sessions) : sessions[i].at < second
    BY <1>0, <1>1 DEF Range
  <1>3. CampaignTypeOK'
    <2>1. CampaignTypeOK
      BY DEF CampaignInv
    <2>2. batch' \in Nat
      <3>1. batch + 1 \in Nat
        BY <1>0
      <3> QED
        BY <1>9, <3>1
    <2>3. phase' \in {"idle", "first tries", "retries", "over"}
      BY <1>9
    <2> QED
      BY <1>1, <2>1, <2>2, <2>3 DEF CampaignTypeOK
  <1>4. TriesInItsBatch'
    <2>1. TriesInItsBatch
      BY DEF CampaignInv
    <2>2. 1..batch \subseteq 1..batch'
      <3>1. 1..batch \subseteq 1..batch + 1
        BY <1>0
      <3> QED
        BY <1>9, <3>1
    <2>3. \A c \in Client : client[c].state \notin {"script", "creating"}
      BY <1>1, <2>1 DEF TriesInItsBatch
    <2>4. batch' # 0
      <3>1. batch + 1 # 0
        BY <1>0
      <3> QED
        BY <1>1, <3>1
    <2> QED
      BY <1>1, <2>1, <2>2, <2>3, <2>4, Zenon DEF TriesInItsBatch, HasStarted
  <1>5. BatchesApart'
    BY <1>0, <1>1 DEF CampaignInv, BatchesApart, HasStarted
  <1>6. SessionsApart'
    <2>1. SessionsApart /\ TriesInItsBatch
      BY DEF CampaignInv
    <2>2. \A i \in 1..Len(sessions) : batchOf[sessions[i].client] \in 1..batch
      BY <1>0, <2>1 DEF SessionsApart, Apart, TriesInItsBatch
    <2>3. \A i \in 1..Len(sessions) : batchOf[sessions[i].client] # batch + 1
      BY <1>0, <2>2
    <2> QED
      BY <1>0, <1>1, <1>2, <2>1, <2>3 DEF SessionsApart, Apart, HasStarted
  <1>7. FirstTries'
    BY <1>1 DEF CampaignInv, FirstTries
  <1>8. RowsOfBatches'
    <2>1. \A row, b : IsRowOf(row, b)' <=> IsRowOf(row, b)
      BY <1>1 DEF IsRowOf, PassedIn, InBatch
    <2>2. RowsOfBatches
      BY DEF CampaignInv
    <2>3. \A b \in 1..batch : b \in 1..batch + 1 /\ b < batch + 1
      BY <1>0
    <2> QED
      BY <1>1, <2>1, <2>2, <2>3 DEF RowsOfBatches
  <1> QED
    BY <1>3, <1>4, <1>5, <1>6, <1>7, <1>8 DEF CampaignInv

LEMMA Clocks ==
    /\ Nat \cup {Never} \subseteq Int
    /\ \A x \in Nat : \A y \in Nat \cup {Never} : x <= y => y \in Nat
    /\ \A x, y \in Int : ~ (x <= y /\ y < x)
  <1>1. Never \in Int
    BY DEF Never
  <1>2. ASSUME NEW x \in Nat, NEW y \in Nat \cup {Never}, x <= y PROVE y \in Nat
    <2>1. CASE y = Never
      <3>1. ~ (x <= Never)
        BY DEF Never
      <3> QED
        BY <1>2, <2>1, <3>1
    <2> QED
      BY <2>1
  <1>3. \A x, y \in Int : ~ (x <= y /\ y < x)
    OBVIOUS
  <1> QED
    BY <1>1, <1>2, <1>3

LEMMA UpTo ==
    /\ \A m \in Nat : IsFiniteSet(0..m) /\ \A n \in Nat : n <= m => n \in 0..m
    /\ Nat \subseteq Int /\ \A m, n \in Nat : m - n \in Int
  BY FS_Interval

LEMMA NotBelowItself == \A n \in Nat : ~ (n < n)
  OBVIOUS

LEMMA RowStays ==
    ASSUME NEW row, NEW b, IsRowOf(row, b), batchOf' = batchOf,
           \A c \in Client : batchOf[c] = b =>
              /\ client'[c].state = "passed" <=> client[c].state = "passed"
              /\ client[c].state = "passed" => client'[c] = client[c]
    PROVE  IsRowOf(row, b)'
  <1>1. InBatch(b)' = InBatch(b)
    BY DEF InBatch
  <1>2. PassedIn(b)' = PassedIn(b) /\ \A c \in PassedIn(b) : client'[c] = client[c]
    BY DEF PassedIn, InBatch
  <1> QED
    BY <1>1, <1>2 DEF IsRowOf

\* The rows stay when no row is written, and nothing passes but in the batch whose
\* first tries are under way.
LEMMA RowsStay ==
    ASSUME RowsOfBatches, batch \in Nat, rows' = rows, batch' = batch, batchOf' = batchOf,
           phase' = "first tries" => phase = "first tries",
           \A c \in Client : ~ (phase = "first tries" /\ batchOf[c] = batch) =>
              /\ client'[c].state = "passed" <=> client[c].state = "passed"
              /\ client[c].state = "passed" => client'[c] = client[c]
    PROVE  RowsOfBatches'
  <1>1. ASSUME NEW k \in DOMAIN rows
        PROVE  \E b \in 1..batch : IsRowOf(rows[k], b)' /\ (phase' = "first tries" => b < batch)
    <2>1. PICK b \in 1..batch : IsRowOf(rows[k], b) /\ (phase = "first tries" => b < batch)
      BY DEF RowsOfBatches
    <2>2. phase = "first tries" => b # batch
      BY <2>1, NotBelowItself
    <2>3. \A c \in Client : batchOf[c] = b =>
              /\ client'[c].state = "passed" <=> client[c].state = "passed"
              /\ client[c].state = "passed" => client'[c] = client[c]
      BY <2>2
    <2>4. IsRowOf(rows[k], b)'
      <3> DEFINE row == rows[k]
      <3>1. row' = row
        OBVIOUS
      <3>2. ASSUME NEW r, r = row PROVE IsRowOf(r, b)'
        <4>1. IsRowOf(r, b)
          BY <2>1, <3>2
        <4> QED
          BY <2>3, <4>1, RowStays
      <3> QED
        BY <3>2 DEF IsRowOf, PassedIn, InBatch
    <2> QED
      BY <2>1, <2>4
  <1> QED
    BY <1>1 DEF RowsOfBatches

LEMMA EndPhaseStep == CampaignInv /\ (EndBatch \/ EndCampaign) => CampaignInv'
  <1> SUFFICES ASSUME CampaignInv, EndBatch \/ EndCampaign PROVE CampaignInv'
    OBVIOUS
  <1>1. /\ phase # "first tries" /\ phase' \in {"idle", "over"}
        /\ batchOf' = batchOf /\ batch' = batch /\ second' = second
        /\ client' = client /\ sessions' = sessions /\ rows' = rows
    BY DEF EndBatch, EndCampaign
  <1>2. phase' # "first tries"
    BY <1>1
  <1>3. CampaignTypeOK'
    <2>1. CampaignTypeOK
      BY DEF CampaignInv
    <2>2. phase' \in {"idle", "first tries", "retries", "over"}
      BY <1>1
    <2> QED
      BY <1>1, <2>1, <2>2 DEF CampaignTypeOK
  <1>4. TriesInItsBatch'
    BY <1>1 DEF CampaignInv, TriesInItsBatch, HasStarted
  <1>5. BatchesApart'
    BY <1>1, <1>2 DEF CampaignInv, BatchesApart, HasStarted
  <1>6. SessionsApart'
    BY <1>1, <1>2 DEF CampaignInv, SessionsApart, Apart, HasStarted
  <1>7. FirstTries'
    BY <1>1 DEF CampaignInv, FirstTries
  <1>8. RowsOfBatches'
    <2>1. RowsOfBatches /\ batch \in Nat
      BY CampaignBasics DEF CampaignInv
    <2> QED
      BY <1>1, <1>2, <2>1, RowsStay
  <1> QED
    BY <1>3, <1>4, <1>5, <1>6, <1>7, <1>8 DEF CampaignInv

LEMMA CampaignSecondStep == CampaignInv /\ CampaignSecond => CampaignInv'
  <1> SUFFICES ASSUME CampaignInv, CampaignSecond PROVE CampaignInv'
    OBVIOUS
  <1>1. /\ second' = second + 1 /\ phase' = phase
        /\ batchOf' = batchOf /\ batch' = batch
        /\ client' = client /\ sessions' = sessions /\ rows' = rows
    BY DEF CampaignSecond
  <1>0. /\ batch \in Nat /\ second \in Nat /\ DOMAIN sessions = 1..Len(sessions)
        /\ \A i \in 1..Len(sessions) : sessions[i].client \in Client /\ sessions[i].at \in Nat /\ sessions[i].ms \in Nat
        /\ \A c \in Client : client[c].start \in Nat \cup {Never} /\ client[c].end \in Nat \cup {Never}
    BY CampaignBasics
  <1>2. \A n \in Nat \cup {Never} : (n <= second => n <= second') /\ (n < second => n < second')
    <2>1. \A n \in Nat \cup {Never} : (n <= second => n <= second + 1) /\ (n < second => n < second + 1)
      BY <1>0 DEF Never
    <2> QED
      BY <1>1, <2>1
  <1>3. CampaignTypeOK'
    <2>1. CampaignTypeOK
      BY DEF CampaignInv
    <2>2. second' \in Nat
      <3>1. second + 1 \in Nat
        BY <1>0
      <3> QED
        BY <1>1, <3>1
    <2> QED
      BY <1>1, <2>1, <2>2 DEF CampaignTypeOK
  <1>4. TriesInItsBatch'
    <2>1. TriesInItsBatch
      BY DEF CampaignInv
    <2> QED
      BY <1>0, <1>1, <1>2, <2>1, Zenon DEF TriesInItsBatch, HasStarted
  <1>5. BatchesApart'
    <2>1. BatchesApart
      BY DEF CampaignInv
    <2> QED
      BY <1>0, <1>1, <1>2, <2>1, Zenon DEF BatchesApart, HasStarted
  <1>6. SessionsApart'
    <2>1. SessionsApart
      BY DEF CampaignInv
    <2>2. \A i \in 1..Len(sessions) : sessions[i].at + sessions[i].ms \in Nat
      BY <1>0
    <2> QED
      BY <1>0, <1>1, <1>2, <2>1, <2>2, Zenon DEF SessionsApart, Apart, HasStarted
  <1>7. FirstTries'
    BY <1>1 DEF CampaignInv, FirstTries
  <1>8. RowsOfBatches'
    <2>1. RowsOfBatches /\ batch \in Nat
      BY CampaignBasics DEF CampaignInv
    <2> QED
      BY <1>1, <2>1, RowsStay
  <1> QED
    BY <1>3, <1>4, <1>5, <1>6, <1>7, <1>8 DEF CampaignInv

LEMMA StartClientStep == ASSUME CampaignInv, NEW c \in Client, StartClient(c) PROVE CampaignInv'
  <1>1. /\ phase = "first tries" /\ batchOf[c] = batch /\ client[c].state = "new"
        /\ phase' = phase /\ second' = second /\ batchOf' = batchOf /\ batch' = batch
        /\ sessions' = sessions /\ rows' = rows
    BY DEF StartClient
  <1>20. client' = [client EXCEPT ![c].state = "script", ![c].start = second]
    BY DEF StartClient
  <1>0. /\ batch \in Nat /\ second \in Nat /\ DOMAIN sessions = 1..Len(sessions)
        /\ \A i \in 1..Len(sessions) : sessions[i].client \in Client /\ sessions[i].at \in Nat /\ sessions[i].ms \in Nat
        /\ \A d \in Client : /\ batchOf[d] \in Nat
                            /\ client[d].start \in Nat \cup {Never} /\ client[d].end \in Nat \cup {Never}
    BY CampaignBasics
  <1>2. /\ CampaignTypeOK /\ TriesInItsBatch /\ BatchesApart /\ SessionsApart /\ FirstTries /\ RowsOfBatches
        /\ client \in [Client -> ClientRecord]
    BY DEF CampaignInv, CampaignTypeOK
  <1>3. /\ client'[c].state = "script" /\ client'[c].start = second /\ client'[c].end = client[c].end
        /\ \A d \in Client : d # c => client'[d] = client[d]
    BY <1>2, <1>20 DEF ClientRecord
  <1>4. client[c].end = Never /\ ~HasStarted(c) /\ second # Never
    <2>1. second # Never
      BY <1>0 DEF Never
    <2> QED
      BY <1>1, <1>2, <2>1 DEF TriesInItsBatch
  <1>5. \A d \in Client : HasStarted(d)' <=> d = c \/ HasStarted(d)
    BY <1>3, <1>4 DEF HasStarted
  <1>6. \A d \in Client : HasStarted(d) => d # c /\ batchOf[d] \in 1..batch
    BY <1>2, <1>4 DEF TriesInItsBatch
  <1>7. batch \in 1..batch
    <2>1. batch # 0
      BY <1>1, <1>2 DEF TriesInItsBatch
    <2> QED
      BY <1>0, <2>1
  <1>8. CampaignTypeOK'
    <2>1. client' \in [Client -> ClientRecord]
      <3>1. [client[c] EXCEPT !.state = "script", !.start = second] \in ClientRecord
        BY <1>0, <1>2 DEF ClientRecord
      <3>2. client' = [client EXCEPT ![c] = [client[c] EXCEPT !.state = "script", !.start = second]]
        BY <1>20
      <3> QED
        BY <1>2, <3>1, <3>2
    <2> QED
      BY <1>1, <1>2, <2>1 DEF CampaignTypeOK
  <1>9. TriesInItsBatch'
    <2>1. \A d \in Client : d # c =>
        /\ client'[d].start <= second' /\ client'[d].end <= second'
        /\ HasStarted(d)' => batchOf'[d] \in 1..batch'
        /\ client'[d].state = "new" => ~HasStarted(d)' /\ client'[d].end = Never
        /\ client'[d].state \in {"script", "creating"} =>
              /\ HasStarted(d)' /\ client'[d].end = Never
              /\ phase' = "first tries" /\ batchOf'[d] = batch'
        /\ client'[d].state \in {"passed", "failed", "retried"} =>
              HasStarted(d)' /\ client'[d].start <= client'[d].end
      BY <1>1, <1>2, <1>3, <1>5, Zenon DEF TriesInItsBatch
    <2>2. client'[c].start <= second' /\ client'[c].end <= second'
      <3>1. second <= second /\ Never <= second
        BY <1>0 DEF Never
      <3> QED
        BY <1>1, <1>3, <1>4, <3>1
    <2>3. /\ HasStarted(c)' /\ batchOf'[c] \in 1..batch' /\ client'[c].end = Never
          /\ phase' = "first tries" /\ batchOf'[c] = batch' /\ client'[c].state = "script"
      BY <1>1, <1>3, <1>4, <1>5, <1>7
    <2>4. \A d \in Client : d # c \/ d = c
      OBVIOUS
    <2>5. phase' = "first tries" => batch' # 0
      BY <1>1, <1>2 DEF TriesInItsBatch
    <2>6. client'[c].state = "new" => FALSE
      BY <2>3
    <2>7. client'[c].state \in {"passed", "failed", "retried"} => FALSE
      BY <2>3
    <2> QED
      BY <2>1, <2>2, <2>3, <2>5, <2>6, <2>7 DEF TriesInItsBatch
  <1>10. BatchesApart'
    <2>1. \A d \in Client : HasStarted(d) => ~ (batchOf[c] < batchOf[d])
      <3>1. \A n \in 1..batch : ~ (batch < n)
        BY <1>0
      <3> QED
        BY <1>1, <1>6, <3>1
    <2>2. \A d \in Client : HasStarted(d) /\ batchOf[d] < batchOf[c] => client[d].end < second
      BY <1>1, <1>2 DEF BatchesApart
    <2>3. ~ (batchOf[c] < batchOf[c]) /\ ~ (batchOf[c] < batch)
      <3>1. ~ (batch < batch)
        BY <1>0
      <3> QED
        BY <1>1, <3>1
    <2> QED
      BY <1>1, <1>2, <1>3, <1>5, <2>1, <2>2, <2>3, Zenon DEF BatchesApart
  <1>11. SessionsApart'
    <2>1. \A i \in 1..Len(sessions) : HasStarted(sessions[i].client) /\ sessions[i].client # c
      BY <1>0, <1>2, <1>4 DEF SessionsApart, Apart
    <2>2. \A i \in 1..Len(sessions) : batchOf[sessions[i].client] < batchOf[c] => sessions[i].at < second
      <3>1. \A i \in 1..Len(sessions) : batchOf[sessions[i].client] < batchOf[c] => batchOf[sessions[i].client] # batch
        <4>1. ~ (batch < batch)
          BY <1>0
        <4> QED
          BY <1>1, <4>1
      <3> QED
        BY <1>0, <1>1, <1>2, <3>1 DEF SessionsApart, Apart
    <2>3. \A i \in 1..Len(sessions) : batchOf[c] <= batchOf[sessions[i].client] => sessions[i].first
      <3>1. \A i \in 1..Len(sessions) : batchOf[sessions[i].client] \in 1..batch
        BY <1>0, <1>6, <2>1
      <3>2. \A i \in 1..Len(sessions) : batchOf[c] <= batchOf[sessions[i].client] => batchOf[sessions[i].client] = batch
        <4>1. \A n \in 1..batch : batch <= n => n = batch
          BY <1>0
        <4> QED
          BY <1>1, <3>1, <4>1
      <3> QED
        BY <1>0, <1>1, <1>2, <3>2 DEF SessionsApart, Apart
    <2> QED
      BY <1>0, <1>1, <1>2, <1>3, <1>5, <2>1, <2>2, <2>3, Zenon DEF SessionsApart, Apart
  <1>12. FirstTries'
    <2>1. \A d \in Client : client'[d].state \notin {"new", "script"} => client[d].state \notin {"new", "script"}
      BY <1>3
    <2>2. \A i \in 1..Len(sessions) : sessions[i].client # c
      BY <1>0, <1>2, <1>4 DEF SessionsApart, Apart
    <2>3. \A i \in 1..Len(sessions) : sessions[i].client \in Client /\ client'[sessions[i].client] = client[sessions[i].client]
      BY <1>0, <1>3, <2>2
    <2> QED
      BY <1>0, <1>1, <1>2, <2>1, <2>3, Zenon DEF FirstTries
  <1>13. RowsOfBatches'
    BY <1>0, <1>1, <1>2, <1>3, RowsStay
  <1> QED
    BY <1>8, <1>9, <1>10, <1>11, <1>12, <1>13 DEF CampaignInv

LEMMA StateChanges ==
    ASSUME client \in [Client -> ClientRecord], NEW c \in Client,
           NEW st \in {"new", "script", "creating", "passed", "failed", "retried"},
           client' = [client EXCEPT ![c].state = st]
    PROVE  /\ client' \in [Client -> ClientRecord] /\ client'[c].state = st
           /\ \A d \in Client : /\ client'[d].start = client[d].start /\ client'[d].end = client[d].end
                                /\ HasStarted(d)' <=> HasStarted(d)
                                /\ d # c => client'[d] = client[d]
  <1>1. [client[c] EXCEPT !.state = st] \in ClientRecord
    BY DEF ClientRecord
  <1>2. client' = [client EXCEPT ![c] = [client[c] EXCEPT !.state = st]]
    OBVIOUS
  <1>3. client' \in [Client -> ClientRecord]
    BY <1>1, <1>2
  <1>4. client'[c].state = st /\ client'[c].start = client[c].start /\ client'[c].end = client[c].end
    BY <1>2 DEF ClientRecord
  <1>5. \A d \in Client : d # c => client'[d] = client[d]
    BY <1>2
  <1>6. \A d \in Client : client'[d].start = client[d].start /\ client'[d].end = client[d].end
    BY <1>4, <1>5
  <1> QED
    BY <1>3, <1>4, <1>5, <1>6 DEF HasStarted

LEMMA SessionAppended ==
    ASSUME sessions \in Seq(SessionRecord), NEW e \in SessionRecord, sessions' = Append(sessions, e)
    PROVE  /\ sessions' \in Seq(SessionRecord)
           /\ DOMAIN sessions' = DOMAIN sessions \cup {Len(sessions) + 1} /\ sessions'[Len(sessions) + 1] = e
           /\ \A i \in DOMAIN sessions : sessions'[i] = sessions[i] /\ i # Len(sessions) + 1
  OBVIOUS

LEMMA CampaignCreateStep == ASSUME CampaignInv, NEW c \in Client, Create(c) PROVE CampaignInv'
  <1> DEFINE last == Len(sessions) + 1
             new == NewSession(c, TRUE)
  <1>1. /\ client[c].state = "script"
        /\ phase' = phase /\ second' = second /\ batchOf' = batchOf /\ batch' = batch /\ rows' = rows
    BY DEF Create
  <1>20. client' = [client EXCEPT ![c].state = "creating"] /\ sessions' = Append(sessions, new)
    BY DEF Create
  <1>0. /\ batch \in Nat /\ second \in Nat
        /\ \A i \in DOMAIN sessions : sessions[i].client \in Client
    BY CampaignBasics
  <1>2. /\ CampaignTypeOK /\ TriesInItsBatch /\ BatchesApart /\ SessionsApart /\ FirstTries /\ RowsOfBatches
        /\ client \in [Client -> ClientRecord] /\ sessions \in Seq(SessionRecord)
    BY DEF CampaignInv, CampaignTypeOK
  <1>3. /\ client' \in [Client -> ClientRecord] /\ client'[c].state = "creating"
        /\ \A d \in Client : /\ client'[d].start = client[d].start /\ client'[d].end = client[d].end
                             /\ HasStarted(d)' <=> HasStarted(d)
                             /\ d # c => client'[d] = client[d]
    BY <1>2, <1>20, StateChanges
  <1>4. /\ new \in SessionRecord /\ new.client = c /\ new.at = second /\ new.status = 0 /\ new.first
        /\ new.ms = 0
    BY <1>0 DEF NewSession, SessionRecord
  <1> HIDE DEF new
  <1>5. /\ sessions' \in Seq(SessionRecord)
        /\ DOMAIN sessions' = DOMAIN sessions \cup {last} /\ sessions'[last] = new
        /\ \A i \in DOMAIN sessions : sessions'[i] = sessions[i] /\ i # last
    BY <1>2, <1>4, <1>20, SessionAppended
  <1> HIDE DEF last
  <1>6. /\ HasStarted(c) /\ client[c].end = Never /\ phase = "first tries" /\ batchOf[c] = batch
        /\ client[c].start <= second
    BY <1>1, <1>2 DEF TriesInItsBatch
  <1>7. \A d \in Client : HasStarted(d) => ~ (batchOf[c] < batchOf[d])
    <2>1. \A d \in Client : HasStarted(d) => batchOf[d] \in 1..batch
      BY <1>2 DEF TriesInItsBatch
    <2>2. \A n \in 1..batch : ~ (batch < n)
      BY <1>0
    <2> QED
      BY <1>6, <2>1, <2>2
  <1>8. CampaignTypeOK'
    BY <1>1, <1>2, <1>3, <1>5 DEF CampaignTypeOK
  <1>9. TriesInItsBatch'
    <2>1. \A d \in Client : d # c =>
        /\ client'[d].start <= second' /\ client'[d].end <= second'
        /\ HasStarted(d)' => batchOf'[d] \in 1..batch'
        /\ client'[d].state = "new" => ~HasStarted(d)' /\ client'[d].end = Never
        /\ client'[d].state \in {"script", "creating"} =>
              /\ HasStarted(d)' /\ client'[d].end = Never
              /\ phase' = "first tries" /\ batchOf'[d] = batch'
        /\ client'[d].state \in {"passed", "failed", "retried"} =>
              HasStarted(d)' /\ client'[d].start <= client'[d].end
      BY <1>1, <1>2, <1>3, Zenon DEF TriesInItsBatch
    <2>2. /\ client'[c].start <= second' /\ client'[c].end <= second'
          /\ HasStarted(c)' /\ batchOf'[c] \in 1..batch' /\ client'[c].end = Never
          /\ phase' = "first tries" /\ batchOf'[c] = batch' /\ client'[c].state = "creating"
      BY <1>1, <1>2, <1>3, <1>6, Zenon DEF TriesInItsBatch
    <2>5. phase' = "first tries" => batch' # 0
      BY <1>1, <1>2 DEF TriesInItsBatch
    <2>6. client'[c].state = "new" => FALSE
      BY <2>2
    <2>7. client'[c].state \in {"passed", "failed", "retried"} => FALSE
      BY <2>2
    <2> QED
      BY <2>1, <2>2, <2>5, <2>6, <2>7 DEF TriesInItsBatch
  <1>10. BatchesApart'
    BY <1>1, <1>2, <1>3, Zenon DEF BatchesApart
  <1>11. SessionsApart'
    <2>1. ASSUME NEW s \in Apart PROVE s \in Apart'
      <3>1. s.client \in Client
        BY DEF Apart, SessionRecord
      <3>2. client[s.client].state \notin {"new", "script"} => client'[s.client].state \notin {"new", "script"}
        BY <1>3, <3>1
      <3> QED
        BY <1>1, <1>3, <3>1, <3>2, Zenon DEF Apart
    <2>2. new \in Apart'
      <3>1. second <= second
        BY <1>0
      <3>2. client'[c].state \notin {"new", "script"}
        BY <1>3
      <3>3. \A s \in SessionRecord : s.client = c /\ s.at = second /\ s.status = 0 /\ s.first => s \in Apart'
        BY <1>1, <1>3, <1>6, <1>7, <3>1, <3>2, Zenon DEF Apart
      <3> QED
        BY <1>4, <3>3
    <2>3. \A i \in DOMAIN sessions' : i \in DOMAIN sessions \/ i = last
      BY <1>5
    <2> QED
      BY <1>2, <1>5, <2>1, <2>2, <2>3, Zenon DEF SessionsApart
  <1>12. FirstTries'
    <2>1. \A i \in DOMAIN sessions : sessions[i].first => sessions[i].client # c
      BY <1>1, <1>2 DEF SessionsApart, Apart
    <2>0. \A i \in DOMAIN sessions' : (i \in DOMAIN sessions /\ sessions'[i] = sessions[i])
                                    \/ (i = last /\ sessions'[i].client = c /\ sessions'[i].first)
      <3>1. sessions'[last].client = c /\ sessions'[last].first
        BY <1>4, <1>5, Zenon
      <3>2. \A i \in DOMAIN sessions' : (i \in DOMAIN sessions /\ sessions'[i] = sessions[i]) \/ i = last
        BY <1>5
      <3>3. ASSUME NEW i \in DOMAIN sessions', i = last PROVE sessions'[i].client = c /\ sessions'[i].first
        BY <3>1, <3>3, Zenon
      <3> QED
        BY <3>2, <3>3, Zenon
    <2>2. \A i, j \in DOMAIN sessions' :
         sessions'[i].first /\ sessions'[j].first /\ sessions'[i].client = sessions'[j].client => i = j
      BY <1>2, <2>0, <2>1 DEF FirstTries
    <2>3. ASSUME NEW d \in Client, client'[d].state \notin {"new", "script"}
          PROVE  \E i \in DOMAIN sessions' : sessions'[i].client = d /\ sessions'[i].first
      <3>1. CASE d = c
        BY <1>4, <1>5, <3>1
      <3>2. CASE d # c
        <4>1. client[d].state \notin {"new", "script"}
          BY <1>3, <2>3, <3>2
        <4>2. PICK i \in DOMAIN sessions : sessions[i].client = d /\ sessions[i].first
          BY <1>2, <4>1 DEF FirstTries
        <4> QED
          BY <1>5, <4>2
      <3> QED
        BY <3>1, <3>2
    <2>4. ASSUME NEW i \in DOMAIN sessions', sessions'[i].first, client'[sessions'[i].client].state = "passed"
          PROVE  /\ sessions'[i].status # 0 /\ sessions'[i].at < client'[sessions'[i].client].end
                 /\ sessions'[i].at + sessions'[i].ms <= client'[sessions'[i].client].end
      <3>1. sessions'[i].client # c
        BY <1>3, <2>4
      <3>2. i \in DOMAIN sessions /\ sessions'[i] = sessions[i]
        BY <2>0, <3>1
      <3>3. sessions[i].client \in Client /\ client'[sessions[i].client] = client[sessions[i].client]
        BY <1>0, <1>3, <3>1, <3>2
      <3> QED
        BY <1>2, <2>4, <3>2, <3>3 DEF FirstTries
    <2> QED
      BY <2>2, <2>3, <2>4 DEF FirstTries
  <1>13. RowsOfBatches'
    BY <1>0, <1>1, <1>2, <1>3, <1>6, RowsStay
  <1> QED
    BY <1>8, <1>9, <1>10, <1>11, <1>12, <1>13 DEF CampaignInv

LEMMA CreatedStep == ASSUME CampaignInv, NEW i \in DOMAIN sessions, Created(i) PROVE CampaignInv'
  <1>1. PICK status \in {201, 500} :
          sessions' = [sessions EXCEPT ![i].status = status, ![i].ms = second - sessions[i].at]
    BY DEF Created
  <1>2. /\ sessions[i].status = 0
        /\ phase' = phase /\ second' = second /\ batchOf' = batchOf /\ batch' = batch /\ rows' = rows
        /\ client' = client
    BY DEF Created
  <1>3. /\ CampaignTypeOK /\ TriesInItsBatch /\ BatchesApart /\ SessionsApart /\ FirstTries /\ RowsOfBatches
        /\ sessions \in Seq(SessionRecord)
    BY DEF CampaignInv, CampaignTypeOK
  <1>0. /\ batch \in Nat /\ second \in Nat /\ DOMAIN sessions = 1..Len(sessions)
        /\ \A j \in DOMAIN sessions : sessions[j] \in SessionRecord
        /\ sessions[i].client \in Client /\ sessions[i].at \in Nat /\ sessions[i].first \in BOOLEAN
    BY CampaignBasics
  <1>4. sessions[i] \in Apart
    BY <1>3 DEF SessionsApart
  <1>5. second - sessions[i].at \in Nat /\ sessions[i].at + (second - sessions[i].at) = second
    <2>1. sessions[i].at <= second
      BY <1>4 DEF Apart
    <2> QED
      BY <1>0, <2>1
  <1> DEFINE new == [sessions[i] EXCEPT !.status = status, !.ms = second - sessions[i].at]
  <1>6. /\ new \in SessionRecord /\ new.client = sessions[i].client /\ new.at = sessions[i].at
        /\ new.status = status /\ new.ms = second - sessions[i].at /\ new.first = sessions[i].first
    <2>1. status \in {0, 201, 500} /\ sessions[i] \in SessionRecord
      BY <1>0
    <2> QED
      BY <1>5, <2>1, Zenon DEF SessionRecord
  <1>7. sessions' = [sessions EXCEPT ![i] = new]
    BY <1>1
  <1> HIDE DEF new
  <1>8. /\ sessions' \in Seq(SessionRecord) /\ DOMAIN sessions' = DOMAIN sessions /\ sessions'[i] = new
        /\ \A j \in DOMAIN sessions : j # i => sessions'[j] = sessions[j]
    BY <1>3, <1>6, <1>7
  <1>9. CampaignTypeOK'
    BY <1>2, <1>3, <1>8 DEF CampaignTypeOK
  <1>14. /\ phase' = phase /\ second' = second /\ batchOf' = batchOf /\ batch' = batch /\ client' = client
    BY <1>2
  <1>10. TriesInItsBatch' /\ BatchesApart'
    <2>1. TriesInItsBatch'
      BY <1>14 DEF CampaignInv, TriesInItsBatch, HasStarted
    <2>2. BatchesApart'
      <3>1. BatchesApart
        BY <1>3
      <3>2. \A d \in Client : /\ client'[d].start = client[d].start /\ client'[d].end = client[d].end
                               /\ HasStarted(d)' <=> HasStarted(d)
        BY <1>14 DEF HasStarted
      <3> QED
        BY <1>14, <3>1, <3>2, Zenon DEF BatchesApart
    <2> QED
      BY <2>1, <2>2
  <1>11. SessionsApart'
    <2>1. Apart' = Apart
      BY <1>2 DEF Apart, HasStarted
    <2>2. new.at + new.ms <= second
      <3>1. second <= second
        BY <1>0
      <3> QED
        BY <1>5, <1>6, <3>1
    <2>3. \A s \in SessionRecord : s.client = sessions[i].client /\ s.at = sessions[i].at
             /\ s.first = sessions[i].first /\ s.at + s.ms <= second => s \in Apart
      BY <1>4, Zenon DEF Apart
    <2>4. new \in Apart
      BY <1>6, <2>2, <2>3
    <2> QED
      BY <1>3, <1>8, <2>1, <2>4 DEF SessionsApart
  <1>12. FirstTries'
    <2>1. ~ (sessions[i].first /\ client[sessions[i].client].state = "passed")
      BY <1>2, <1>3 DEF FirstTries
    <2>2. \A j \in DOMAIN sessions' : j \in DOMAIN sessions /\ sessions'[j].client = sessions[j].client
                                      /\ (sessions'[j].first <=> sessions[j].first)
      BY <1>6, <1>8
    <2>3. \A j \in DOMAIN sessions : sessions[j].first /\ client[sessions[j].client].state = "passed"
             => sessions'[j] = sessions[j]
      BY <1>8, <2>1
    <2>4. \A j, k \in DOMAIN sessions' :
         sessions'[j].first /\ sessions'[k].first /\ sessions'[j].client = sessions'[k].client => j = k
      BY <1>3, <2>2 DEF FirstTries
    <2>5. \A c \in Client : client'[c].state \notin {"new", "script"} =>
             \E j \in DOMAIN sessions' : sessions'[j].client = c /\ sessions'[j].first
      BY <1>2, <1>3, <1>8, <2>2 DEF FirstTries
    <2>6. ASSUME NEW j \in DOMAIN sessions', sessions'[j].first, client'[sessions'[j].client].state = "passed"
          PROVE  /\ sessions'[j].status # 0 /\ sessions'[j].at < client'[sessions'[j].client].end
                 /\ sessions'[j].at + sessions'[j].ms <= client'[sessions'[j].client].end
      <3>1. j \in DOMAIN sessions /\ sessions[j].first /\ client[sessions[j].client].state = "passed"
        BY <1>2, <1>8, <2>2, <2>6, Zenon
      <3>2. sessions'[j] = sessions[j]
        BY <2>3, <3>1
      <3> QED
        BY <1>2, <1>3, <3>1, <3>2 DEF FirstTries
    <2> QED
      BY <2>4, <2>5, <2>6 DEF FirstTries
  <1>13. RowsOfBatches'
    BY <1>0, <1>2, <1>3, RowsStay
  <1> QED
    BY <1>9, <1>10, <1>11, <1>12, <1>13 DEF CampaignInv

\* A first try ends, in the batch it began in.
LEMMA TryEnds ==
    ASSUME CampaignInv, NEW c \in Client, NEW st \in {"passed", "failed"}, client[c].state = "creating",
           client' = [client EXCEPT ![c].state = st, ![c].end = second],
           UNCHANGED <<batchOf, batch, phase, second, sessions, rows>>,
           st = "passed" => \A i \in DOMAIN sessions :
              sessions[i].client = c /\ sessions[i].first =>
                 sessions[i].status # 0 /\ sessions[i].at < second
    PROVE  CampaignInv'
  <1>1. /\ phase' = phase /\ second' = second /\ batchOf' = batchOf /\ batch' = batch
        /\ sessions' = sessions /\ rows' = rows
    OBVIOUS
  <1>20. client' = [client EXCEPT ![c].state = st, ![c].end = second]
    OBVIOUS
  <1>0. /\ batch \in Nat /\ second \in Nat
        /\ \A i \in DOMAIN sessions : sessions[i].client \in Client /\ sessions[i] \in SessionRecord
    BY CampaignBasics
  <1>2. /\ CampaignTypeOK /\ TriesInItsBatch /\ BatchesApart /\ SessionsApart /\ FirstTries /\ RowsOfBatches
        /\ client \in [Client -> ClientRecord]
    BY DEF CampaignInv, CampaignTypeOK
  <1>21. st \in {"new", "script", "creating", "passed", "failed", "retried"}
    OBVIOUS
  <1>3. /\ client' \in [Client -> ClientRecord]
        /\ client'[c].state = st /\ client'[c].start = client[c].start /\ client'[c].end = second
        /\ \A d \in Client : d # c => client'[d] = client[d]
    <2>1. [client[c] EXCEPT !.state = st, !.end = second] \in ClientRecord
      BY <1>0, <1>2, <1>21, Zenon DEF ClientRecord
    <2>2. client' = [client EXCEPT ![c] = [client[c] EXCEPT !.state = st, !.end = second]]
      BY <1>20
    <2> QED
      BY <1>2, <2>1, <2>2 DEF ClientRecord
  <1>5. \A d \in Client : client'[d].start = client[d].start /\ (HasStarted(d)' <=> HasStarted(d))
    BY <1>3 DEF HasStarted
  <1>6. /\ HasStarted(c) /\ phase = "first tries" /\ batchOf[c] = batch /\ client[c].start <= second
    BY <1>2 DEF TriesInItsBatch
  <1>7. \A d \in Client : HasStarted(d) => ~ (batchOf[c] < batchOf[d])
    <2>1. \A d \in Client : HasStarted(d) => batchOf[d] \in 1..batch
      BY <1>2 DEF TriesInItsBatch
    <2>2. \A n \in 1..batch : ~ (batch < n)
      BY <1>0
    <2> QED
      BY <1>6, <2>1, <2>2
  <1>8. CampaignTypeOK'
    BY <1>1, <1>2, <1>3 DEF CampaignTypeOK
  <1>9. TriesInItsBatch'
    <2>1. \A d \in Client : d # c =>
        /\ client'[d].start <= second' /\ client'[d].end <= second'
        /\ HasStarted(d)' => batchOf'[d] \in 1..batch'
        /\ client'[d].state = "new" => ~HasStarted(d)' /\ client'[d].end = Never
        /\ client'[d].state \in {"script", "creating"} =>
              /\ HasStarted(d)' /\ client'[d].end = Never
              /\ phase' = "first tries" /\ batchOf'[d] = batch'
        /\ client'[d].state \in {"passed", "failed", "retried"} =>
              HasStarted(d)' /\ client'[d].start <= client'[d].end
      BY <1>1, <1>2, <1>3, <1>5, Zenon DEF TriesInItsBatch
    <2>2. second <= second
      BY <1>0
    <2>3. /\ client'[c].start <= second' /\ client'[c].end <= second'
          /\ HasStarted(c)' /\ batchOf'[c] \in 1..batch' /\ client'[c].start <= client'[c].end
      BY <1>1, <1>2, <1>3, <1>5, <1>6, <2>2, Zenon DEF TriesInItsBatch
    <2>5. phase' = "first tries" => batch' # 0
      BY <1>1, <1>2 DEF TriesInItsBatch
    <2>6. client'[c].state # "new" /\ client'[c].state \notin {"script", "creating"}
      BY <1>3
    <2> QED
      BY <2>1, <2>3, <2>5, <2>6 DEF TriesInItsBatch
  <1>10. BatchesApart'
    <2>1. ~ (batchOf[c] < batch)
      BY <1>0, <1>6, NotBelowItself
    <2> QED
      BY <1>1, <1>2, <1>3, <1>5, <1>7, <2>1, Zenon DEF BatchesApart
  <1>11. SessionsApart'
    <2>1. ASSUME NEW s \in Apart PROVE s \in Apart'
      <3>1. s.client \in Client /\ s \in SessionRecord /\ HasStarted(s.client)
        BY DEF Apart, SessionRecord
      <3>2. client'[c].state \notin {"new", "script"}
        BY <1>3
      <3>3. client[s.client].state \notin {"new", "script"} => client'[s.client].state \notin {"new", "script"}
        BY <1>3, <3>1, <3>2
      <3>4. ~s.first => ~ (batchOf[c] <= batchOf[s.client])
        <4>1. batchOf[s.client] \in 1..batch
          BY <1>2, <3>1 DEF TriesInItsBatch
        <4>2. \A n \in 1..batch : batch <= n => n = batch
          BY <1>0
        <4>3. ~s.first => batchOf[s.client] # batch
          BY <1>6 DEF Apart
        <4> QED
          BY <1>6, <4>1, <4>2, <4>3
      <3> QED
        BY <1>1, <1>3, <1>5, <3>1, <3>3, <3>4, Zenon DEF Apart
    <2> QED
      BY <1>1, <1>2, <2>1, Zenon DEF SessionsApart
  <1>12. FirstTries'
    <2>3. \A d \in Client : client'[d].state \notin {"new", "script"} => client[d].state \notin {"new", "script"}
      BY <1>3
    <2>4. ASSUME NEW i \in DOMAIN sessions, sessions[i].first, client'[sessions[i].client].state = "passed"
          PROVE  /\ sessions[i].status # 0 /\ sessions[i].at < client'[sessions[i].client].end
                 /\ sessions[i].at + sessions[i].ms <= client'[sessions[i].client].end
      <3>1. CASE sessions[i].client = c
        <4>1. sessions[i].status # 0 /\ sessions[i].at < second
          BY <1>3, <2>4, <3>1
        <4>2. sessions[i].at + sessions[i].ms <= second
          BY <1>2, <4>1 DEF SessionsApart, Apart
        <4> QED
          BY <1>3, <3>1, <4>1, <4>2
      <3>2. CASE sessions[i].client # c
        BY <1>0, <1>2, <1>3, <2>4, <3>2 DEF FirstTries
      <3> QED
        BY <3>1, <3>2
    <2> QED
      BY <1>1, <1>2, <2>3, <2>4, Zenon DEF FirstTries
  <1>13. RowsOfBatches'
    BY <1>0, <1>1, <1>2, <1>3, <1>6, RowsStay
  <1> QED
    BY <1>8, <1>9, <1>10, <1>11, <1>12, <1>13 DEF CampaignInv

\* The session of its first try is the one the container looks at.
LEMMA MineIsTheFirst ==
    ASSUME CampaignInv, NEW c \in Client, client[c].state \notin {"new", "script"}
    PROVE  \E i \in DOMAIN sessions :
              /\ sessions[i].client = c /\ sessions[i].first /\ Mine(c) = sessions[i]
              /\ \A j \in DOMAIN sessions : sessions[j].client = c /\ sessions[j].first => j = i
  <1>1. FirstTries
    BY DEF CampaignInv
  <1>2. PICK i \in DOMAIN sessions : sessions[i].client = c /\ sessions[i].first
    BY <1>1 DEF FirstTries
  <1>3. \A j \in DOMAIN sessions : sessions[j].client = c /\ sessions[j].first => j = i
    BY <1>1, <1>2 DEF FirstTries
  <1>4. sessions[i] \in Range(sessions)
    BY <1>2 DEF Range
  <1>5. \A s \in Range(sessions) : s.client = c /\ s.first => s = sessions[i]
    BY <1>3 DEF Range
  <1>6. Mine(c) = sessions[i]
    BY <1>2, <1>4, <1>5 DEF Mine
  <1> QED
    BY <1>2, <1>3, <1>6

LEMMA PassStep == ASSUME CampaignInv, NEW c \in Client, Pass(c) PROVE CampaignInv'
  <1>1. /\ client[c].state = "creating" /\ Mine(c).status = 201 /\ Mine(c).at < second
        /\ client' = [client EXCEPT ![c].state = "passed", ![c].end = second]
        /\ UNCHANGED <<batchOf, batch, phase, second, sessions, rows>>
    BY DEF Pass
  <1>2. PICK i \in DOMAIN sessions :
              /\ sessions[i].client = c /\ sessions[i].first /\ Mine(c) = sessions[i]
              /\ \A j \in DOMAIN sessions : sessions[j].client = c /\ sessions[j].first => j = i
    BY <1>1, MineIsTheFirst
  <1>3. \A j \in DOMAIN sessions : sessions[j].client = c /\ sessions[j].first =>
            sessions[j].status # 0 /\ sessions[j].at < second
    BY <1>1, <1>2
  <1> QED
    BY <1>1, <1>3, TryEnds, Zenon

LEMMA FailStep == ASSUME CampaignInv, NEW c \in Client, Fail(c) PROVE CampaignInv'
  <1>1. /\ client[c].state = "creating"
        /\ client' = [client EXCEPT ![c].state = "failed", ![c].end = second]
        /\ UNCHANGED <<batchOf, batch, phase, second, sessions, rows>>
    BY DEF Fail
  <1> QED
    BY <1>1, TryEnds, Zenon

LEMMA RetryStep == ASSUME CampaignInv, NEW c \in Client, Retry(c) PROVE CampaignInv'
  <1> DEFINE last == Len(sessions) + 1
             new == [NewSession(c, FALSE) EXCEPT !.status = 201]
  <1>1. /\ phase = "retries" /\ batchOf[c] = batch /\ client[c].state = "failed"
        /\ \A d \in Client : client[d].end < second
        /\ phase' = phase /\ second' = second /\ batchOf' = batchOf /\ batch' = batch /\ rows' = rows
    BY DEF Retry, FirstTriesAreBefore
  <1>20. client' = [client EXCEPT ![c].state = "retried"] /\ sessions' = Append(sessions, new)
    BY DEF Retry
  <1>0. /\ batch \in Nat /\ second \in Nat
        /\ \A i \in DOMAIN sessions : sessions[i].client \in Client
    BY CampaignBasics
  <1>2. /\ CampaignTypeOK /\ TriesInItsBatch /\ BatchesApart /\ SessionsApart /\ FirstTries /\ RowsOfBatches
        /\ client \in [Client -> ClientRecord] /\ sessions \in Seq(SessionRecord)
    BY DEF CampaignInv, CampaignTypeOK
  <1>3. /\ client' \in [Client -> ClientRecord] /\ client'[c].state = "retried"
        /\ \A d \in Client : /\ client'[d].start = client[d].start /\ client'[d].end = client[d].end
                             /\ HasStarted(d)' <=> HasStarted(d)
                             /\ d # c => client'[d] = client[d]
    BY <1>2, <1>20, StateChanges
  <1>4. /\ new \in SessionRecord /\ new.client = c /\ new.at = second /\ new.status = 201 /\ ~new.first
        /\ new.ms = 0
    BY <1>0 DEF NewSession, SessionRecord
  <1> HIDE DEF new
  <1>5. /\ sessions' \in Seq(SessionRecord)
        /\ DOMAIN sessions' = DOMAIN sessions \cup {last} /\ sessions'[last] = new
        /\ \A i \in DOMAIN sessions : sessions'[i] = sessions[i] /\ i # last
    BY <1>2, <1>4, <1>20, SessionAppended
  <1> HIDE DEF last
  <1>6. HasStarted(c) /\ client[c].start <= client[c].end /\ client[c].end <= second /\ client[c].start <= second
    BY <1>1, <1>2 DEF TriesInItsBatch
  <1>7. \A d \in Client : HasStarted(d) => ~ (batchOf[c] < batchOf[d])
    <2>1. \A d \in Client : HasStarted(d) => batchOf[d] \in 1..batch
      BY <1>2 DEF TriesInItsBatch
    <2>2. \A n \in 1..batch : ~ (batch < n)
      BY <1>0
    <2> QED
      BY <1>1, <2>1, <2>2
  <1>8. CampaignTypeOK'
    BY <1>1, <1>2, <1>3, <1>5 DEF CampaignTypeOK
  <1>9. TriesInItsBatch'
    <2>1. \A d \in Client : d # c =>
        /\ client'[d].start <= second' /\ client'[d].end <= second'
        /\ HasStarted(d)' => batchOf'[d] \in 1..batch'
        /\ client'[d].state = "new" => ~HasStarted(d)' /\ client'[d].end = Never
        /\ client'[d].state \in {"script", "creating"} =>
              /\ HasStarted(d)' /\ client'[d].end = Never
              /\ phase' = "first tries" /\ batchOf'[d] = batch'
        /\ client'[d].state \in {"passed", "failed", "retried"} =>
              HasStarted(d)' /\ client'[d].start <= client'[d].end
      BY <1>1, <1>2, <1>3, Zenon DEF TriesInItsBatch
    <2>2. /\ client'[c].start <= second' /\ client'[c].end <= second'
          /\ HasStarted(c)' /\ batchOf'[c] \in 1..batch' /\ client'[c].start <= client'[c].end
      BY <1>1, <1>2, <1>3, <1>6, Zenon DEF TriesInItsBatch
    <2>5. phase' = "first tries" => batch' # 0
      BY <1>1, <1>2 DEF TriesInItsBatch
    <2>6. client'[c].state # "new" /\ client'[c].state \notin {"script", "creating"}
      BY <1>3
    <2> QED
      BY <2>1, <2>2, <2>5, <2>6 DEF TriesInItsBatch
  <1>10. BatchesApart'
    BY <1>1, <1>2, <1>3, Zenon DEF BatchesApart
  <1>11. SessionsApart'
    <2>1. ASSUME NEW s \in Apart PROVE s \in Apart'
      <3>1. s.client \in Client
        BY DEF Apart, SessionRecord
      <3>2. client[s.client].state \notin {"new", "script"} => client'[s.client].state \notin {"new", "script"}
        BY <1>3, <3>1
      <3> QED
        BY <1>1, <1>3, <3>1, <3>2, Zenon DEF Apart
    <2>2. new \in Apart'
      <3>1. second <= second /\ second + 0 = second
        BY <1>0
      <3>2. phase' # "first tries"
        BY <1>1
      <3>3. \A s \in SessionRecord : s.client = c /\ s.at = second /\ s.ms = 0 /\ ~s.first => s \in Apart'
        BY <1>1, <1>3, <1>6, <1>7, <3>1, <3>2, Zenon DEF Apart
      <3> QED
        BY <1>4, <3>3
    <2>3. \A i \in DOMAIN sessions' : i \in DOMAIN sessions \/ i = last
      BY <1>5
    <2> QED
      BY <1>2, <1>5, <2>1, <2>2, <2>3, Zenon DEF SessionsApart
  <1>12. FirstTries'
    <2>1. \A i \in DOMAIN sessions' : sessions'[i].first => i \in DOMAIN sessions /\ sessions'[i] = sessions[i]
      BY <1>4, <1>5
    <2>2. \A d \in Client : client'[d].state \notin {"new", "script"} => client[d].state \notin {"new", "script"}
      BY <1>1, <1>3
    <2>3. \A d \in Client : client'[d].state = "passed" => client'[d] = client[d]
      BY <1>3
    <2>4. \A i, j \in DOMAIN sessions' :
         sessions'[i].first /\ sessions'[j].first /\ sessions'[i].client = sessions'[j].client => i = j
      BY <1>2, <2>1 DEF FirstTries
    <2>5. ASSUME NEW d \in Client, client'[d].state \notin {"new", "script"}
          PROVE  \E i \in DOMAIN sessions' : sessions'[i].client = d /\ sessions'[i].first
      <3>1. PICK i \in DOMAIN sessions : sessions[i].client = d /\ sessions[i].first
        BY <1>2, <2>2, <2>5 DEF FirstTries
      <3> QED
        BY <1>5, <3>1
    <2>6. ASSUME NEW i \in DOMAIN sessions', sessions'[i].first, client'[sessions'[i].client].state = "passed"
          PROVE  /\ sessions'[i].status # 0 /\ sessions'[i].at < client'[sessions'[i].client].end
                 /\ sessions'[i].at + sessions'[i].ms <= client'[sessions'[i].client].end
      <3>1. i \in DOMAIN sessions /\ sessions'[i] = sessions[i] /\ sessions[i].first
        BY <2>1, <2>6
      <3>2. sessions[i].client \in Client
        BY <1>0, <3>1
      <3>3. client'[sessions[i].client] = client[sessions[i].client]
        BY <2>3, <2>6, <3>1, <3>2
      <3> QED
        BY <1>2, <2>6, <3>1, <3>3 DEF FirstTries
    <2> QED
      BY <2>4, <2>5, <2>6 DEF FirstTries
  <1>13. RowsOfBatches'
    <2>1. \A d \in Client : /\ client'[d].state = "passed" <=> client[d].state = "passed"
                            /\ client[d].state = "passed" => client'[d] = client[d]
      BY <1>1, <1>3
    <2> QED
      BY <1>0, <1>1, <1>2, <2>1, RowsStay
  <1> QED
    BY <1>8, <1>9, <1>10, <1>11, <1>12, <1>13 DEF CampaignInv

\* The row of a batch bounds what passed in it, and begins like no other.
LEMMA RowOfTheBatch ==
    ASSUME CampaignInv, phase = "first tries", NEW passed, passed = PassedIn(batch), passed # {}
    PROVE  /\ RegAverage(passed) \in RowRecord
           /\ IsRowOf(RegAverage(passed), batch)
           /\ \A k \in DOMAIN rows : rows[k].since # RegAverage(passed).since
  <1> DEFINE row == RegAverage(passed)
             starts == {client[c].start : c \in passed}
             ends == {client[c].end : c \in passed}
             times == [c \in passed |-> client[c].end - client[c].start]
  <1>0. /\ batch \in Nat /\ second \in Nat /\ \A c \in Client : client[c] \in ClientRecord
        /\ \A c \in Client : /\ client[c].start \in Nat \cup {Never} /\ client[c].end \in Nat \cup {Never}
                            /\ batchOf[c] \in Nat
    BY CampaignBasics
  <1>15. second \in Nat
    BY <1>0
  <1>1. TriesInItsBatch /\ BatchesApart /\ RowsOfBatches
    BY DEF CampaignInv
  <1>2. passed \subseteq InBatch(batch) /\ passed \subseteq Client /\ InBatch(batch) \subseteq Client
    BY DEF PassedIn, InBatch
  <1>3. IsFiniteSet(passed) /\ IsFiniteSet(InBatch(batch)) /\ IsFiniteSet(Client)
    BY <1>2, CampaignAssumption, FS_Subset
  <1>4. \A c \in passed : HasStarted(c) /\ client[c].start <= client[c].end /\ batchOf[c] = batch
    BY <1>1 DEF PassedIn, InBatch, TriesInItsBatch
  <1>5. \A c \in passed : client[c].start \in Nat /\ client[c].end \in Nat
    <2>1. \A c \in passed : client[c].start \in Nat
      BY <1>0, <1>2, <1>4 DEF HasStarted
    <2> QED
      BY <1>0, <1>2, <1>4, <2>1, Clocks
  <1>6. Min(starts) \in starts /\ \A n \in starts : Min(starts) <= n
    <2>1. starts \in SUBSET Nat /\ starts # {}
      BY <1>5
    <2> QED
      BY <2>1, FirstPlace
  <1>7. Max(ends) \in ends /\ \A n \in ends : n <= Max(ends)
    <2>1. ends \in SUBSET Nat /\ ends # {}
      BY <1>5
    <2>2. IsFiniteSet(ends)
      <3>1. ends \subseteq 0..second
        <4>1. \A c \in passed : client[c].end \in Nat /\ client[c].end <= second
          BY <1>1, <1>2, <1>5 DEF TriesInItsBatch
        <4>2. \A n \in Nat : n <= second => n \in 0..second
          BY <1>15, UpTo
        <4> QED
          BY <4>1, <4>2
      <3>2. IsFiniteSet(0..second)
        BY <1>15, UpTo
      <3> QED
        BY <3>1, <3>2, FS_Subset
    <2> HIDE DEF ends
    <2>3. ends \in SUBSET Int
      BY <2>1, UpTo, Zenon
    <2> QED
      BY <2>1, <2>2, <2>3, Greatest
  <1>8. Cardinality(InBatch(batch)) \in Nat /\ Cardinality(passed) \in Nat
    BY <1>3, FS_CardinalityType
  <1>9. Cardinality(InBatch(batch)) # 0
    BY <1>2, <1>3, FS_EmptySet
  <1>10. SumFunction(times) \in Int
    <2>1. ASSUME NEW c \in passed PROVE times[c] \in Int
      <3>1. client[c].end - client[c].start \in Int
        <4>1. client[c].end \in Nat /\ client[c].start \in Nat
          BY <1>5
        <4> QED
          BY <4>1, UpTo, Zenon
      <3>2. times[c] = client[c].end - client[c].start
        OBVIOUS
      <3> QED
        BY <3>1, <3>2
    <2>2. DOMAIN times = passed
      OBVIOUS
    <2> HIDE DEF times
    <2> QED
      BY <1>3, <2>1, <2>2, SumInt DEF SumFunction
  <1>11. /\ row.level = Cardinality(InBatch(batch)) /\ row.since = Min(starts) /\ row.until = Max(ends)
         /\ row = [level |-> Cardinality(InBatch(batch)), passed |-> Cardinality(passed),
                   since |-> Min(starts), until |-> Max(ends), total |-> SumFunction(times)]
    BY DEF RegAverage
  <1>12. row \in RowRecord
    <2>1. Min(starts) \in Nat /\ Max(ends) \in Nat
      BY <1>5, <1>6, <1>7
    <2>2. \A l, p, n, m \in Nat : \A t \in Int :
             [level |-> l, passed |-> p, since |-> n, until |-> m, total |-> t] \in RowRecord
      BY DEF RowRecord
    <2> HIDE DEF starts, ends, times, row
    <2> QED
      BY <1>8, <1>10, <1>11, <2>1, <2>2, Zenon
  <1>13. IsRowOf(row, batch)
    <2>1. \E c \in passed : client[c].start = row.since
      BY <1>6, <1>11
    <2>2. \E c \in passed : client[c].end = row.until
      BY <1>7, <1>11
    <2>3. \A c \in passed : row.since <= client[c].start /\ client[c].end <= row.until
      BY <1>6, <1>7, <1>11
    <2> HIDE DEF row
    <2> QED
      BY <1>9, <1>11, <2>1, <2>2, <2>3 DEF IsRowOf
  <1>14. ASSUME NEW k \in DOMAIN rows, rows[k].since = row.since PROVE FALSE
    <2>1. PICK b \in 1..batch : IsRowOf(rows[k], b) /\ b < batch
      BY <1>1 DEF RowsOfBatches
    <2>2. PICK d \in PassedIn(b) : client[d].start = rows[k].since
      BY <2>1 DEF IsRowOf
    <2>3. PICK c \in passed : client[c].start = row.since
      BY <1>6, <1>11
    <2>4. d \in Client /\ batchOf[d] = b /\ HasStarted(d) /\ client[d].start <= client[d].end
      BY <1>1 DEF PassedIn, InBatch, TriesInItsBatch
    <2>5. client[d].end < client[c].start
      <3>1. batchOf[d] < batchOf[c]
        BY <1>4, <2>1, <2>4
      <3> QED
        BY <1>1, <1>2, <1>4, <2>4, <3>1 DEF BatchesApart
    <2>6. client[d].start = client[c].start
      BY <1>14, <2>2, <2>3
    <2>7. client[d].start \in Int /\ client[d].end \in Int
      BY <1>0, <2>4, Clocks
    <2> HIDE DEF row
    <2> QED
      BY <2>4, <2>5, <2>6, <2>7, Clocks
  <1> QED
    BY <1>12, <1>13, <1>14

LEMMA EndFirstTriesStep == CampaignInv /\ EndFirstTries => CampaignInv'
  <1> SUFFICES ASSUME CampaignInv, EndFirstTries PROVE CampaignInv'
    OBVIOUS
  <1> DEFINE passed == {c \in InBatch(batch) : client[c].state = "passed"}
             row == RegAverage(passed)
  <1>1. /\ phase = "first tries" /\ phase' = "retries"
        /\ \A c \in InBatch(batch) : client[c].state \in {"passed", "failed"}
        /\ batchOf' = batchOf /\ batch' = batch /\ second' = second
        /\ client' = client /\ sessions' = sessions
    BY DEF EndFirstTries
  <1>2. rows' = IF passed = {} THEN rows ELSE Append(rows, row)
    BY DEF EndFirstTries
  <1>3. phase' # "first tries"
    BY <1>1
  <1>4. /\ CampaignTypeOK /\ TriesInItsBatch /\ RowsOfBatches /\ rows \in Seq(RowRecord)
    BY DEF CampaignInv, CampaignTypeOK
  <1>0. batch \in Nat /\ batch # 0
    BY <1>1, <1>4, CampaignBasics DEF TriesInItsBatch
  <1>5. passed # {} => /\ row \in RowRecord /\ IsRowOf(row, batch)
                       /\ \A k \in DOMAIN rows : rows[k].since # row.since
    <2>1. passed = PassedIn(batch)
      BY DEF PassedIn
    <2> HIDE DEF passed
    <2> QED
      BY <1>1, <2>1, RowOfTheBatch
  <1> HIDE DEF row
  <1>6. rows' \in Seq(RowRecord)
    BY <1>2, <1>4, <1>5
  <1>7. CampaignTypeOK'
    <2>1. phase' \in {"idle", "first tries", "retries", "over"}
      BY <1>1
    <2> QED
      BY <1>1, <1>4, <1>6, <2>1 DEF CampaignTypeOK
  <1>8. TriesInItsBatch'
    <2>1. \A c \in Client : client[c].state \notin {"script", "creating"}
      BY <1>1, <1>4 DEF TriesInItsBatch, InBatch
    <2> QED
      BY <1>1, <1>3, <1>4, <2>1 DEF TriesInItsBatch, HasStarted
  <1>9. BatchesApart'
    BY <1>1, <1>3 DEF CampaignInv, BatchesApart, HasStarted
  <1>10. SessionsApart'
    BY <1>1, <1>3 DEF CampaignInv, SessionsApart, Apart, HasStarted
  <1>11. FirstTries'
    BY <1>1 DEF CampaignInv, FirstTries
  <1>12. RowsOfBatches'
    <2>1. CASE passed = {}
      BY <1>0, <1>1, <1>2, <1>3, <1>4, <2>1, RowsStay
    <2>2. CASE passed # {}
      <3> DEFINE last == Len(rows) + 1
      <3>1. /\ DOMAIN rows' = DOMAIN rows \cup {last} /\ rows'[last] = row
            /\ \A k \in DOMAIN rows : rows'[k] = rows[k] /\ k # last
        BY <1>2, <1>4, <1>5, <2>2
      <3> HIDE DEF last, passed
      <3>2. \A r, b : IsRowOf(r, b)' <=> IsRowOf(r, b)
        BY <1>1 DEF IsRowOf, PassedIn, InBatch
      <3>3. \A k \in DOMAIN rows' : \E b \in 1..batch : IsRowOf(rows'[k], b)
        <4>1. \A k \in DOMAIN rows : \E b \in 1..batch : IsRowOf(rows'[k], b)
          BY <1>4, <3>1 DEF RowsOfBatches
        <4>2. batch \in 1..batch /\ IsRowOf(rows'[last], batch)
          BY <1>0, <1>5, <2>2, <3>1
        <4> QED
          BY <3>1, <4>1, <4>2
      <3>4. \A k \in DOMAIN rows' : \E b \in 1..batch' : IsRowOf(rows[k], b)'
        <4>1. ASSUME NEW k \in DOMAIN rows', NEW r, r = rows'[k], NEW b, IsRowOf(r, b) PROVE IsRowOf(rows[k], b)'
          BY <1>1, <4>1 DEF IsRowOf, PassedIn, InBatch
        <4> QED
          BY <1>1, <3>3, <4>1
      <3>5. \A k, l \in DOMAIN rows' : rows'[k].since = rows'[l].since => k = l
        <4>1. \A k \in DOMAIN rows : rows'[k].since # rows'[last].since
          BY <1>5, <2>2, <3>1
        <4>2. \A k, l \in DOMAIN rows : rows'[k].since = rows'[l].since => k = l
          BY <1>4, <3>1 DEF RowsOfBatches
        <4> QED
          BY <3>1, <4>1, <4>2
      <3> QED
        BY <1>3, <3>4, <3>5 DEF RowsOfBatches
    <2> QED
      BY <2>1, <2>2
  <1> QED
    BY <1>7, <1>8, <1>9, <1>10, <1>11, <1>12 DEF CampaignInv

\* hammer.sh waits for a batch and its retries before it begins the next: for any
\* containers, plans of batches and threads of the server, first tries, retries,
\* sessions and the rows of measurement.log of two batches lie apart in time.
THEOREM CampaignInvariant == CampaignSpec => []CampaignInv
  <1>1. ASSUME CampaignInv, [CampaignNext]_campaignVars PROVE CampaignInv'
    <2>1. CASE UNCHANGED campaignVars
      <3>1. /\ batchOf' = batchOf /\ batch' = batch /\ phase' = phase /\ second' = second
            /\ client' = client /\ sessions' = sessions /\ rows' = rows
        BY <2>1 DEF campaignVars
      <3>2. CampaignTypeOK'
        BY <1>1, <3>1 DEF CampaignInv, CampaignTypeOK
      <3>3. TriesInItsBatch'
        BY <1>1, <3>1 DEF CampaignInv, TriesInItsBatch, HasStarted
      <3>4. BatchesApart'
        BY <1>1, <3>1 DEF CampaignInv, BatchesApart, HasStarted
      <3>5. SessionsApart'
        BY <1>1, <3>1 DEF CampaignInv, SessionsApart, Apart, HasStarted
      <3>6. FirstTries'
        BY <1>1, <3>1 DEF CampaignInv, FirstTries
      <3>7. RowsOfBatches'
        <4>1. RowsOfBatches /\ batch \in Nat
          BY <1>1, CampaignBasics DEF CampaignInv
        <4> QED
          BY <3>1, <4>1, RowsStay
      <3> QED
        BY <3>2, <3>3, <3>4, <3>5, <3>6, <3>7 DEF CampaignInv
    <2>2. CASE StartBatch \/ EndFirstTries \/ EndBatch \/ EndCampaign \/ CampaignSecond
      BY <1>1, <2>2, StartBatchStep, EndFirstTriesStep, EndPhaseStep, CampaignSecondStep
    <2>3. CASE \E c \in Client : StartClient(c) \/ Create(c) \/ Pass(c) \/ Fail(c) \/ Retry(c)
      BY <1>1, <2>3, StartClientStep, CampaignCreateStep, PassStep, FailStep, RetryStep
    <2>4. CASE \E i \in DOMAIN sessions : Created(i)
      BY <1>1, <2>4, CreatedStep
    <2> QED
      BY <1>1, <2>1, <2>2, <2>3, <2>4 DEF CampaignNext
  <1> QED
    BY <1>1, CampaignBegins, PTL DEF CampaignSpec

-----------------------------------------------------------------------------
LEMMA FirstRowsFacts ==
    ASSUME CampaignInv
    PROVE  /\ IsFiniteSet(FirstRows) /\ IsOrder(FirstRows, ByLevel)
           /\ \A w \in FirstRows : w \in RowRecord /\ \E b \in 1..batch : IsRowOf(w, b)
  <1>1. /\ Len(rows) \in Nat /\ DOMAIN rows = 1..Len(rows) /\ rows \in [1..Len(rows) -> RowRecord]
    <2>1. rows \in Seq(RowRecord)
      BY DEF CampaignInv, CampaignTypeOK
    <2> QED
      BY <2>1
  <1>2. RowsOfBatches
    BY DEF CampaignInv
  <1>3. \A w \in FirstRows : \E j \in 1..Len(rows) :
           w = rows[j] /\ \A k \in 1..(j - 1) : rows[k].level # rows[j].level
    BY <1>1 DEF FirstRows
  <1>4. IsFiniteSet(FirstRows)
    <2> DEFINE all == {rows[j] : j \in 1..Len(rows)}
    <2>1. rows \in Surjection(1..Len(rows), all)
      BY <1>1 DEF Surjection
    <2>2. IsFiniteSet(1..Len(rows))
      BY <1>1, FS_Interval
    <2>3. IsFiniteSet(all)
      BY <2>1, <2>2, FS_Surjection
    <2>4. FirstRows \subseteq all
      BY <1>3
    <2> QED
      BY <2>3, <2>4, FS_Subset
  <1>5. \A w \in FirstRows : w \in RowRecord /\ w.level \in Nat /\ \E b \in 1..batch : IsRowOf(w, b)
    <2>1. \A j \in 1..Len(rows) : rows[j] \in RowRecord /\ rows[j].level \in Nat /\ \E b \in 1..batch : IsRowOf(rows[j], b)
      BY <1>1, <1>2 DEF RowsOfBatches, RowRecord
    <2> QED
      BY <1>3, <2>1
  <1>6. ASSUME NEW v \in FirstRows, NEW w \in FirstRows, v # w PROVE v.level # w.level
    <2>1. PICK i \in 1..Len(rows) : v = rows[i] /\ \A k \in 1..(i - 1) : rows[k].level # rows[i].level
      BY <1>3
    <2>2. PICK j \in 1..Len(rows) : w = rows[j] /\ \A k \in 1..(j - 1) : rows[k].level # rows[j].level
      BY <1>3
    <2>3. i # j
      BY <1>6, <2>1, <2>2
    <2>4. i \in 1..(j - 1) \/ j \in 1..(i - 1)
      BY <1>1, <2>3
    <2> QED
      BY <2>1, <2>2, <2>4
  <1>7. IsOrder(FirstRows, ByLevel)
    <2>1. \A v, w \in FirstRows : <<v, w>> \in ByLevel <=> v.level < w.level
      BY DEF ByLevel
    <2>2. \A v \in FirstRows : ~ (v.level < v.level)
      BY <1>5
    <2>3. \A u, v, w \in FirstRows : u.level < v.level /\ v.level < w.level => u.level < w.level
      BY <1>5
    <2>4. \A v, w \in FirstRows : v = w \/ v.level < w.level \/ w.level < v.level
      BY <1>5, <1>6
    <2> QED
      BY <2>1, <2>2, <2>3, <2>4, Zenon DEF IsOrder
  <1> QED
    BY <1>4, <1>5, <1>7

\* A window is the first row of its level, and the levels differ.
LEMMA WindowFacts ==
    ASSUME CampaignInv
    PROVE  /\ DOMAIN Windows \in SUBSET Nat
           /\ \A i \in DOMAIN Windows :
                /\ Windows[i] \in FirstRows /\ Windows[i] \in RowRecord
                /\ Windows[i].level # 0 /\ \E b \in 1..batch : IsRowOf(Windows[i], b)
           /\ \A i, j \in DOMAIN Windows : Windows[i].level = Windows[j].level => i = j
  <1> DEFINE n == Cardinality(FirstRows)
  <1>1. /\ n \in Nat /\ Windows \in [1..n -> FirstRows]
        /\ \A j, k \in 1..n : j < k <=> <<Windows[j], Windows[k]>> \in ByLevel
    BY FirstRowsFacts, SortedFacts, Zenon DEF Windows
  <1> HIDE DEF n
  <1>2. \A i \in 1..n : /\ Windows[i] \in FirstRows /\ Windows[i] \in RowRecord /\ Windows[i].level \in Nat
                        /\ Windows[i].level # 0 /\ \E b \in 1..batch : IsRowOf(Windows[i], b)
    <2>1. \A w \in FirstRows : w \in RowRecord /\ w.level \in Nat /\ w.level # 0
      BY FirstRowsFacts DEF IsRowOf, RowRecord
    <2> QED
      BY <1>1, <2>1, FirstRowsFacts
  <1>3. ASSUME NEW i \in 1..n, NEW j \in 1..n, Windows[i].level = Windows[j].level PROVE i = j
    <2>1. ~ (Windows[i].level < Windows[j].level) /\ ~ (Windows[j].level < Windows[i].level)
      BY <1>2, <1>3
    <2>2. ~ (i < j) /\ ~ (j < i)
      BY <1>1, <2>1 DEF ByLevel
    <2> QED
      BY <1>1, <2>2
  <1> QED
    BY <1>1, <1>2, <1>3

\* What lies in the window of a batch is a first try of that batch.
LEMMA WindowIsTheBatch ==
    ASSUME CampaignInv, NEW w \in RowRecord, NEW b \in 1..batch, IsRowOf(w, b),
           NEW i \in DOMAIN sessions, InWindow(w, sessions[i].at)
    PROVE  sessions[i].first /\ batchOf[sessions[i].client] = b
  <1> DEFINE s == sessions[i]
  <1>1. TriesInItsBatch /\ BatchesApart /\ SessionsApart
    BY DEF CampaignInv
  <1>0. /\ batch \in Nat /\ s.client \in Client /\ s.at \in Nat /\ s.first \in BOOLEAN /\ s \in Apart
        /\ \A c \in Client : /\ client[c].start \in Nat \cup {Never} /\ client[c].end \in Nat \cup {Never}
                            /\ batchOf[c] \in Nat
    BY <1>1, CampaignBasics DEF SessionsApart
  <1>2. w.since <= s.at /\ s.at <= w.until /\ w.since \in Nat /\ w.until \in Nat
    BY DEF InWindow, RowRecord
  <1> HIDE DEF s
  <1>3. PICK c \in PassedIn(b) : client[c].start = w.since
    BY DEF IsRowOf
  <1>4. PICK d \in PassedIn(b) : client[d].end = w.until
    BY DEF IsRowOf
  <1>5. /\ c \in Client /\ d \in Client /\ batchOf[c] = b /\ batchOf[d] = b
        /\ HasStarted(c) /\ HasStarted(d)
    BY <1>1 DEF PassedIn, InBatch, TriesInItsBatch
  <1>6. HasStarted(s.client) /\ (s.first => client[s.client].start <= s.at)
    BY <1>0 DEF Apart
  <1>7. ~ (batchOf[s.client] < b)
    <2>1. batchOf[s.client] < b => s.at < w.since
      BY <1>0, <1>3, <1>5 DEF Apart
    <2> QED
      BY <1>0, <1>2, <2>1, Clocks, Zenon
  <1>8. b <= batchOf[s.client] => s.first
    <2>1. ~s.first /\ b <= batchOf[s.client] => w.until < s.at
      BY <1>0, <1>4, <1>5 DEF Apart
    <2> QED
      BY <1>0, <1>2, <2>1, Clocks
  <1>9. ~ (b < batchOf[s.client])
    <2> SUFFICES ASSUME b < batchOf[s.client] PROVE FALSE
      OBVIOUS
    <2>1. w.until < client[s.client].start
      BY <1>0, <1>1, <1>4, <1>5, <1>6 DEF BatchesApart
    <2>2. client[s.client].start <= s.at
      <3>1. b <= batchOf[s.client]
        BY <1>0
      <3> QED
        BY <1>6, <1>8, <3>1
    <2>3. client[s.client].start \in Int
      BY <1>0, Clocks
    <2> QED
      BY <1>0, <1>2, <2>1, <2>2, <2>3
  <1>10. batchOf[s.client] \in Nat /\ b \in Nat
    BY <1>0
  <1>11. batchOf[s.client] = b
    BY <1>7, <1>9, <1>10
  <1>12. b <= b
    BY <1>10
  <1> QED
    BY <1>8, <1>11, <1>12 DEF s

LEMMA BatchIsUnique ==
    ASSUME CampaignInv, phase = "over", NEW w \in RowRecord, NEW b \in 1..batch, IsRowOf(w, b)
    PROVE  BatchOf(w) = b
  <1>1. TriesInItsBatch /\ BatchesApart
    BY DEF CampaignInv
  <1>0. /\ batch \in Nat
        /\ \A c \in Client : /\ client[c].start \in Nat \cup {Never} /\ client[c].end \in Nat \cup {Never}
                            /\ client[c].state \in {"new", "script", "creating", "passed", "failed", "retried"}
                            /\ batchOf[c] \in Nat
    BY CampaignBasics
  <1>2. w.since \in Nat /\ w.since # Never
    <2>1. \A n \in Nat : n # Never
      BY DEF Never
    <2> QED
      BY <2>1 DEF RowRecord
  <1>3. PICK c \in PassedIn(b) : client[c].start = w.since
    BY DEF IsRowOf
  <1>4. c \in Client /\ batchOf[c] = b
    BY DEF PassedIn, InBatch
  <1>5. ASSUME NEW k \in 1..batch, NEW d \in InBatch(k), client[d].start = w.since PROVE k = b
    <2>1. d \in Client /\ batchOf[d] = k /\ HasStarted(d) /\ HasStarted(c)
      BY <1>2, <1>3, <1>5 DEF InBatch, HasStarted
    <2>2. \A e \in Client : HasStarted(e) => client[e].start <= client[e].end
      BY <1>0, <1>1 DEF TriesInItsBatch
    <2>3. ~ (k < b)
      <3>1. k < b => client[d].end < w.since
        BY <1>1, <1>3, <1>4, <2>1 DEF BatchesApart
      <3>2. w.since <= client[d].end /\ client[d].end \in Int /\ w.since \in Int
        BY <1>0, <1>2, <1>5, <2>1, <2>2, Clocks
      <3> QED
        BY <3>1, <3>2
    <2>4. ~ (b < k)
      <3>1. b < k => client[c].end < w.since
        BY <1>1, <1>4, <1>5, <2>1 DEF BatchesApart
      <3>2. w.since <= client[c].end /\ client[c].end \in Int /\ w.since \in Int
        BY <1>0, <1>2, <1>3, <1>4, <2>1, <2>2, Clocks
      <3> QED
        BY <3>1, <3>2
    <2> QED
      BY <1>0, <2>3, <2>4
  <1>6. c \in InBatch(b)
    BY DEF PassedIn
  <1> QED
    BY <1>3, <1>5, <1>6 DEF BatchOf

\* A level is given only to what is in its window.
LEMMA LevelIsTheWindow ==
    ASSUME CampaignInv, NEW i \in DOMAIN Windows, NEW s
    PROVE  /\ AssignConcurrency(s, Windows) = Windows[i].level => InWindow(Windows[i], s.at)
           /\ AssignConcurrency(s, <<Windows[i]>>) = Windows[i].level => InWindow(Windows[i], s.at)
  <1>1. ASSUME NEW ws, NEW w, w.level # 0, DOMAIN ws \in SUBSET Nat,
               \A j \in DOMAIN ws : ws[j].level = w.level => ws[j] = w,
               AssignConcurrency(s, ws) = w.level
        PROVE  InWindow(w, s.at)
    <2> DEFINE around == {j \in DOMAIN ws : InWindow(ws[j], s.at)}
    <2>1. around # {} /\ ws[Min(around)].level = w.level
      BY <1>1 DEF AssignConcurrency
    <2>2. Min(around) \in around
      <3>1. around \in SUBSET Nat
        BY <1>1
      <3> HIDE DEF around
      <3> QED
        BY <2>1, <3>1, FirstPlace
    <2> QED
      BY <1>1, <2>1, <2>2
  <1>2. Windows[i].level # 0 /\ DOMAIN Windows \in SUBSET Nat
        /\ \A j \in DOMAIN Windows : Windows[j].level = Windows[i].level => Windows[j] = Windows[i]
    BY WindowFacts
  <1>3. DOMAIN <<Windows[i]>> = 1..1 /\ <<Windows[i]>>[1] = Windows[i]
    OBVIOUS
  <1>4. DOMAIN <<Windows[i]>> \in SUBSET Nat /\ \A j \in DOMAIN <<Windows[i]>> : <<Windows[i]>>[j] = Windows[i]
    BY <1>3
  <1> QED
    BY <1>1, <1>2, <1>4, Zenon

\* Whatever the batches and however many of them fail, the sessions that the
\* scripts put down to a level of measurement.log, each with its own comparison
\* of times, are first tries of the batch whose row it is.
THEOREM CampaignLevelIsTheBatch == CampaignSpec => []LevelIsTheBatch
  <1>1. ASSUME CampaignInv PROVE LevelIsTheBatch
    <2> SUFFICES ASSUME phase = "over", NEW i \in DOMAIN Windows,
                        NEW s \in Range(sessions),
                        AssignConcurrency(s, Windows) = Windows[i].level
                          \/ InWindow(Windows[i], s.at)
                          \/ AssignConcurrency(s, <<Windows[i]>>) = Windows[i].level
                 PROVE  s.first /\ batchOf[s.client] = BatchOf(Windows[i])
      BY Zenon DEF LevelIsTheBatch, Within, LevelSessions
    <2>1. InWindow(Windows[i], s.at)
      BY <1>1, LevelIsTheWindow
    <2>2. PICK b \in 1..batch : IsRowOf(Windows[i], b)
      BY <1>1, WindowFacts
    <2>3. Windows[i] \in RowRecord
      BY <1>1, WindowFacts
    <2>4. BatchOf(Windows[i]) = b
      BY <1>1, <2>2, <2>3, BatchIsUnique
    <2>5. PICK k \in DOMAIN sessions : s = sessions[k]
      BY DEF Range
    <2> QED
      BY <1>1, <2>1, <2>2, <2>3, <2>4, <2>5, WindowIsTheBatch
  <1> QED
    BY <1>1, CampaignInvariant, PTL

-----------------------------------------------------------------------------
\* Who passed in a batch has a first session in the window of the batch.
LEMMA PassedInWindow ==
    ASSUME CampaignInv, NEW w \in RowRecord, NEW b \in 1..batch, IsRowOf(w, b), NEW c \in PassedIn(b)
    PROVE  \E i \in DOMAIN sessions :
              /\ Mine(c) = sessions[i] /\ sessions[i].client = c /\ sessions[i].first
              /\ sessions[i].at \in Nat /\ sessions[i].ms \in Nat
              /\ w.since <= sessions[i].at /\ sessions[i].at < w.until
              /\ sessions[i].at + sessions[i].ms <= w.until
              /\ InWindow(w, sessions[i].at) /\ InWindow(w, sessions[i].at + sessions[i].ms)
  <1>1. c \in Client /\ batchOf[c] = b /\ client[c].state = "passed"
    BY DEF PassedIn, InBatch
  <1>2. PICK i \in DOMAIN sessions : Mine(c) = sessions[i] /\ sessions[i].client = c /\ sessions[i].first
    BY <1>1, MineIsTheFirst
  <1> DEFINE s == sessions[i]
  <1>3. /\ s.at \in Nat /\ s.ms \in Nat /\ w.since \in Nat /\ w.until \in Nat
        /\ client[c].start \in Nat \cup {Never} /\ client[c].end \in Nat \cup {Never}
    BY <1>1, CampaignBasics DEF RowRecord
  <1>4. client[c].start <= s.at
    BY <1>2 DEF CampaignInv, SessionsApart, Apart
  <1>5. s.at < client[c].end /\ s.at + s.ms <= client[c].end
    BY <1>1, <1>2 DEF CampaignInv, FirstTries
  <1>6. w.since <= client[c].start /\ client[c].end <= w.until
    BY DEF IsRowOf
  <1>7. client[c].start \in Int /\ client[c].end \in Int
    BY <1>3, Clocks
  <1> HIDE DEF s
  <1>8. /\ w.since <= s.at /\ s.at < w.until /\ s.at + s.ms <= w.until
        /\ s.at <= w.until /\ w.since <= s.at + s.ms
    BY <1>3, <1>4, <1>5, <1>6, <1>7
  <1> QED
    BY <1>2, <1>3, <1>8 DEF s, InWindow

\* The windows of two batches have nothing in common.
LEMMA OneWindow ==
    ASSUME CampaignInv, NEW i \in DOMAIN Windows, NEW j \in DOMAIN Windows,
           NEW k \in DOMAIN sessions, InWindow(Windows[i], sessions[k].at), InWindow(Windows[j], sessions[k].at)
    PROVE  i = j
  <1>1. PICK b \in 1..batch : IsRowOf(Windows[i], b)
    BY WindowFacts
  <1>2. PICK d \in 1..batch : IsRowOf(Windows[j], d)
    BY WindowFacts
  <1>3. Windows[i] \in RowRecord /\ Windows[j] \in RowRecord
    BY WindowFacts
  <1>4. batchOf[sessions[k].client] = b
    BY <1>1, <1>3, WindowIsTheBatch
  <1>5. batchOf[sessions[k].client] = d
    BY <1>2, <1>3, WindowIsTheBatch
  <1>6. Windows[i].level = Windows[j].level
    BY <1>1, <1>2, <1>4, <1>5 DEF IsRowOf
  <1> QED
    BY <1>6, WindowFacts

LEMMA LevelOfWindow ==
    ASSUME CampaignInv, NEW i \in DOMAIN Windows, NEW k \in DOMAIN sessions,
           InWindow(Windows[i], sessions[k].at)
    PROVE  /\ AssignConcurrency(sessions[k], Windows) = Windows[i].level
           /\ AssignConcurrency(sessions[k], <<Windows[i]>>) = Windows[i].level
  <1> DEFINE s == sessions[k]
  <1>1. ASSUME NEW ws, DOMAIN ws \in SUBSET Nat, NEW n \in DOMAIN ws, ws[n] = Windows[i],
               \A j \in DOMAIN ws : InWindow(ws[j], s.at) => j = n
        PROVE  AssignConcurrency(s, ws) = Windows[i].level
    <2> DEFINE around == {j \in DOMAIN ws : InWindow(ws[j], s.at)}
    <2>1. n \in around /\ \A j \in around : j = n
      BY <1>1
    <2>2. Min(around) \in around
      <3>1. around \in SUBSET Nat /\ around # {}
        BY <1>1, <2>1
      <3> HIDE DEF around
      <3> QED
        BY <3>1, FirstPlace
    <2>3. Min(around) = n
      BY <2>1, <2>2
    <2>4. AssignConcurrency(s, ws) = IF around = {} THEN 0 ELSE ws[Min(around)].level
      BY DEF AssignConcurrency
    <2> HIDE DEF around
    <2> QED
      BY <1>1, <2>1, <2>3, <2>4
  <1>2. AssignConcurrency(s, Windows) = Windows[i].level
    <2>1. DOMAIN Windows \in SUBSET Nat
      BY WindowFacts
    <2>2. \A j \in DOMAIN Windows : InWindow(Windows[j], s.at) => j = i
      BY OneWindow
    <2> QED
      BY <1>1, <2>1, <2>2
  <1>3. AssignConcurrency(s, <<Windows[i]>>) = Windows[i].level
    <2>1. DOMAIN <<Windows[i]>> \in SUBSET Nat /\ 1 \in DOMAIN <<Windows[i]>> /\ <<Windows[i]>>[1] = Windows[i]
          /\ \A j \in DOMAIN <<Windows[i]>> : j = 1
      OBVIOUS
    <2> QED
      BY <1>1, <2>1
  <1> QED
    BY <1>2, <1>3

LEMMA OneCategory ==
    ASSUME NEW s, s.client \in Client
    PROVE  TopoCategory(s)[1] = Category(s)
  <1> DEFINE host == RouteOf[s.client]
  <1>1. host.role \in {"satellite", "capsule", "lb"}
    BY ReportsAssumption
  <1>2. CASE host.role = "satellite"
    <2>1. TopoCategory(s) = <<Direct, "">> /\ Category(s) = Direct
      BY <1>2 DEF TopoCategory, Category
    <2>2. \A x, y : <<x, y>>[1] = x
      OBVIOUS
    <2> QED
      BY <2>1, <2>2, Zenon
  <1>3. CASE host.role = "lb"
    <2>1. TopoCategory(s) = <<LoadBalanced, host>> /\ Category(s) = LoadBalanced
      BY <1>3 DEF TopoCategory, Category
    <2>2. \A x, y : <<x, y>>[1] = x
      OBVIOUS
    <2> QED
      BY <2>1, <2>2, Zenon
  <1>4. CASE host.role = "capsule"
    <2> DEFINE cat == IF host.location \in LbLocations THEN LoadBalanced ELSE Standalone
    <2>1. TopoCategory(s) = <<cat, host>> /\ Category(s) = cat
      BY <1>4 DEF TopoCategory, Category
    <2>2. \A x, y : <<x, y>>[1] = x
      OBVIOUS
    <2> QED
      BY <2>1, <2>2, Zenon
  <1> QED
    BY <1>1, <1>2, <1>3, <1>4

\* What starts before the end of the window starts in one bucket of it.
LEMMA OneBucketOfTheWindow ==
    ASSUME NEW w, w.since \in Nat, w.until \in Nat, NEW at \in Nat, w.since <= at, at < w.until
    PROVE  \E t \in BucketStarts(w) : InBucket(w, t, at) /\ \A u \in BucketStarts(w) : InBucket(w, u, at) => u = t
  <1>1. BucketSize \in Nat \ {0}
    BY ReportsAssumption
  <1> DEFINE a == at - w.since
             m == BucketSize * (a \div BucketSize)
             t == w.since + m
  <1>2. a \in Nat /\ at = w.since + a
    OBVIOUS
  <1> HIDE DEF a
  <1>3. /\ m \in Nat /\ m % BucketSize = 0 /\ m <= a /\ a < m + BucketSize
        /\ \A n \in Int : n % BucketSize = 0 /\ n <= a /\ a < n + BucketSize => n = m
    BY <1>1, <1>2, OneBucket
  <1> HIDE DEF m
  <1>4. \A u \in Nat : InBucket(w, u, at) <=> u <= at /\ at < u + BucketSize
    <2> TAKE u \in Nat
    <2> DEFINE ends == {u + BucketSize, w.until}
    <2>1. ends \in SUBSET Nat /\ ends # {}
      BY <1>1
    <2>2. Min(ends) \in ends /\ \A n \in ends : Min(ends) <= n
      BY <2>1, FirstPlace
    <2>3. Min(ends) \in Nat /\ u + BucketSize \in Nat
      BY <1>1, <2>1, <2>2
    <2>4. at < Min(ends) <=> at < u + BucketSize
      <3> DEFINE e == u + BucketSize
      <3>1. Min(ends) = e \/ Min(ends) = w.until
        BY <2>2
      <3>2. Min(ends) <= e
        BY <2>2
      <3>3. \A n, k \in Nat : (n = k \/ n = w.until) /\ n <= k => (at < n <=> at < k)
        OBVIOUS
      <3> HIDE DEF e, ends
      <3> QED
        BY <2>3, <3>1, <3>2, <3>3 DEF e
    <2> QED
      BY <2>4 DEF InBucket
  <1>5. t \in BucketStarts(w)
    <2>1. t \in w.since..(w.until - 1)
      BY <1>2, <1>3
    <2>2. t - w.since = m
      BY <1>3
    <2> QED
      BY <1>3, <2>1, <2>2 DEF BucketStarts
  <1>6. InBucket(w, t, at)
    <2>1. t \in Nat /\ t <= at /\ at < t + BucketSize
      BY <1>1, <1>2, <1>3
    <2> QED
      BY <1>4, <2>1
  <1>7. ASSUME NEW u \in BucketStarts(w), InBucket(w, u, at) PROVE u = t
    <2>1. u \in w.since..(w.until - 1) /\ (u - w.since) % BucketSize = 0
      BY DEF BucketStarts
    <2>2. u \in Nat /\ u - w.since \in Int
      BY <2>1
    <2>3. u <= at /\ at < u + BucketSize
      BY <1>4, <1>7, <2>2
    <2>4. u - w.since <= a /\ a < (u - w.since) + BucketSize
      BY <1>1, <1>2, <2>2, <2>3
    <2>5. u - w.since = m
      BY <1>3, <2>1, <2>2, <2>4
    <2> QED
      BY <1>3, <2>2, <2>5
  <1> QED
    BY <1>5, <1>6, <1>7

\* proxy.log: what passed ends in the window of its batch, and nothing else does.
LEMMA EndsInItsWindow ==
    ASSUME CampaignInv, NEW w \in RowRecord, NEW b \in 1..batch, IsRowOf(w, b),
           NEW d \in Client, client[d].state = "passed", InWindow(w, Mine(d).at + Mine(d).ms)
    PROVE  batchOf[d] = b
  <1>1. TriesInItsBatch /\ BatchesApart
    BY DEF CampaignInv
  <1>2. PICK i \in DOMAIN sessions : Mine(d) = sessions[i] /\ sessions[i].client = d /\ sessions[i].first
    BY MineIsTheFirst
  <1>3. /\ sessions[i].at \in Nat /\ sessions[i].ms \in Nat /\ w.since \in Nat /\ w.until \in Nat /\ batch \in Nat
        /\ \A c \in Client : /\ client[c].start \in Nat \cup {Never} /\ client[c].end \in Nat \cup {Never}
                            /\ batchOf[c] \in Nat
    BY CampaignBasics DEF RowRecord
  <1>4. client[d].start <= sessions[i].at
    BY <1>2 DEF CampaignInv, SessionsApart, Apart
  <1>5. sessions[i].at + sessions[i].ms <= client[d].end
    BY <1>2 DEF CampaignInv, FirstTries
  <1>6. HasStarted(d)
    BY <1>1 DEF TriesInItsBatch
  <1>7. PICK c \in PassedIn(b) : client[c].start = w.since
    BY DEF IsRowOf
  <1>8. PICK e \in PassedIn(b) : client[e].end = w.until
    BY DEF IsRowOf
  <1>9. /\ c \in Client /\ e \in Client /\ batchOf[c] = b /\ batchOf[e] = b
        /\ HasStarted(c) /\ HasStarted(e)
    BY <1>1 DEF PassedIn, InBatch, TriesInItsBatch
  <1>10. w.since <= sessions[i].at + sessions[i].ms /\ sessions[i].at + sessions[i].ms <= w.until
    BY <1>2 DEF InWindow
  <1>11. batchOf[d] < b => client[d].end < w.since
    BY <1>1, <1>6, <1>7, <1>9 DEF BatchesApart
  <1>12. b < batchOf[d] => w.until < client[d].start
    BY <1>1, <1>6, <1>8, <1>9 DEF BatchesApart
  <1>13. client[d].start \in Int /\ client[d].end \in Int
    BY <1>3, Clocks
  <1>14. ~ (batchOf[d] < b) /\ ~ (b < batchOf[d])
    BY <1>3, <1>4, <1>5, <1>10, <1>11, <1>12, <1>13
  <1>15. batchOf[d] \in Nat /\ b \in Nat
    BY <1>3
  <1> QED
    BY <1>14, <1>15

LEMMA CapsuleCount ==
    ASSUME CampaignInv, NEW w \in RowRecord, NEW b \in 1..batch, IsRowOf(w, b), NEW capsule
    PROVE  /\ IsFiniteSet({d \in PassedIn(b) : RouteOf[d] = capsule})
           /\ Cardinality(Within(ProxySessions(capsule), w))
                = Cardinality({d \in PassedIn(b) : RouteOf[d] = capsule})
  <1> DEFINE here == {d \in PassedIn(b) : RouteOf[d] = capsule}
             Post(d) == [method |-> "POST", client |-> d, at |-> Mine(d).at + Mine(d).ms,
                         took |-> client[d].end - Mine(d).at - Mine(d).ms]
             Found(r) == [client |-> r.client, at |-> r.at, ms |-> r.took, status |-> 200,
                       scripts |-> {g.at : g \in {x \in ProxyOf(capsule) : x.method = "GET" /\ x.at <= r.at}}]
             found == Within(ProxySessions(capsule), w)
             f == [d \in here |-> Found(Post(d))]
  <1>1. \A d : Found(Post(d)).client = d /\ Found(Post(d)).at = Mine(d).at + Mine(d).ms
    OBVIOUS
  <1>2. \A x : x \in {r \in ProxyOf(capsule) : r.method = "POST"} <=>
           \E d \in Client : /\ RouteOf[d] = capsule /\ client[d].start # Never /\ client[d].state = "passed"
                             /\ x = Post(d)
    BY DEF ProxyOf
  <1>3. \A y : y \in ProxySessions(capsule) <=>
           \E d \in Client : /\ RouteOf[d] = capsule /\ client[d].start # Never /\ client[d].state = "passed"
                             /\ y = Found(Post(d))
    <2>1. \A y : y \in ProxySessions(capsule) <=>
             \E r \in {x \in ProxyOf(capsule) : x.method = "POST"} : y = Found(r)
      BY Zenon DEF ProxySessions
    <2> HIDE DEF Found, Post
    <2>2. ASSUME NEW y \in ProxySessions(capsule)
          PROVE  \E d \in Client : /\ RouteOf[d] = capsule /\ client[d].start # Never /\ client[d].state = "passed"
                                   /\ y = Found(Post(d))
      <3>1. PICK r \in {x \in ProxyOf(capsule) : x.method = "POST"} : y = Found(r)
        BY <2>1
      <3>2. PICK d \in Client : /\ RouteOf[d] = capsule /\ client[d].start # Never /\ client[d].state = "passed"
                                /\ r = Post(d)
        BY <1>2
      <3> QED
        BY <3>1, <3>2
    <2>3. ASSUME NEW d \in Client, RouteOf[d] = capsule, client[d].start # Never, client[d].state = "passed"
          PROVE  Found(Post(d)) \in ProxySessions(capsule)
      <3>1. Post(d) \in {x \in ProxyOf(capsule) : x.method = "POST"}
        BY <1>2, <2>3
      <3> QED
        BY <2>1, <3>1
    <2> QED
      BY <2>2, <2>3
  <1> HIDE DEF Found, Post
  <1>4. \A d \in PassedIn(b) : /\ d \in Client /\ client[d].state = "passed" /\ client[d].start # Never
                               /\ InWindow(w, Mine(d).at + Mine(d).ms)
    <2>1. \A d \in PassedIn(b) : d \in Client /\ client[d].state = "passed"
      BY DEF PassedIn, InBatch
    <2>2. \A d \in PassedIn(b) : client[d].start # Never
      BY <2>1 DEF CampaignInv, TriesInItsBatch, HasStarted
    <2>3. \A d \in PassedIn(b) : InWindow(w, Mine(d).at + Mine(d).ms)
      BY PassedInWindow
    <2> QED
      BY <2>1, <2>2, <2>3
  <1>5. \A d \in here : Found(Post(d)) \in found
    BY <1>1, <1>3, <1>4, Zenon DEF Within
  <1>6. ASSUME NEW y \in found PROVE \E d \in here : y = Found(Post(d))
    <2>1. y \in ProxySessions(capsule) /\ InWindow(w, y.at)
      BY DEF Within
    <2>2. PICK d \in Client : RouteOf[d] = capsule /\ client[d].state = "passed" /\ y = Found(Post(d))
      BY <1>3, <2>1, Zenon
    <2>3. InWindow(w, Mine(d).at + Mine(d).ms)
      BY <1>1, <2>1, <2>2
    <2>4. batchOf[d] = b
      BY <2>2, <2>3, EndsInItsWindow
    <2>5. d \in here
      BY <2>2, <2>4 DEF PassedIn, InBatch
    <2> QED
      BY <2>2, <2>5
  <1>7. ASSUME NEW d \in here, NEW e \in here, Found(Post(d)) = Found(Post(e)) PROVE d = e
    <2>1. Found(Post(d)).client = d /\ Found(Post(e)).client = e
      BY <1>1
    <2> QED
      BY <1>7, <2>1
  <1> HIDE DEF here, found
  <1>8. f \in Bijection(here, found)
    <2>1. f \in [here -> found] /\ \A d \in here : f[d] = Found(Post(d))
      BY <1>5
    <2>2. \A d, e \in here : f[d] = f[e] => d = e
      BY <1>7, <2>1
    <2>3. \A y \in found : \E d \in here : f[d] = y
      BY <1>6, <2>1
    <2> HIDE DEF f
    <2> QED
      BY <2>1, <2>2, <2>3 DEF Bijection, Injection, Surjection, IsInjective
  <1>9. IsFiniteSet(here)
    <2>1. here \subseteq Client
      BY <1>4 DEF here
    <2> QED
      BY <2>1, CampaignAssumption, FS_Subset
  <1>10. ExistsBijection(here, found)
    BY <1>8 DEF ExistsBijection
  <1>11. Cardinality(found) = Cardinality(here)
    BY <1>9, <1>10, FS_Bijection
  <1> QED
    BY <1>9, <1>11 DEF here, found

\* Whatever the batches and the size of a bucket, a registration that passed in a
\* batch of a row is in every table: at the level, under one topology, with its
\* capsule, and in one bucket of the drain curve.
THEOREM CampaignPassesAreFound == CampaignSpec => []PassesAreFound
  <1>1. ASSUME CampaignInv PROVE PassesAreFound
    <2> SUFFICES ASSUME phase = "over", NEW i \in DOMAIN Windows,
                        NEW c \in InBatch(BatchOf(Windows[i])), client[c].state = "passed"
                 PROVE  /\ AssignConcurrency(Mine(c), Windows) = Windows[i].level
                        /\ Category(Mine(c)) \in DOMAIN SatByLevel[i]
                        /\ TopoCategory(Mine(c))[1] = Category(Mine(c))
                        /\ Cardinality({t \in BucketStarts(Windows[i]) : Mine(c) \in SessionBucket(Windows[i], t)}) = 1
                        /\ RouteOf[c].role = "capsule" =>
                             CapsuleTable[i].cells[RouteOf[c]][1]
                               = Cardinality({d \in {e \in InBatch(BatchOf(Windows[i])) : client[e].state = "passed"} :
                                                 RouteOf[d] = RouteOf[c]})
      BY Zenon DEF PassesAreFound
    <2> DEFINE w == Windows[i]
    <2>1. w \in RowRecord /\ w.since \in Nat /\ w.until \in Nat
      BY <1>1, WindowFacts DEF RowRecord
    <2>2. PICK b \in 1..batch : IsRowOf(w, b)
      BY <1>1, WindowFacts
    <2>3. BatchOf(w) = b
      BY <1>1, <2>1, <2>2, BatchIsUnique
    <2>4. c \in PassedIn(b) /\ {e \in InBatch(BatchOf(w)) : client[e].state = "passed"} = PassedIn(b) /\ c \in Client
      BY <2>3 DEF PassedIn, InBatch
    <2>5. PICK k \in DOMAIN sessions :
              /\ Mine(c) = sessions[k] /\ sessions[k].client = c
              /\ sessions[k].at \in Nat /\ w.since <= sessions[k].at /\ sessions[k].at < w.until
              /\ InWindow(w, sessions[k].at)
      BY <1>1, <2>1, <2>2, <2>4, PassedInWindow
    <2> DEFINE s == sessions[k]
    <2>6. AssignConcurrency(s, Windows) = w.level /\ AssignConcurrency(s, <<w>>) = w.level
      BY <1>1, <2>5, LevelOfWindow
    <2>7. s \in Range(sessions)
      BY DEF Range
    <2>8. Category(s) \in DOMAIN SatByLevel[i]
      <3>1. s \in Within(Range(sessions), w)
        BY <2>5, <2>7 DEF Within
      <3>2. SatByLevel[i] = GroupSessions(Within(Range(sessions), w))
        BY DEF SatByLevel
      <3> HIDE DEF s, w
      <3>3. DOMAIN SatByLevel[i] = {Category(t) : t \in Within(Range(sessions), w)}
        BY <3>2 DEF GroupSessions
      <3> QED
        BY <3>1, <3>3
    <2>9. TopoCategory(s)[1] = Category(s)
      BY <2>4, <2>5, OneCategory
    <2>10. Cardinality({t \in BucketStarts(w) : s \in SessionBucket(w, t)}) = 1
      <3>1. s \in LevelSessions(w)
        BY <2>6, <2>7 DEF LevelSessions
      <3>2. \A t : s \in SessionBucket(w, t) <=> InBucket(w, t, s.at)
        BY <3>1 DEF SessionBucket
      <3>3. PICK t \in BucketStarts(w) : InBucket(w, t, s.at) /\ \A u \in BucketStarts(w) : InBucket(w, u, s.at) => u = t
        BY <2>1, <2>5, OneBucketOfTheWindow
      <3> HIDE DEF s, w
      <3>4. {u \in BucketStarts(w) : s \in SessionBucket(w, u)} = {t}
        BY <3>2, <3>3
      <3> QED
        BY <3>4, FS_Singleton
    <2>11. ASSUME RouteOf[c].role = "capsule"
           PROVE  CapsuleTable[i].cells[RouteOf[c]][1] = Cardinality({d \in PassedIn(b) : RouteOf[d] = RouteOf[c]})
      <3> DEFINE capsule == RouteOf[c]
                 here == {d \in PassedIn(b) : RouteOf[d] = capsule}
                 found == Within(ProxySessions(capsule), w)
                 m == BuildMetrics(found)
      <3>1. capsule \in Capsules
        BY <2>4, <2>11, ReportsAssumption DEF Capsules
      <3>2. IsFiniteSet(here) /\ Cardinality(found) = Cardinality(here)
        BY <1>1, <2>1, <2>2, CapsuleCount
      <3>3. Cardinality(here) # 0
        <4>1. c \in here
          BY <2>4
        <4> HIDE DEF here
        <4> QED
          BY <3>2, <4>1, FS_EmptySet
      <3>4. m.count = Cardinality(found)
        BY DEF BuildMetrics
      <3>5. CapsuleByLevel[i][capsule] = m
        BY <3>1 DEF CapsuleByLevel
      <3>6. CapsuleTable[i].cells[capsule] = Cell(CapsuleByLevel[i][capsule])
        BY <3>1 DEF CapsuleTable
      <3> HIDE DEF m, found, here, capsule
      <3>7. Cell(m)[1] = m.count
        BY <3>2, <3>3, <3>4 DEF Cell
      <3> QED
        BY <3>2, <3>4, <3>5, <3>6, <3>7 DEF here, capsule
    <2> QED
      BY <2>4, <2>5, <2>6, <2>8, <2>9, <2>10, <2>11
  <1> QED
    BY <1>1, CampaignInvariant, PTL

-----------------------------------------------------------------------------
\* As long as there is no answer there is no duration.
Unanswered(s) == s.status = 0 => s.ms = 0
NoAnswerNoTime == \A i \in DOMAIN sessions : Unanswered(sessions[i])

LEMMA NoAnswerNoTimeHolds == CampaignSpec => []NoAnswerNoTime
  <1>1. CampaignInit => NoAnswerNoTime
    <2> SUFFICES ASSUME CampaignInit PROVE DOMAIN sessions = {}
      BY DEF NoAnswerNoTime
    <2>1. sessions = <<>>
      BY DEF CampaignInit
    <2> QED
      BY <2>1
  <1>2. ASSUME CampaignInv, NoAnswerNoTime, [CampaignNext]_campaignVars PROVE NoAnswerNoTime'
    <2>1. sessions \in Seq(SessionRecord)
      BY <1>2 DEF CampaignInv, CampaignTypeOK
    <2>2. CASE UNCHANGED sessions
      BY <1>2, <2>2 DEF NoAnswerNoTime
    <2>3. ASSUME NEW s, Unanswered(s), sessions' = Append(sessions, s) PROVE NoAnswerNoTime'
      <3>1. \A i \in DOMAIN sessions' :
               sessions'[i] = s \/ (i \in DOMAIN sessions /\ sessions'[i] = sessions[i])
        BY <2>1, <2>3
      <3> QED
        BY <1>2, <2>3, <3>1 DEF NoAnswerNoTime
    <2>4. ASSUME NEW c \in Client, Create(c) PROVE NoAnswerNoTime'
      <3>1. sessions' = Append(sessions, NewSession(c, TRUE)) /\ Unanswered(NewSession(c, TRUE))
        BY <2>4 DEF Create, NewSession, Unanswered
      <3> QED
        BY <2>3, <3>1
    <2>5. ASSUME NEW c \in Client, Retry(c) PROVE NoAnswerNoTime'
      <3>1. /\ sessions' = Append(sessions, [NewSession(c, FALSE) EXCEPT !.status = 201])
            /\ Unanswered([NewSession(c, FALSE) EXCEPT !.status = 201])
        BY <2>5 DEF Retry, NewSession, Unanswered
      <3> QED
        BY <2>3, <3>1
    <2>6. ASSUME NEW i \in DOMAIN sessions, Created(i) PROVE NoAnswerNoTime'
      <3>1. PICK status \in {201, 500} :
               sessions' = [sessions EXCEPT ![i].status = status, ![i].ms = second - sessions[i].at]
        BY <2>6 DEF Created
      <3>2. sessions[i] \in SessionRecord
        BY <2>1
      <3>3. DOMAIN sessions' = DOMAIN sessions
        BY <2>1, <3>1
      <3>4. \A j \in DOMAIN sessions : j # i => sessions'[j] = sessions[j]
        BY <2>1, <3>1
      <3>5. sessions'[i].status = status
        BY <2>1, <3>1, <3>2 DEF SessionRecord
      <3> QED
        BY <1>2, <3>3, <3>4, <3>5 DEF NoAnswerNoTime, Unanswered
    <2>7. ASSUME StartBatch \/ EndFirstTries \/ EndBatch \/ EndCampaign \/ CampaignSecond
                   \/ \E c \in Client : StartClient(c) \/ Pass(c) \/ Fail(c)
          PROVE  UNCHANGED sessions
      BY <2>7 DEF StartBatch, EndFirstTries, EndBatch, EndCampaign, CampaignSecond, StartClient, Pass, Fail
    <2> QED
      BY <1>2, <2>2, <2>4, <2>5, <2>6, <2>7 DEF CampaignNext, campaignVars
  <1> QED
    BY <1>1, <1>2, CampaignInvariant, PTL DEF CampaignSpec

\* The sessions in a window, and the ones the scripts put down to its level.
LEMMA SessionsInWindow ==
    ASSUME CampaignInv, NEW i \in DOMAIN Windows
    PROVE  /\ IsFiniteSet(Range(sessions)) /\ IsFiniteSet(Within(Range(sessions), Windows[i]))
           /\ LevelSessions(Windows[i]) = Within(Range(sessions), Windows[i])
           /\ {s \in Range(sessions) : AssignConcurrency(s, Windows) = Windows[i].level}
                = Within(Range(sessions), Windows[i])
           /\ \A s \in Within(Range(sessions), Windows[i]) :
                /\ s \in SessionRecord /\ s.client \in Client /\ s.at \in Nat /\ s.status \in {0, 201, 500}
                /\ Windows[i].since <= s.at /\ s.at <= Windows[i].until
  <1> DEFINE w == Windows[i]
             all == Range(sessions)
  <1>1. Len(sessions) \in Nat /\ DOMAIN sessions = 1..Len(sessions)
    BY CampaignBasics
  <1>2. IsFiniteSet(all)
    <2>1. sessions \in Surjection(1..Len(sessions), all)
      <3>1. sessions \in Seq(SessionRecord)
        BY DEF CampaignInv, CampaignTypeOK
      <3>2. sessions \in [1..Len(sessions) -> all]
        BY <1>1, <3>1 DEF Range
      <3> QED
        BY <1>1, <3>2 DEF Surjection, Range
    <2>2. IsFiniteSet(1..Len(sessions))
      BY <1>1, FS_Interval
    <2> QED
      BY <2>1, <2>2, FS_Surjection
  <1>3. \A s \in all : /\ AssignConcurrency(s, Windows) = w.level <=> InWindow(w, s.at)
                       /\ AssignConcurrency(s, <<w>>) = w.level <=> InWindow(w, s.at)
    <2> SUFFICES ASSUME NEW k \in DOMAIN sessions
                 PROVE  /\ AssignConcurrency(sessions[k], Windows) = w.level <=> InWindow(w, sessions[k].at)
                        /\ AssignConcurrency(sessions[k], <<w>>) = w.level <=> InWindow(w, sessions[k].at)
      BY DEF Range
    <2> QED
      BY LevelIsTheWindow, LevelOfWindow
  <1>4. \A s \in all : s \in SessionRecord /\ s.client \in Client /\ s.at \in Nat /\ s.status \in {0, 201, 500}
    BY <1>1, CampaignBasics DEF Range
  <1>5. Within(all, w) = {s \in all : InWindow(w, s.at)}
    BY DEF Within
  <1>6. IsFiniteSet(Within(all, w))
    BY <1>2, <1>5, FS_Subset
  <1>7. LevelSessions(w) = Within(all, w) /\ {s \in all : AssignConcurrency(s, Windows) = w.level} = Within(all, w)
    BY <1>3, <1>5 DEF LevelSessions
  <1> QED
    BY <1>2, <1>4, <1>5, <1>6, <1>7 DEF InWindow

-----------------------------------------------------------------------------
\* The numbers of a row.
LEMMA RowNumbers ==
    ASSUME CampaignInv, NEW i \in DOMAIN Windows
    PROVE  /\ Windows[i].level \in Nat \ {0} /\ Windows[i].passed \in Nat
           /\ Failed(Windows[i]) \in Nat /\ Windows[i].passed + Failed(Windows[i]) # 0
           /\ Windows[i].since \in Nat /\ Windows[i].until \in Nat
           /\ Windows[i].since < Windows[i].until
  <1> DEFINE w == Windows[i]
  <1>1. w \in RowRecord /\ w.level # 0
    BY WindowFacts
  <1>2. PICK b \in 1..batch : IsRowOf(w, b)
    BY WindowFacts
  <1>3. /\ w.level \in Nat \ {0} /\ w.passed \in Nat /\ w.since \in Nat /\ w.until \in Nat
    BY <1>1 DEF RowRecord
  <1>4. PICK c \in PassedIn(b) : client[c].start = w.since
    BY <1>2 DEF IsRowOf
  <1>5. PICK k \in DOMAIN sessions : sessions[k].at \in Nat /\ w.since <= sessions[k].at /\ sessions[k].at < w.until
    BY <1>1, <1>2, PassedInWindow
  <1>6. w.since < w.until
    <2> HIDE DEF w
    <2> QED
      BY <1>3, <1>5
  <1>7. Failed(w) \in Nat /\ w.passed + Failed(w) # 0
    <2> DEFINE d == w.level - w.passed
               both == {0, d}
    <2>1. d \in Int /\ both \in SUBSET Int /\ both # {}
      BY <1>3
    <2>2. IsFiniteSet({d}) /\ both = {d} \cup {0}
      BY FS_Singleton
    <2>3. IsFiniteSet(both)
      <3> HIDE DEF d
      <3> QED
        BY <2>2, FS_AddElement
    <2>4. Max(both) \in both /\ 0 <= Max(both) /\ d <= Max(both)
      <3>1. Max(both) \in both /\ \A x \in both : x <= Max(both)
        <4> HIDE DEF both
        <4> QED
          BY <2>1, <2>3, Greatest
      <3> QED
        BY <3>1
    <2>5. Failed(w) = Max(both)
      BY DEF Failed
    <2>6. Failed(w) \in Int /\ 0 <= Failed(w) /\ d <= Failed(w)
      BY <2>1, <2>4, <2>5
    <2> HIDE DEF both, w
    <2> QED
      BY <1>3, <2>6
  <1> QED
    BY <1>3, <1>6, <1>7

\* 100 % is what has no failures.
LEMMA FullPercentage ==
    ASSUME CampaignInv, NEW i \in DOMAIN Windows
    PROVE  SuccessPct(Windows[i]) < 1000 <=> Failed(Windows[i]) > 0
  BY RowNumbers, Thousandths DEF SuccessPct

\* The first level with failures is looked for twice.
LEMMA FirstFailures ==
    ASSUME CampaignInv
    PROVE  LET first == Observations.firstFailure IN
           /\ first # 0 => first = SaturationPoint
           /\ first = 0 => \A i \in DOMAIN Windows : Failed(Windows[i]) = 0
  <1> DEFINE failing == {i \in DOMAIN Windows : Failed(Windows[i]) > 0}
             first == IF failing = {} THEN 0 ELSE Windows[Min(failing)].level
  <1>1. Observations.firstFailure = first
    BY DEF Observations
  <1>2. failing # {} => SaturationPoint = Windows[Min(failing)].level
    BY DEF SaturationPoint
  <1>3. failing # {} => first # 0
    <2> SUFFICES ASSUME failing # {} PROVE Windows[Min(failing)].level # 0
      OBVIOUS
    <2>1. failing \in SUBSET Nat
      BY WindowFacts
    <2>2. Min(failing) \in failing
      <3> HIDE DEF failing
      <3> QED
        BY <2>1, FirstPlace
    <2> QED
      BY <2>2, RowNumbers
  <1>4. failing = {} => \A i \in DOMAIN Windows : Failed(Windows[i]) = 0
    BY RowNumbers
  <1> HIDE DEF failing
  <1> QED
    BY <1>1, <1>2, <1>3, <1>4

LEMMA OnePrediction ==
    ASSUME CampaignInv, Cardinality(Plateau) = 1, NEW i \in Plateau
    PROVE  Prediction[i].delta \in 0..WindowSeconds(Windows[i])
  <1> DEFINE w == Windows[i]
             rates == [j \in Plateau |-> RegPerSecond(Windows[j])]
             mean == SumFunction(rates) \div Cardinality(Plateau)
             a == 1000 * w.passed
             d == WindowSeconds(w)
  <1>1. i \in DOMAIN Windows
    BY DEF Plateau
  <1>2. a \in Nat /\ d \in Nat \ {0}
    BY <1>1, RowNumbers DEF WindowSeconds
  <1>3. Plateau = {i}
    <2>1. IsFiniteSet(Plateau)
      <3>1. IsFiniteSet(DOMAIN Windows)
        <4>1. DOMAIN Windows = 1..Cardinality(FirstRows) /\ Cardinality(FirstRows) \in Nat
          BY FirstRowsFacts, FS_CardinalityType DEF Windows, Sorted
        <4> QED
          BY <4>1, FS_Interval
      <3> QED
        BY <3>1, FS_Subset DEF Plateau
    <2>2. PICK x : Plateau = {x}
      BY <2>1, FS_Singleton
    <2> QED
      BY <2>2
  <1>4. RegPerSecond(w) = a \div d
    BY <1>2 DEF RegPerSecond
  <1>5. a \div d \in Int
    <2> HIDE DEF a, d
    <2> QED
      BY <1>2, QuotientNat
  <1>6. mean = a \div d
    <2>1. rates[i] = a \div d
      BY <1>4
    <2>2. SumFunction(rates) = SumFunctionOnSet(rates, Plateau)
      BY DEF SumFunction
    <2>3. SumFunctionOnSet(rates, Plateau) = rates[i]
      <3> HIDE DEF rates, a, d
      <3> QED
        BY <1>3, <1>5, <2>1, SumOfOne
    <2>4. \A n \in Int : n \div 1 = n
      OBVIOUS
    <2>5. SumFunction(rates) \div Cardinality(Plateau) = SumFunction(rates)
      <3> HIDE DEF rates, a, d
      <3> QED
        BY <1>5, <2>1, <2>2, <2>3, <2>4
    <2> QED
      BY <2>1, <2>2, <2>3, <2>5
  <1>7. Prediction[i].delta = a - mean * d
    BY DEF Prediction
  <1>8. a - (a \div d) * d \in 0..d
    <2> HIDE DEF a, d
    <2> QED
      BY <1>2, CutOff
  <1> QED
    BY <1>6, <1>7, <1>8

LEMMA KneesOfTheCampaign == CampaignInv => KneesAgree
  <1> SUFFICES ASSUME CampaignInv PROVE KneesAgree
    OBVIOUS
  <1> DEFINE first == Observations.firstFailure
  <1>1. DOMAIN SaturationTable = DOMAIN Windows /\ DOMAIN OverallTable = DOMAIN Windows
    BY DEF SaturationTable, OverallTable
  <1>2. \A i \in DOMAIN Windows :
           /\ SaturationTable[i].level = Windows[i].level
           /\ SaturationTable[i].failed = Failed(Windows[i])
           /\ SaturationTable[i].flagged <=> Windows[i].level = SaturationPoint
           /\ OverallTable[i].pct = SuccessPct(Windows[i])
    BY DEF SaturationTable, OverallTable
  <1>3. first # 0 => \A row \in Range(SaturationTable) : row.flagged <=> row.level = first
    BY <1>1, <1>2, FirstFailures DEF Range
  <1>4. first = 0 => \A row \in Range(SaturationTable) : row.failed = 0
    BY <1>1, <1>2, FirstFailures DEF Range
  <1>5. \A i \in DOMAIN OverallTable : OverallTable[i].pct < 1000 <=> SaturationTable[i].failed > 0
    BY <1>1, <1>2, FullPercentage
  <1>6. Cardinality(Plateau) = 1 =>
           \A i \in Plateau : Prediction[i].delta \in 0..WindowSeconds(Windows[i])
    BY OnePrediction
  <1> QED
    BY <1>3, <1>4, <1>5, <1>6 DEF KneesAgree

-----------------------------------------------------------------------------
\* The cells of a table, one for every value of f, add up to what the table is about.
LEMMA CellsAddUp ==
    ASSUME NEW S, IsFiniteSet(S), NEW f, NEW g, DOMAIN g = {f[x] : x \in S},
           \A c \in DOMAIN g : g[c] = Cardinality({x \in S : f[x] = c})
    PROVE  SumFunction(g) = Cardinality(S)
  <1>1. IsFiniteSet(DOMAIN g)
    <2> DEFINE h == [x \in S |-> f[x]]
    <2>1. h \in Surjection(S, DOMAIN g)
      BY DEF Surjection
    <2> QED
      BY <2>1, FS_Surjection
  <1>2. \A x \in S : f[x] \in DOMAIN g
    OBVIOUS
  <1> QED
    BY <1>1, <1>2, PartsAddUp DEF SumFunction

Unanswereds(W) == {s \in W : s.status = 0}
Refused(W) == {s \in W : s.status = 500}
Bad(W) == Unanswereds(W) \cup Refused(W)

LEMMA BadOnes ==
    ASSUME CampaignInv, NoAnswerNoTime, NEW i \in DOMAIN Windows
    PROVE  LET W == Within(Range(sessions), Windows[i]) IN
           /\ IsFiniteSet(W) /\ IsFiniteSet(Bad(W)) /\ IsFiniteSet(Refused(W)) /\ Bad(W) \subseteq W
           /\ Cardinality(Bad(W)) = Cardinality(Refused(W)) + Cardinality(Unanswereds(W))
           /\ Unanswereds(W) = {s \in W : ~Answered(s)}
           /\ \A T \in SUBSET W : {s \in T : s.status \notin {0, 200, 201}} \cup CreateTimeouts(T) = T \cap Bad(W)
           /\ Refused(W) = {s \in Range(sessions) : AssignConcurrency(s, Windows) = Windows[i].level /\ ~Succeeded(s)}
  <1> DEFINE W == Within(Range(sessions), Windows[i])
  <1>1. /\ IsFiniteSet(W) /\ \A s \in W : s.status \in {0, 201, 500}
        /\ {s \in Range(sessions) : AssignConcurrency(s, Windows) = Windows[i].level} = W
    BY SessionsInWindow
  <1>2. \A s \in W : s.status = 0 => s.ms = 0
    <2>1. W \subseteq Range(sessions)
      BY DEF Within
    <2> QED
      BY <2>1 DEF NoAnswerNoTime, Unanswered, Range
  <1>7. Refused(W) = {s \in Range(sessions) : AssignConcurrency(s, Windows) = Windows[i].level /\ ~Succeeded(s)}
    <2>1. \A s \in W : s.status = 500 <=> ~Succeeded(s)
      BY <1>1 DEF Succeeded
    <2> HIDE DEF W
    <2> QED
      BY <1>1, <2>1 DEF Refused
  <1> HIDE DEF W
  <1>3. IsFiniteSet(Bad(W)) /\ IsFiniteSet(Refused(W)) /\ IsFiniteSet(Unanswereds(W)) /\ Bad(W) \subseteq W
    BY <1>1, FS_Subset DEF Bad, Refused, Unanswereds
  <1>4. Cardinality(Bad(W)) = Cardinality(Refused(W)) + Cardinality(Unanswereds(W))
    <2>1. Unanswereds(W) \cap Refused(W) = {} /\ Bad(W) = Unanswereds(W) \cup Refused(W)
      BY DEF Bad, Refused, Unanswereds
    <2>2. /\ Cardinality(Unanswereds(W)) \in Nat /\ Cardinality(Refused(W)) \in Nat
          /\ Cardinality(Unanswereds(W) \cap Refused(W)) = 0
      BY <1>3, <2>1, FS_CardinalityType, FS_EmptySet
    <2>3. Cardinality(Unanswereds(W) \cup Refused(W))
            = Cardinality(Unanswereds(W)) + Cardinality(Refused(W)) - Cardinality(Unanswereds(W) \cap Refused(W))
      BY <1>3, FS_Union
    <2> QED
      BY <2>1, <2>2, <2>3
  <1>5. Unanswereds(W) = {s \in W : ~Answered(s)}
    BY DEF Unanswereds, Answered
  <1>6. \A T \in SUBSET W : {s \in T : s.status \notin {0, 200, 201}} \cup CreateTimeouts(T) = T \cap Bad(W)
    <2> TAKE T \in SUBSET W
    <2>1. \A s \in T : /\ s.status \notin {0, 200, 201} <=> s.status = 500
                       /\ (s.status = 0 /\ s.ms = 0) <=> s.status = 0
      BY <1>1, <1>2
    <2> QED
      BY <2>1 DEF CreateTimeouts, Bad, Refused, Unanswereds
  <1> QED
    BY <1>1, <1>3, <1>4, <1>5, <1>6, <1>7 DEF W

\* --traces-file
LEMMA TracesAddUp ==
    ASSUME CampaignInv, NoAnswerNoTime, NEW i \in DOMAIN Windows
    PROVE  SumFunction(TraceErrors(Windows[i].level))
             = Cardinality(Refused(Within(Range(sessions), Windows[i])))
  <1> DEFINE failed == Refused(Within(Range(sessions), Windows[i]))
             types == TraceErrors(Windows[i].level)
             f == [s \in failed |-> ErrorType(s.status)]
  <1>1. IsFiniteSet(failed)
    BY BadOnes
  <1>2. types = [type \in {ErrorType(s.status) : s \in failed} |->
                    Cardinality({s \in failed : ErrorType(s.status) = type})]
    BY BadOnes DEF TraceErrors
  <1> HIDE DEF failed, types
  <1>3. DOMAIN types = {f[s] : s \in failed}
    BY <1>2
  <1>4. \A c \in DOMAIN types : types[c] = Cardinality({s \in failed : f[s] = c})
    <2> TAKE c \in DOMAIN types
    <2>1. {s \in failed : ErrorType(s.status) = c} = {s \in failed : f[s] = c}
      OBVIOUS
    <2> QED
      BY <1>2, <2>1
  <1> HIDE DEF f
  <1>5. SumFunction(types) = Cardinality(failed)
    BY <1>1, <1>3, <1>4, CellsAddUp
  <1> QED
    BY <1>5 DEF types, failed

Categories(i) == {Category(s) : s \in Within(Range(sessions), Windows[i])}
OfCategory(i, cat) == {s \in Within(Range(sessions), Windows[i]) : Category(s) = cat}

LEMMA TableOfLevel ==
    ASSUME NEW i \in DOMAIN Windows
    PROVE  /\ DOMAIN SatByLevel[i] = Categories(i)
           /\ \A cat \in Categories(i) : SatByLevel[i][cat] = BuildMetrics(OfCategory(i, cat))
  BY DEF SatByLevel, GroupSessions, Categories, OfCategory

\* 7.1: a level has at most one row.
LEMMA ListedErrors ==
    ASSUME CampaignInv, NoAnswerNoTime, NEW i \in DOMAIN Windows, NEW cat \in Categories(i)
    PROVE  SumFunction([row \in {r \in ErrorTable(cat) : r[1] = Windows[i].level} |-> row[2]])
             = Cardinality({s \in Bad(Within(Range(sessions), Windows[i])) : Category(s) = cat})
  <1> DEFINE W == Within(Range(sessions), Windows[i])
             mine == {r \in ErrorTable(cat) : r[1] = Windows[i].level}
             here == {s \in Bad(W) : Category(s) = cat}
             n == Cardinality(here)
             Row(j) == <<Windows[j].level, SatByLevel[j][cat].errors, SatByLevel[j][cat].breakdown>>
             f == [row \in mine |-> row[2]]
  <1>1. IsFiniteSet(here) /\ n \in Nat
    <2>1. IsFiniteSet(Bad(W))
      BY BadOnes
    <2>2. IsFiniteSet(here)
      <3> HIDE DEF W
      <3> QED
        BY <2>1, FS_Subset
    <2> QED
      BY <2>2, FS_CardinalityType
  <1>2. cat \in DOMAIN SatByLevel[i] /\ SatByLevel[i][cat].errors = n
    <2>1. cat \in DOMAIN SatByLevel[i] /\ SatByLevel[i][cat] = BuildMetrics(OfCategory(i, cat))
      BY TableOfLevel
    <2>2. OfCategory(i, cat) \in SUBSET W /\ OfCategory(i, cat) \cap Bad(W) = here
      BY BadOnes DEF OfCategory
    <2>3. {s \in OfCategory(i, cat) : s.status \notin {0, 200, 201}} \cup CreateTimeouts(OfCategory(i, cat)) = here
      BY <2>2, BadOnes
    <2>4. BuildMetrics(OfCategory(i, cat)).errors = Cardinality(here)
      <3> HIDE DEF here
      <3> QED
        BY <2>3 DEF BuildMetrics
    <2> QED
      BY <2>1, <2>4
  <1>3. ErrorTable(cat) = {Row(j) : j \in {k \in DOMAIN Windows :
                             cat \in DOMAIN SatByLevel[k] /\ SatByLevel[k][cat].errors > 0}}
    BY DEF ErrorTable
  <1>4. \A j \in DOMAIN Windows : Row(j)[1] = Windows[j].level /\ Row(j)[2] = SatByLevel[j][cat].errors
    OBVIOUS
  <1>5. mine = IF n > 0 THEN {Row(i)} ELSE {}
    <2>1. \A j \in DOMAIN Windows : Windows[j].level = Windows[i].level <=> j = i
      BY WindowFacts
    <2> HIDE DEF Row, n
    <2>2. \A r : r \in mine <=> \E j \in DOMAIN Windows :
             /\ cat \in DOMAIN SatByLevel[j] /\ SatByLevel[j][cat].errors > 0
             /\ r = Row(j) /\ Windows[j].level = Windows[i].level
      BY <1>3, <1>4
    <2>3. \A r : r \in mine <=> n > 0 /\ r = Row(i)
      BY <1>2, <2>1, <2>2
    <2> HIDE DEF mine
    <2> QED
      BY <2>3
  <1>6. SumFunction(f) = SumFunctionOnSet(f, mine)
    BY DEF SumFunction
  <1> HIDE DEF Row, n
  <1>7. CASE n > 0
    <2>1. mine = {Row(i)}
      BY <1>5, <1>7
    <2>2. f[Row(i)] = n
      BY <1>2, <1>4, <2>1
    <2>3. SumFunctionOnSet(f, mine) = f[Row(i)]
      <3> HIDE DEF f, mine
      <3> QED
        BY <1>1, <2>1, <2>2, SumOfOne
    <2> QED
      BY <1>6, <2>2, <2>3 DEF n
  <1>8. CASE n = 0
    <2>1. mine = {}
      BY <1>5, <1>8
    <2>2. SumFunctionOnSet(f, mine) = 0
      BY <2>1, SumUnfolds, FS_EmptySet
    <2> QED
      BY <1>6, <1>8, <2>2 DEF n
  <1> QED
    BY <1>1, <1>7, <1>8

LEMMA ErrorsOfTheLevel ==
    ASSUME CampaignInv, NoAnswerNoTime, NEW i \in DOMAIN Windows
    PROVE  ErrorsAgree(i)
  <1> DEFINE W == Within(Range(sessions), Windows[i])
             listed(cat) == SumFunction([row \in {r \in ErrorTable(cat) : r[1] = Windows[i].level} |-> row[2]])
             table == [cat \in DOMAIN SatByLevel[i] |-> listed(cat)]
             f == [s \in W |-> Category(s)]
  <1>1. /\ IsFiniteSet(W) /\ IsFiniteSet(Bad(W)) /\ Bad(W) \subseteq W
        /\ Cardinality(Bad(W)) = Cardinality(Refused(W)) + Cardinality(Unanswereds(W))
        /\ Unanswereds(W) = {s \in W : ~Answered(s)}
    BY BadOnes
  <1>2. DOMAIN table = {f[s] : s \in W}
    BY TableOfLevel DEF Categories
  <1>3. \A cat \in DOMAIN table : table[cat] = Cardinality({s \in Bad(W) : f[s] = cat})
    <2> TAKE cat \in DOMAIN table
    <2>1. table[cat] = listed(cat) /\ cat \in Categories(i)
      BY TableOfLevel
    <2>2. {s \in Bad(W) : Category(s) = cat} = {s \in Bad(W) : f[s] = cat}
      BY <1>1
    <2>3. listed(cat) = Cardinality({s \in Bad(W) : Category(s) = cat})
      BY <2>1, ListedErrors
    <2> QED
      BY <2>1, <2>2, <2>3
  <1>4. IsFiniteSet(DOMAIN table)
    <2>1. f \in Surjection(W, DOMAIN table)
      <3> HIDE DEF table
      <3> QED
        BY <1>2 DEF Surjection
    <2> HIDE DEF f, W, table
    <2> QED
      BY <1>1, <2>1, FS_Surjection
  <1>5. SumFunction(table) = Cardinality(Bad(W))
    <2>1. \A s \in Bad(W) : f[s] \in DOMAIN table
      BY <1>1, <1>2
    <2> HIDE DEF f, W, table
    <2>2. SumFunctionOnSet(table, DOMAIN table) = Cardinality(Bad(W))
      BY <1>1, <1>3, <1>4, <2>1, PartsAddUp
    <2> QED
      BY <2>2 DEF SumFunction
  <1>6. SumFunction(TraceErrors(Windows[i].level)) = Cardinality(Refused(W))
    BY TracesAddUp
  <1> QED
    BY <1>1, <1>5, <1>6, Zenon DEF ErrorsAgree

-----------------------------------------------------------------------------
\* 6.2 counts every session of the level in one column.
LEMMA ColumnsAddUp ==
    ASSUME CampaignInv, NEW i \in DOMAIN Windows
    PROVE  LET cells == LevelTable[i].cells IN
           Cardinality(Within(Range(sessions), Windows[i]))
             = SumFunction([topo \in {t \in AllTopos : cells[t] # <<>>} |-> cells[topo][1]])
  <1> DEFINE W == Within(Range(sessions), Windows[i])
             cells == LevelTable[i].cells
             g == [topo \in {t \in AllTopos : cells[t] # <<>>} |-> cells[topo][1]]
             f == [s \in W |-> Category(s)]
  <1>1. IsFiniteSet(W)
    BY SessionsInWindow
  <1>2. cells = [topo \in AllTopos |->
           IF topo \in DOMAIN SatByLevel[i] THEN Cell(SatByLevel[i][topo]) ELSE <<>>]
    BY DEF LevelTable
  <1>3. Categories(i) \in SUBSET AllTopos
    <2>1. DOMAIN SatByLevel = DOMAIN Windows
      BY DEF SatByLevel
    <2> QED
      BY <2>1, TableOfLevel DEF AllTopos
  <1>4. ASSUME NEW cat \in Categories(i)
        PROVE  cells[cat] # <<>> /\ cells[cat][1] = Cardinality(OfCategory(i, cat))
    <2> DEFINE m == BuildMetrics(OfCategory(i, cat))
               median == Percentile([k \in DOMAIN m.create |-> m.create[k].ms], 50)
    <2>1. m.count = Cardinality(OfCategory(i, cat))
      BY DEF BuildMetrics
    <2>2. m.count \in Nat /\ m.count # 0
      <3>1. IsFiniteSet(OfCategory(i, cat))
        BY <1>1, FS_Subset DEF OfCategory
      <3>2. OfCategory(i, cat) # {}
        BY DEF Categories, OfCategory
      <3> HIDE DEF m
      <3> QED
        BY <2>1, <3>1, <3>2, FS_CardinalityType, FS_EmptySet
    <2>3. cells[cat] = Cell(m)
      BY <1>2, <1>3, TableOfLevel
    <2> HIDE DEF m
    <2>4. Cell(m) = <<m.count, median>>
      BY <2>2 DEF Cell, median
    <2> HIDE DEF median
    <2>5. <<m.count, median>> # <<>> /\ <<m.count, median>>[1] = m.count
      OBVIOUS
    <2> QED
      BY <2>1, <2>3, <2>4, <2>5
  <1>5. \A topo \in AllTopos : topo \notin Categories(i) => cells[topo] = <<>>
    BY <1>2, TableOfLevel
  <1>6. DOMAIN g = Categories(i)
    <2> HIDE DEF cells
    <2> QED
      BY <1>3, <1>4, <1>5
  <1>7. \A c \in DOMAIN g : g[c] = Cardinality({s \in W : f[s] = c})
    <2> TAKE c \in DOMAIN g
    <2>1. g[c] = cells[c][1] /\ c \in Categories(i)
      <3> HIDE DEF cells
      <3> QED
        BY <1>6
    <2>2. OfCategory(i, c) = {s \in W : f[s] = c}
      BY DEF OfCategory
    <2> HIDE DEF cells, g, f, W
    <2> QED
      BY <1>4, <2>1, <2>2
  <1>8. Categories(i) = {f[s] : s \in W}
    BY DEF Categories
  <1>9. SumFunction(g) = Cardinality(W)
    <2> HIDE DEF cells, g, f, W
    <2> QED
      BY <1>1, <1>6, <1>7, <1>8, CellsAddUp
  <1> QED
    BY <1>9

\* The drain curve counts what starts before the end of the window.
LEMMA BucketsAddUp ==
    ASSUME CampaignInv, NEW i \in DOMAIN Windows
    PROVE  LET w == Windows[i]
               curve == DrainCurve(w)
           IN Cardinality(LevelSessions(w))
                = SumFunction([t \in DOMAIN curve |-> curve[t].sessions])
                    + Cardinality({s \in LevelSessions(w) : s.at = w.until})
  <1> DEFINE w == Windows[i]
             W == LevelSessions(w)
             early == {s \in W : s.at < w.until}
             last == {s \in W : s.at = w.until}
             curve == DrainCurve(w)
             g == [t \in DOMAIN curve |-> curve[t].sessions]
             f == [s \in early |-> CHOOSE t \in BucketStarts(w) : InBucket(w, t, s.at)]
  <1>1. /\ IsFiniteSet(W) /\ w.since \in Nat /\ w.until \in Nat
        /\ \A s \in W : s.at \in Nat /\ w.since <= s.at /\ s.at <= w.until
    BY SessionsInWindow, RowNumbers
  <1>2. DOMAIN g = BucketStarts(w) /\ \A t \in BucketStarts(w) : g[t] = Cardinality(SessionBucket(w, t))
    BY DEF DrainCurve
  <1>3. \A t \in BucketStarts(w) : SessionBucket(w, t) = {s \in W : InBucket(w, t, s.at)}
    BY DEF SessionBucket
  <1> HIDE DEF w, W, g
  <1>4. ASSUME NEW s \in W, NEW t \in BucketStarts(w), InBucket(w, t, s.at) PROVE s \in early
    <2>1. t \in Int /\ BucketSize \in Nat
      BY <1>1, ReportsAssumption DEF BucketStarts
    <2> DEFINE ends == {t + BucketSize, w.until}
    <2>2. s.at < Min(ends)
      BY <1>4 DEF InBucket
    <2>3. t >= w.since
      BY <1>1 DEF BucketStarts
    <2>4. ends \in SUBSET Nat /\ ends # {}
      BY <1>1, <2>1, <2>3
    <2>5. Min(ends) \in ends /\ Min(ends) <= w.until
      <3>1. Min(ends) \in ends /\ \A x \in ends : Min(ends) <= x
        <4> HIDE DEF ends
        <4> QED
          BY <2>4, FirstPlace
      <3> QED
        BY <3>1
    <2>6. Min(ends) \in Nat
      BY <2>4, <2>5
    <2> HIDE DEF ends
    <2>7. s.at < w.until
      BY <1>1, <2>2, <2>5, <2>6
    <2> QED
      BY <2>7
  <1>5. ASSUME NEW s \in early PROVE \E t \in BucketStarts(w) :
           InBucket(w, t, s.at) /\ \A u \in BucketStarts(w) : InBucket(w, u, s.at) => u = t
    <2>1. s.at \in Nat /\ w.since <= s.at /\ s.at < w.until
      BY <1>1
    <2> QED
      BY <1>1, <2>1, OneBucketOfTheWindow
  <1>6. ASSUME NEW s \in early
        PROVE  f[s] \in BucketStarts(w) /\ \A t \in BucketStarts(w) : InBucket(w, t, s.at) <=> f[s] = t
    <2>1. PICK t \in BucketStarts(w) :
             InBucket(w, t, s.at) /\ \A u \in BucketStarts(w) : InBucket(w, u, s.at) => u = t
      BY <1>5
    <2>2. f[s] = CHOOSE u \in BucketStarts(w) : InBucket(w, u, s.at)
      OBVIOUS
    <2>3. f[s] = t
      BY <2>1, <2>2
    <2> QED
      BY <2>1, <2>3
  <1>7. ASSUME NEW t \in BucketStarts(w) PROVE g[t] = Cardinality({s \in early : f[s] = t})
    <2>1. {s \in W : InBucket(w, t, s.at)} = {s \in early : InBucket(w, t, s.at)}
      BY <1>4
    <2>2. {s \in early : InBucket(w, t, s.at)} = {s \in early : f[s] = t}
      BY <1>6
    <2> QED
      BY <1>2, <1>3, <2>1, <2>2, Zenon
  <1>8. IsFiniteSet(early) /\ IsFiniteSet(last) /\ IsFiniteSet(BucketStarts(w))
    <2>1. IsFiniteSet(w.since..(w.until - 1))
      BY <1>1, FS_Interval
    <2> QED
      BY <1>1, <2>1, FS_Subset DEF BucketStarts
  <1>9. SumFunction(g) = Cardinality(early)
    <2>2. \A s \in early : f[s] \in BucketStarts(w)
      BY <1>6
    <2>3. \A t \in BucketStarts(w) : g[t] = Cardinality({s \in early : f[s] = t})
      BY <1>7
    <2> DEFINE Cells == BucketStarts(w)
    <2>4. /\ IsFiniteSet(early) /\ IsFiniteSet(Cells)
          /\ \A s \in early : f[s] \in Cells
          /\ \A t \in Cells : g[t] = Cardinality({s \in early : f[s] = t})
      BY <1>8, <2>2, <2>3
    <2> HIDE DEF early, f, last, curve, Cells
    <2>1. SumFunctionOnSet(g, Cells) = Cardinality(early)
      BY <2>4, PartsAddUp
    <2> QED
      BY <1>2, <2>1 DEF SumFunction, Cells
  <1>10. Cardinality(W) = Cardinality(early) + Cardinality(last)
    <2>1. early \cap last = {} /\ W = early \cup last
      BY <1>1
    <2> HIDE DEF early, last
    <2>2. /\ Cardinality(early) \in Nat /\ Cardinality(last) \in Nat
          /\ Cardinality(early \cap last) = 0
      BY <1>8, <2>1, FS_CardinalityType, FS_EmptySet
    <2>3. Cardinality(early \cup last) = Cardinality(early) + Cardinality(last) - Cardinality(early \cap last)
      BY <1>8, FS_Union
    <2> QED
      BY <2>1, <2>2, <2>3
  <1> QED
    BY <1>9, <1>10 DEF w, W, g

-----------------------------------------------------------------------------
LEMMA SampleNumbers ==
    ASSUME CampaignInv
    PROVE  /\ DOMAIN PumaLog = 1..second /\ second \in Nat
           /\ \A k \in 1..second : PumaLog[k].at \in Nat /\ PumaLog[k].backlog \in Nat
  <1>1. second \in Nat /\ Len(sessions) \in Nat /\ DOMAIN sessions = 1..Len(sessions)
    BY CampaignBasics
  <1>2. ASSUME NEW k \in 1..second PROVE PumaLog[k].at \in Nat /\ PumaLog[k].backlog \in Nat
    <2> DEFINE there == {i \in DOMAIN sessions : sessions[i].at <= k - 1} \ Done(k - 1)
               n == Waiting(k - 1)
    <2>1. PumaLog[k].at = k - 1 /\ PumaLog[k].backlog = Max({0, n})
      BY DEF PumaLog
    <2>2. n \in Int
      <3>1. IsFiniteSet(1..Len(sessions))
        BY <1>1, FS_Interval
      <3>2. IsFiniteSet(there)
        BY <1>1, <3>1, FS_Subset
      <3>3. Cardinality(there) \in Nat
        <4> HIDE DEF there
        <4> QED
          BY <3>2, FS_CardinalityType
      <3>4. n = Cardinality(there) - Threads
        BY DEF Waiting
      <3> HIDE DEF there, n
      <3> QED
        BY <3>3, <3>4, CampaignAssumption
    <2> HIDE DEF n
    <2>3. Max({0, n}) \in Nat
      <3>1. {0, n} \in SUBSET Int /\ {0, n} = {n} \cup {0}
        BY <2>2
      <3>4. IsFiniteSet({n})
        BY FS_Singleton
      <3>2. IsFiniteSet({0, n})
        BY <3>1, <3>4, FS_AddElement
      <3>3. Max({0, n}) \in {0, n} /\ 0 <= Max({0, n})
        BY <3>1, <3>2, Greatest
      <3> QED
        BY <2>2, <3>3
    <2> QED
      BY <1>1, <2>1, <2>3
  <1>3. DOMAIN PumaLog = 1..second
    BY DEF PumaLog
  <1> QED
    BY <1>1, <1>2, <1>3

\* The greatest backlog of a list of samples.
LEMMA GreatestBacklog ==
    ASSUME CampaignInv, NEW list \in SUBSET DOMAIN PumaLog
    PROVE  /\ IsFiniteSet({0} \cup Backlogs(list)) /\ {0} \cup Backlogs(list) \in SUBSET Nat
           /\ Max({0} \cup Backlogs(list)) \in {0} \cup Backlogs(list)
           /\ \A x \in {0} \cup Backlogs(list) : x <= Max({0} \cup Backlogs(list))
  <1> DEFINE all == {0} \cup Backlogs(list)
             f == [k \in list |-> PumaLog[k].backlog]
  <1>1. DOMAIN PumaLog = 1..second /\ second \in Nat /\ \A k \in list : PumaLog[k].backlog \in Nat
    BY SampleNumbers
  <1>2. IsFiniteSet(list)
    BY <1>1, FS_Interval, FS_Subset
  <1>3. f \in Surjection(list, Backlogs(list))
    BY DEF Surjection, Backlogs
  <1>4. IsFiniteSet(Backlogs(list))
    BY <1>2, <1>3, FS_Surjection
  <1>5. IsFiniteSet(all)
    <2>1. all = Backlogs(list) \cup {0}
      OBVIOUS
    <2> QED
      BY <1>4, <2>1, FS_AddElement
  <1>6. all \in SUBSET Nat /\ all # {}
    BY <1>1 DEF Backlogs
  <1>7. all \in SUBSET Int
    BY <1>6
  <1> HIDE DEF all
  <1>8. Max(all) \in all /\ \A x \in all : x <= Max(all)
    BY <1>5, <1>6, <1>7, Greatest
  <1> QED
    BY <1>5, <1>6, <1>8 DEF all

\* The peak of the summary is that of the curve and of the last moment.
LEMMA PeaksAgree ==
    ASSUME CampaignInv, NEW i \in DOMAIN Windows
    PROVE  LET w == Windows[i]
               curve == DrainCurve(w)
               lastBacklogs == Backlogs({t \in DOMAIN PumaLog : PumaLog[t].at = w.until})
           IN LevelSummary(w).peak = Max({0} \cup {curve[t].backlog : t \in DOMAIN curve} \cup lastBacklogs)
  <1> DEFINE w == Windows[i]
             curve == DrainCurve(w)
             atEnd == {t \in DOMAIN PumaLog : PumaLog[t].at = w.until}
             tops == {curve[t].backlog : t \in DOMAIN curve}
             A == {0} \cup Backlogs(InWindowSamples(w))
             B == {0} \cup tops \cup Backlogs(atEnd)
  <1>1. w.since \in Nat /\ w.until \in Nat /\ w.since < w.until
    BY RowNumbers
  <1>2. \A k \in DOMAIN PumaLog : PumaLog[k].at \in Nat /\ PumaLog[k].backlog \in Nat
    BY SampleNumbers
  <1>3. /\ IsFiniteSet(A) /\ A \in SUBSET Nat /\ Max(A) \in A /\ \A x \in A : x <= Max(A)
    <2>1. InWindowSamples(w) \in SUBSET DOMAIN PumaLog
      BY DEF InWindowSamples
    <2> QED
      BY <2>1, GreatestBacklog
  <1>4. \A t \in BucketStarts(w) :
           /\ PumaBucket(w, t) \in SUBSET DOMAIN PumaLog
           /\ curve[t].backlog = Max({0} \cup Backlogs(PumaBucket(w, t)))
           /\ curve[t].backlog \in {0} \cup Backlogs(PumaBucket(w, t))
           /\ \A x \in Backlogs(PumaBucket(w, t)) : x <= curve[t].backlog
    <2> TAKE t \in BucketStarts(w)
    <2>1. PumaBucket(w, t) \in SUBSET DOMAIN PumaLog
      BY DEF PumaBucket
    <2>2. curve[t].backlog = Max({0} \cup Backlogs(PumaBucket(w, t)))
      BY DEF DrainCurve
    <2> HIDE DEF curve
    <2> QED
      BY <2>1, <2>2, GreatestBacklog
  <1>5. DOMAIN curve = BucketStarts(w)
    BY DEF DrainCurve
  <1> HIDE DEF curve
  <1>6. \A k \in DOMAIN PumaLog : k \in InWindowSamples(w) <=> w.since <= PumaLog[k].at /\ PumaLog[k].at <= w.until
    BY DEF InWindowSamples, InWindow
  <1> HIDE DEF w
  <1>7. ASSUME NEW t \in BucketStarts(w) PROVE PumaBucket(w, t) \in SUBSET InWindowSamples(w)
    <2> SUFFICES ASSUME NEW k \in DOMAIN PumaLog, InBucket(w, t, PumaLog[k].at) PROVE k \in InWindowSamples(w)
      BY DEF PumaBucket
    <2> DEFINE ends == {t + BucketSize, w.until}
               at == PumaLog[k].at
    <2>1. t \in Nat /\ w.since <= t /\ BucketSize \in Nat
      BY <1>1, ReportsAssumption DEF BucketStarts
    <2>2. t <= at /\ at < Min(ends)
      BY DEF InBucket
    <2>3. ends \in SUBSET Nat /\ ends # {}
      BY <1>1, <2>1
    <2>4. Min(ends) \in ends /\ \A x \in ends : Min(ends) <= x
      <3> HIDE DEF ends
      <3> QED
        BY <2>3, FirstPlace
    <2>5. Min(ends) \in Nat /\ Min(ends) <= w.until
      BY <2>3, <2>4
    <2>6. at \in Nat
      BY <1>2
    <2> HIDE DEF ends, at
    <2>7. w.since <= at /\ at <= w.until
      BY <1>1, <2>1, <2>2, <2>5, <2>6
    <2> QED
      BY <1>6, <2>7 DEF at
  <1>8. B \subseteq A
    <2>1. Backlogs(atEnd) \subseteq Backlogs(InWindowSamples(w))
      <3>1. atEnd \subseteq InWindowSamples(w)
        BY <1>1, <1>6
      <3> QED
        BY <3>1 DEF Backlogs
    <2>2. tops \subseteq A
      <3> SUFFICES ASSUME NEW t \in BucketStarts(w) PROVE curve[t].backlog \in A
        BY <1>5
      <3>1. Backlogs(PumaBucket(w, t)) \subseteq Backlogs(InWindowSamples(w))
        BY <1>7 DEF Backlogs
      <3> QED
        BY <1>4, <3>1
    <2> QED
      BY <2>1, <2>2
  <1>9. /\ Max(B) \in B /\ \A x \in B : x <= Max(B)
    <2>1. IsFiniteSet(B) /\ B \in SUBSET Int /\ B # {}
      <3>1. 0 \in B
        OBVIOUS
      <3>2. IsFiniteSet(A) /\ A \in SUBSET Nat
        BY <1>3
      <3> HIDE DEF A, B
      <3>3. IsFiniteSet(B)
        BY <1>8, <3>2, FS_Subset
      <3>4. A \in SUBSET Int
        BY <3>2
      <3> QED
        BY <1>8, <3>1, <3>3, <3>4
    <2> HIDE DEF B
    <2> QED
      BY <2>1, Greatest
  <1>10. \A x \in A : \E y \in B : x <= y
    <2> SUFFICES ASSUME NEW k \in InWindowSamples(w) PROVE \E y \in B : PumaLog[k].backlog <= y
      BY DEF Backlogs
    <2>1. k \in DOMAIN PumaLog
      BY DEF InWindowSamples
    <2>2. PumaLog[k].at \in Nat /\ PumaLog[k].backlog \in Nat
          /\ w.since <= PumaLog[k].at /\ PumaLog[k].at <= w.until
      BY <1>2, <1>6, <2>1
    <2>3. CASE PumaLog[k].at = w.until
      <3>1. PumaLog[k].backlog \in Backlogs(atEnd)
        BY <2>1, <2>3 DEF Backlogs
      <3>2. PumaLog[k].backlog <= PumaLog[k].backlog
        BY <2>2
      <3> QED
        BY <3>1, <3>2
    <2>4. CASE PumaLog[k].at < w.until
      <3>1. PICK t \in BucketStarts(w) : InBucket(w, t, PumaLog[k].at)
        BY <1>1, <2>2, <2>4, OneBucketOfTheWindow
      <3>2. PumaLog[k].backlog \in Backlogs(PumaBucket(w, t))
        BY <2>1, <3>1 DEF PumaBucket, Backlogs
      <3>3. PumaLog[k].backlog <= curve[t].backlog /\ curve[t].backlog \in tops
        BY <1>4, <1>5, <3>2
      <3> QED
        BY <3>3
    <2>5. PumaLog[k].at = w.until \/ PumaLog[k].at < w.until
      BY <1>1, <2>2
    <2> QED
      BY <2>3, <2>4, <2>5
  <1>11. Max(A) = Max(B)
    <2> HIDE DEF A, B
    <2>4. Max(A) \in A /\ Max(B) \in A
      BY <1>3, <1>8, <1>9
    <2>5. A \in SUBSET Nat
      BY <1>3
    <2>6. \A n \in Nat : n \in Int
      OBVIOUS
    <2>1. Max(A) \in Int /\ Max(B) \in Int /\ Max(B) \in A
      BY <2>4, <2>5, <2>6, Zenon
    <2>2. PICK y \in B : Max(A) <= y
      BY <1>3, <1>10
    <2>3. y \in Int /\ y <= Max(B) /\ Max(B) <= Max(A)
      BY <1>3, <1>8, <1>9, <2>1, <2>2
    <2> QED
      BY <2>1, <2>2, <2>3
  <1>12. LevelSummary(w).peak = Max(A)
    BY DEF LevelSummary
  <1> QED
    BY <1>11, <1>12 DEF w, curve

\* A topology with sessions has a sample.
LEMMA SamplesOfAll ==
    ASSUME CampaignInv, NEW w, NEW k \in DOMAIN sessions, InWindow(w, sessions[k].at)
    PROVE  SampleOf(TopoCategory(sessions[k])[1], w) # {}
  <1> DEFINE topo == TopoCategory(sessions[k])[1]
             group == {i \in DOMAIN sessions :
                         InWindow(w, sessions[i].at) /\ TopoCategory(sessions[i])[1] = topo}
             sorted == Sorted(group, ByDuration)
             strides == {1, Len(sorted) \div Samples}
             stride == Max(strides)
             picked == {j \in DOMAIN sorted : (j - 1) % stride = 0 /\ (j - 1) \div stride < Samples}
  <1>1. IsFiniteSet(group) /\ k \in group
    <2>1. IsFiniteSet(DOMAIN sessions)
      BY CampaignBasics, FS_Interval
    <2> QED
      BY <2>1, FS_Subset
  <1> HIDE DEF group
  <1>2. Cardinality(group) \in Nat \ {0}
    BY <1>1, FS_CardinalityType, FS_EmptySet
  <1>3. DOMAIN sorted = 1..Cardinality(group) /\ Len(sorted) = Cardinality(group)
    BY <1>2 DEF Sorted
  <1> HIDE DEF sorted
  <1>4. Samples \in Nat \ {0}
    BY ReportsAssumption
  <1>5. stride \in Nat \ {0}
    <2> DEFINE q == Len(sorted) \div Samples
    <2>1. q \in Nat
      BY <1>2, <1>3, <1>4, QuotientNat
    <2> HIDE DEF q
    <2>2. strides \in SUBSET Int /\ strides = {q} \cup {1}
      BY <2>1 DEF q
    <2>3. IsFiniteSet(strides)
      BY <2>2, FS_Singleton, FS_AddElement
    <2>4. Max(strides) \in strides
      BY <2>2, <2>3, Greatest
    <2>5. 1 <= Max(strides)
      BY <2>2, <2>3, Greatest
    <2> HIDE DEF strides
    <2> QED
      BY <2>1, <2>2, <2>4, <2>5
  <1> HIDE DEF stride
  <1>6. (1 - 1) % stride = 0 /\ (1 - 1) \div stride = 0
    BY <1>5
  <1>7. 1 \in picked
    BY <1>2, <1>3, <1>4, <1>6
  <1>8. SampleOf(topo, w) = {sessions[sorted[j]] : j \in picked}
    BY DEF SampleOf, group, sorted, stride
  <1> HIDE DEF picked
  <1> QED
    BY <1>7, <1>8

LEMMA CountsOfTheLevel ==
    ASSUME CampaignInv, NEW i \in DOMAIN Windows
    PROVE  CountsAgree(i)
  <1> DEFINE w == Windows[i]
  <1>1. LevelSessions(w) = Within(Range(sessions), w)
    BY SessionsInWindow
  <1>2. LevelSummary(w).sessions = Cardinality(LevelSessions(w))
    BY DEF LevelSummary
  <1>3. \A topo \in {TopoCategory(s)[1] : s \in LevelSessions(w)} : SampleOf(topo, w) # {}
    <2> SUFFICES ASSUME NEW s \in LevelSessions(w) PROVE SampleOf(TopoCategory(s)[1], w) # {}
      OBVIOUS
    <2>1. PICK k \in DOMAIN sessions : s = sessions[k] /\ InWindow(w, sessions[k].at)
      BY <1>1 DEF Within, Range
    <2> QED
      BY <2>1, SamplesOfAll
  <1> QED
    BY <1>1, <1>2, <1>3, ColumnsAddUp, BucketsAddUp, PeaksAgree, Zenon DEF CountsAgree

\* Whatever the campaign, the topologies and the size of buckets and samples: the
\* knee of the analysis is the one of the saturation report, errors and sessions of
\* every level add up to the same in the tables, the traces, the samples and the
\* drain curve, and the peak is one of theirs.
THEOREM CampaignReportsAgree == CampaignSpec => []ReportsAgree
  <1>1. CampaignInv /\ NoAnswerNoTime => ReportsAgree
    BY KneesOfTheCampaign, ErrorsOfTheLevel, CountsOfTheLevel DEF ReportsAgree
  <1> QED
    BY <1>1, CampaignInvariant, NoAnswerNoTimeHolds, PTL
=============================================================================
