-------------------------- MODULE MeasurementProofs --------------------------
(***************************************************************************)
(* Measurement for an environment check and an experiment of any commands. *)
(***************************************************************************)
EXTENDS MeasurementProps, Integers, SequenceTheorems, TLAPS

\* The first execution of a command was a success.
FirstOk(cmd) == attempts[cmd] # <<>> /\ attempts[cmd][1] = "ok"

Result == {"ok", "fail"}
Judged == {"PASS", "FAIL"}

MeasurementTypeOK ==
    /\ at \in [Shell -> Nat \ {0}]
    /\ shell \in [Shell -> {"unborn", "running", "ended", "died"}]
    /\ errexit \in BOOLEAN
    /\ attempts \in [Command -> Seq(Result)]
    /\ log \in Seq([cmd : Command, rc : Result])
    /\ job \in [Command -> {"none", "working", "PASS", "FAIL", "ERROR", "gone"}]
    /\ junit \in [Command -> {"none", "PASS", "FAIL", "ERROR"}]

\* Under set -e a shell steps on only after a success.
CheckedSoFar ==
    /\ \A cmd \in Command : InCheck(cmd) /\ cmd[2] < at[cmd[1]] => FirstOk(cmd)
    /\ shell["tierup"] = "ended" => at["tierup"] > Len(Rebuild)

\* set +e and the first measurement come together, after the whole check.
MeasuringAfterCheck ==
    /\ skip = errexit
    /\ ~errexit => at["main"] > Len(Check) /\ \A cmd \in Command : InCheck(cmd) => FirstOk(cmd)
    /\ \A cmd \in Command : job[cmd] # "none" => ~InCheck(cmd) /\ ~errexit

\* The row of a command that is judged, with the result of its first execution.
InLog(cmd) == attempts[cmd] # <<>> /\ [cmd |-> cmd, rc |-> attempts[cmd][1]] \in Range(log)

JudgedAreLogged ==
    \A cmd \in Command :
        /\ job[cmd] \in {"working", "PASS", "FAIL"} => InLog(cmd)
        /\ job[cmd] \in Judged \/ junit[cmd] \in Judged => FirstOk(cmd) /\ InLog(cmd)

MeasurementInv == MeasurementTypeOK /\ CheckedSoFar /\ MeasuringAfterCheck /\ JudgedAreLogged

-----------------------------------------------------------------------------
(***************************************************************************)
(* The commands.                                                           *)
(***************************************************************************)
LEMMA CheckFacts ==
    /\ Check \in Seq({"a", "ap"}) /\ Check \in Seq(Kind) /\ Measured \in Seq(Kind)
    /\ Rebuild \in Seq({"a", "ap"})
    /\ Len(Check) \in Nat /\ Len(Rebuild) \in Nat
    /\ Len(Check) = Len(Before) + Len(Beside) + Len(After)
    /\ Len(Before) \in Nat /\ Len(Beside) \in Nat /\ Len(After) \in Nat
  <1>1. Before \in Seq({"a", "ap"}) /\ Beside \in Seq({"a"}) /\ After \in Seq({"a"})
    BY MeasurementAssumption
  <1>2. Beside \in Seq({"a", "ap"}) /\ After \in Seq({"a", "ap"})
    BY <1>1, SeqMonotonic
  <1>3. /\ Before \o Beside \in Seq({"a", "ap"})
        /\ Len(Before \o Beside) = Len(Before) + Len(Beside)
    BY <1>1, <1>2, ConcatProperties
  <1>4. Check \in Seq({"a", "ap"}) /\ Len(Check) = Len(Before) + Len(Beside) + Len(After)
    BY <1>2, <1>3, ConcatProperties DEF Check
  <1>5. {"a", "ap"} \subseteq Kind
    BY DEF Kind
  <1>6. Check \in Seq(Kind)
    BY <1>4, <1>5, SeqMonotonic
  <1> QED
    BY <1>1, <1>2, <1>4, <1>6, MeasurementAssumption

LEMMA CommandFacts ==
    ASSUME NEW cmd \in Command
    PROVE  /\ cmd = <<cmd[1], cmd[2]>> /\ cmd[1] \in Shell /\ cmd[2] \in Nat \ {0}
           /\ cmd[2] <= Len(Program[cmd[1]])
           /\ cmd[1] = "tierup" => cmd[2] <= Len(Rebuild)
           /\ InCheck(cmd) => KindOf(cmd) \notin {"e", "ej"}
  <1>1. PICK sh \in Shell : cmd \in {sh} \X (1 .. Len(Program[sh]))
    BY DEF Command
  <1>2. Program["main"] = Check \o Measured /\ Program["tierup"] = Rebuild
    BY DEF Program, Shell
  <1>3. /\ Check \o Measured \in Seq(Kind)
        /\ \A i \in 1 .. Len(Check) + Len(Measured) :
             (Check \o Measured)[i] = IF i <= Len(Check) THEN Check[i] ELSE Measured[i - Len(Check)]
        /\ Len(Check \o Measured) = Len(Check) + Len(Measured)
    BY CheckFacts, ConcatProperties
  <1>4. Len(Program[sh]) \in Nat
    BY <1>2, <1>3, CheckFacts DEF Shell
  <1>5. /\ cmd = <<cmd[1], cmd[2]>> /\ cmd[1] = sh
        /\ cmd[2] \in Nat \ {0} /\ cmd[2] <= Len(Program[sh])
    BY <1>1, <1>4
  <1>6. ASSUME InCheck(cmd)
        PROVE  KindOf(cmd) \in {"a", "ap"}
    <2>1. CASE sh = "tierup"
      BY <1>2, <1>5, <2>1, CheckFacts DEF KindOf
    <2>2. CASE sh = "main"
      <3>1. cmd[2] \in 1 .. Len(Check)
        BY <1>5, <1>6, <2>2, CheckFacts DEF InCheck
      <3>2. Program["main"][cmd[2]] = Check[cmd[2]]
        BY <1>2, <1>3, <1>5, <2>2, <3>1, CheckFacts
      <3>3. Check[cmd[2]] \in {"a", "ap"}
        BY <3>1, CheckFacts
      <3> QED
        BY <1>5, <2>2, <3>2, <3>3 DEF KindOf
    <2> QED
      BY <2>1, <2>2 DEF Shell
  <1> QED
    BY <1>2, <1>5, <1>6

LEMMA CurrentFacts ==
    ASSUME MeasurementTypeOK, NEW sh \in Shell, Busy(sh)
    PROVE  /\ Current(sh) \in Command /\ Current(sh)[1] = sh /\ Current(sh)[2] = at[sh]
           /\ at[sh] \in Nat \ {0} /\ shell[sh] = "running"
           /\ ~InCheck(Current(sh)) => sh = "main" /\ ~errexit
  <1>1. /\ Current(sh) \in Command /\ Current(sh)[1] = sh /\ Current(sh)[2] = at[sh]
        /\ at[sh] \in Nat \ {0} /\ shell[sh] = "running" /\ Passed(sh)
    BY DEF Busy, Current, MeasurementTypeOK
  <1>2. ASSUME ~InCheck(Current(sh))
        PROVE  sh = "main" /\ ~errexit
    <2>1. sh = "main" /\ ~(at["main"] <= Len(Check))
      BY <1>1, <1>2 DEF InCheck, Shell
    <2>2. at["main"] >= EndOfCheck
      BY <1>1, <2>1, CheckFacts DEF EndOfCheck
    <2> QED
      BY <1>1, <2>1, <2>2 DEF Passed
  <1> QED
    BY <1>1, <1>2

-----------------------------------------------------------------------------
(***************************************************************************)
(* Executions and retries: the first result of a command stays.            *)
(***************************************************************************)
LEMMA AppendedFacts ==
    ASSUME MeasurementTypeOK, NEW c \in Command, NEW rc \in Result,
           attempts' = [attempts EXCEPT ![c] = Append(attempts[c], rc)]
    PROVE  /\ attempts' \in [Command -> Seq(Result)]
           /\ \A cmd \in Command : attempts[cmd] # <<>> =>
                attempts'[cmd] # <<>> /\ attempts'[cmd][1] = attempts[cmd][1]
  <1>1. attempts[c] \in Seq(Result)
    BY DEF MeasurementTypeOK
  <1>2. Append(attempts[c], rc) \in Seq(Result) /\ Append(attempts[c], rc) # <<>>
    BY <1>1
  <1>3. attempts[c] # <<>> => Append(attempts[c], rc)[1] = attempts[c][1]
    BY <1>1
  <1> QED
    BY <1>2, <1>3 DEF MeasurementTypeOK

LEMMA AttemptKeeps ==
    ASSUME MeasurementInv, NEW c \in Command, NEW rc \in Result,
           attempts' = [attempts EXCEPT ![c] = Append(attempts[c], rc)],
           \/ UNCHANGED shells
           \/ \E sh \in Shell : Die(sh),
           UNCHANGED <<log, job, junit>>
    PROVE  MeasurementInv'
  <1>1. MeasurementTypeOK /\ CheckedSoFar /\ MeasuringAfterCheck /\ JudgedAreLogged
    BY DEF MeasurementInv
  <1>2. /\ attempts' \in [Command -> Seq(Result)]
        /\ \A cmd \in Command : attempts[cmd] # <<>> =>
             attempts'[cmd] # <<>> /\ attempts'[cmd][1] = attempts[cmd][1]
    BY <1>1, AppendedFacts
  <1>3. /\ at' = at /\ errexit' = errexit /\ skip' = skip
        /\ shell' \in [Shell -> {"unborn", "running", "ended", "died"}]
        /\ shell'["tierup"] = "ended" => shell["tierup"] = "ended"
    BY <1>1 DEF MeasurementTypeOK, shells, Die, Shell
  <1>4. /\ \A cmd \in Command : FirstOk(cmd) => FirstOk(cmd)'
        /\ \A cmd \in Command : InLog(cmd) => InLog(cmd)'
    BY <1>2 DEF FirstOk, InLog
  <1>5. MeasurementTypeOK'
    BY <1>1, <1>2, <1>3 DEF MeasurementTypeOK
  <1>6. CheckedSoFar'
    BY <1>1, <1>3, <1>4 DEF CheckedSoFar
  <1>7. MeasuringAfterCheck'
    BY <1>1, <1>3, <1>4 DEF MeasuringAfterCheck
  <1>8. JudgedAreLogged'
    BY <1>1, <1>4 DEF JudgedAreLogged
  <1> QED
    BY <1>5, <1>6, <1>7, <1>8 DEF MeasurementInv

LEMMA ExecuteStep == ASSUME MeasurementInv, NEW sh \in Shell, Execute(sh) PROVE MeasurementInv'
  <1>1. Current(sh) \in Command
    BY CurrentFacts DEF Execute, MeasurementInv
  <1>2. PICK rc \in Result :
          attempts' = [attempts EXCEPT ![Current(sh)] = Append(attempts[Current(sh)], rc)]
    BY DEF Execute, Result
  <1>3. UNCHANGED shells /\ UNCHANGED <<log, job, junit>>
    BY DEF Execute
  <1> QED
    BY <1>1, <1>2, <1>3, AttemptKeeps

LEMMA RetryStep == ASSUME MeasurementInv, NEW sh \in Shell, Retry(sh) PROVE MeasurementInv'
  <1>1. Current(sh) \in Command
    BY CurrentFacts DEF Retry, MeasurementInv
  <1>2. PICK rc \in Result :
          /\ attempts' = [attempts EXCEPT ![Current(sh)] = Append(attempts[Current(sh)], rc)]
          /\ Die(sh) \/ UNCHANGED shells
    BY DEF Retry, Result
  <1>3. UNCHANGED <<log, job, junit>>
    BY DEF Retry
  <1> QED
    BY <1>1, <1>2, <1>3, AttemptKeeps

-----------------------------------------------------------------------------
(***************************************************************************)
(* The row, the job, and the examinations.                                 *)
(***************************************************************************)
LEMMA LoggedFacts ==
    ASSUME MeasurementTypeOK, NEW c \in Command, NEW rc \in Result,
           log' = Append(log, [cmd |-> c, rc |-> rc])
    PROVE  /\ log' \in Seq([cmd : Command, rc : Result])
           /\ Range(log) \subseteq Range(log')
           /\ [cmd |-> c, rc |-> rc] \in Range(log')
  <1> DEFINE row == [cmd |-> c, rc |-> rc]
  <1>1. log \in Seq([cmd : Command, rc : Result]) /\ row \in [cmd : Command, rc : Result]
    BY DEF MeasurementTypeOK
  <1> HIDE DEF row
  <1>2. /\ log' \in Seq([cmd : Command, rc : Result])
        /\ Len(log) \in Nat /\ DOMAIN log = 1 .. Len(log)
        /\ DOMAIN log' = 1 .. Len(log) + 1
        /\ \A i \in 1 .. Len(log) : log'[i] = log[i]
        /\ log'[Len(log) + 1] = row
    BY <1>1 DEF row
  <1>3. Range(log) \subseteq Range(log')
    BY <1>2 DEF Range
  <1>4. Len(log) + 1 \in DOMAIN log'
    BY <1>2
  <1> QED
    BY <1>2, <1>3, <1>4 DEF Range, row

\* A row is added, and maybe a job, once the attempts of the command are there.
LEMMA RowKeeps ==
    ASSUME MeasurementInv, NEW sh \in Shell, Busy(sh),
           attempts' \in [Command -> Seq(Result)], attempts'[Current(sh)] # <<>>,
           \A cmd \in Command : cmd # Current(sh) => attempts'[cmd] = attempts[cmd],
           attempts'[Current(sh)] = attempts[Current(sh)]
             \/ (attempts'[Current(sh)] = <<"ok">> /\ ~InCheck(Current(sh))),
           log' = Append(log, [cmd |-> Current(sh), rc |-> attempts'[Current(sh)][1]]),
           \E state \in {JobOf(sh), "gone", job[Current(sh)]} :
             /\ job' = [job EXCEPT ![Current(sh)] = state]
             /\ state = "gone" => ~InCheck(Current(sh)),
           \/ Die(sh)
           \/ StepOn(sh) /\ (Strict(sh) => attempts'[Current(sh)][1] = "ok"),
           UNCHANGED junit
    PROVE  MeasurementInv'
  <1>1. MeasurementTypeOK /\ CheckedSoFar /\ MeasuringAfterCheck /\ JudgedAreLogged
    BY DEF MeasurementInv
  <1>0. PICK c \in Command : c = Current(sh)
    BY <1>1, CurrentFacts
  <1>2. /\ c[1] = sh /\ c[2] = at[sh] /\ at[sh] \in Nat \ {0}
        /\ shell[sh] = "running" /\ (~InCheck(c) => sh = "main" /\ ~errexit)
    BY <1>0, <1>1, CurrentFacts
  <1>a. /\ attempts'[c] # <<>> /\ (attempts'[c] = attempts[c] \/ (attempts'[c] = <<"ok">> /\ ~InCheck(c)))
        /\ \A cmd \in Command : cmd # c => attempts'[cmd] = attempts[cmd]
        /\ log' = Append(log, [cmd |-> c, rc |-> attempts'[c][1]])
        /\ Die(sh) \/ (StepOn(sh) /\ (Strict(sh) => attempts'[c][1] = "ok"))
    BY <1>0
  <1>3. attempts'[c] \in Seq(Result) /\ attempts'[c][1] \in Result
    BY <1>a
  <1>4. /\ log' \in Seq([cmd : Command, rc : Result])
        /\ Range(log) \subseteq Range(log')
        /\ [cmd |-> c, rc |-> attempts'[c][1]] \in Range(log')
    BY <1>1, <1>3, <1>a, LoggedFacts
  <1>5. /\ at' \in [Shell -> Nat \ {0}] /\ errexit' = errexit /\ skip' = skip
        /\ shell' \in [Shell -> {"unborn", "running", "ended", "died"}]
        /\ shell'["tierup"] = "ended" => shell["tierup"] = "ended"
        /\ at'["tierup"] >= at["tierup"]
        /\ \A s \in Shell : at'[s] = at[s] \/ (s = sh /\ at'[s] = at[s] + 1)
        /\ at'[sh] # at[sh] => (Strict(sh) => attempts'[c][1] = "ok")
    BY <1>1, <1>2, <1>a DEF MeasurementTypeOK, Die, StepOn, Shell
  <1>6. PICK state \in {JobOf(sh), "gone", job[c]} :
          /\ job' = [job EXCEPT ![c] = state]
          /\ state = "gone" => ~InCheck(c)
    BY <1>0
  <1>7. state \in {"none", "working", "PASS", "FAIL", "ERROR", "gone"}
    BY <1>1, <1>2, <1>6 DEF JobOf, MeasurementTypeOK
  <1>8. /\ job' \in [Command -> {"none", "working", "PASS", "FAIL", "ERROR", "gone"}]
        /\ job'[c] = state
        /\ \A cmd \in Command : cmd # c => job'[cmd] = job[cmd]
    BY <1>1, <1>2, <1>6, <1>7 DEF MeasurementTypeOK
  <1>9. InLog(c)'
    BY <1>4, <1>a DEF InLog
  <1>10. \A cmd \in Command : InLog(cmd) => InLog(cmd)'
    BY <1>4, <1>9, <1>a DEF InLog
  <1>11. \A cmd \in Command : FirstOk(cmd) => FirstOk(cmd)'
    BY <1>a DEF FirstOk
  <1>12. MeasurementTypeOK'
    BY <1>1, <1>4, <1>5, <1>8 DEF MeasurementTypeOK
  <1>13. CheckedSoFar'
    <2>1. ASSUME NEW cmd \in Command, InCheck(cmd), cmd[2] < at'[cmd[1]]
          PROVE  FirstOk(cmd)'
      <3>0. cmd = <<cmd[1], cmd[2]>> /\ cmd[1] \in Shell /\ cmd[2] \in Nat
            /\ c = <<c[1], c[2]>>
        BY <1>2, CommandFacts
      <3>1. CASE cmd[2] < at[cmd[1]]
        BY <1>1, <1>11, <2>1, <3>1 DEF CheckedSoFar
      <3>2. CASE ~(cmd[2] < at[cmd[1]])
        <4>1. at[cmd[1]] \in Nat
          BY <1>1, <3>0 DEF MeasurementTypeOK
        <4>2. cmd[1] = sh /\ cmd[2] = at[sh] /\ at'[sh] # at[sh]
          BY <1>5, <2>1, <3>0, <3>2, <4>1
        <4>3. cmd = c
          BY <1>2, <3>0, <4>2
        <4>4. CASE Strict(sh)
          BY <1>5, <1>a, <4>2, <4>3, <4>4 DEF FirstOk
        <4>5. CASE ~Strict(sh)
          <5>1. ~errexit
            BY <4>5 DEF Strict
          <5> QED
            BY <1>1, <1>11, <2>1, <5>1 DEF MeasuringAfterCheck
        <4> QED
          BY <4>4, <4>5
      <3> QED
        BY <3>1, <3>2
    <2>2. shell'["tierup"] = "ended" => at'["tierup"] > Len(Rebuild)
      BY <1>1, <1>5, CheckFacts DEF CheckedSoFar, MeasurementTypeOK, Shell
    <2> QED
      BY <2>1, <2>2 DEF CheckedSoFar
  <1>14. MeasuringAfterCheck'
    <2>1. /\ skip' = errexit'
          /\ ~errexit' => \A cmd \in Command : InCheck(cmd) => FirstOk(cmd)'
      BY <1>1, <1>5, <1>11 DEF MeasuringAfterCheck
    <2>3. ~errexit' => at'["main"] > Len(Check)
      BY <1>1, <1>5, CheckFacts DEF MeasuringAfterCheck, MeasurementTypeOK, Shell
    <2>2. job'[c] # "none" => ~InCheck(c) /\ ~errexit
      <3>1. CASE state = "gone"
        BY <1>2, <1>6, <3>1
      <3>2. CASE state = job[c]
        BY <1>1, <1>2, <1>8, <3>2 DEF MeasuringAfterCheck
      <3>3. CASE state = JobOf(sh) /\ state # "none"
        <4>1. sh = "main" /\ ~skip
          BY <3>3 DEF JobOf, Skipping, Shell
        <4>2. ~errexit
          BY <1>1, <4>1 DEF MeasuringAfterCheck
        <4>3. at["main"] > Len(Check)
          BY <1>1, <4>2 DEF MeasuringAfterCheck
        <4> QED
          BY <1>2, <4>1, <4>2, <4>3, CheckFacts DEF InCheck
      <3> QED
        BY <1>6, <1>8, <3>1, <3>2, <3>3
    <2> QED
      BY <1>1, <1>5, <1>8, <2>1, <2>2, <2>3 DEF MeasuringAfterCheck
  <1>15. JudgedAreLogged'
    <2>1. job'[c] \in Judged => FirstOk(c)
      BY <1>1, <1>2, <1>6, <1>8 DEF JudgedAreLogged, JobOf, Judged
    <2> QED
      BY <1>1, <1>8, <1>9, <1>10, <1>11, <2>1 DEF JudgedAreLogged
  <1> QED
    BY <1>12, <1>13, <1>14, <1>15 DEF MeasurementInv

LEMMA RecordStep == ASSUME MeasurementInv, NEW sh \in Shell, Record(sh) PROVE MeasurementInv'
  <1>1. MeasurementTypeOK /\ Busy(sh) /\ Current(sh) \in Command
    BY CurrentFacts DEF MeasurementInv, Record
  <1>2. attempts[Current(sh)] \in Seq(Result) /\ attempts[Current(sh)] # <<>>
    BY <1>1 DEF MeasurementTypeOK, Record, Settled
  <1>3. Rc(Current(sh)) = attempts[Current(sh)][1] /\ attempts[Current(sh)][1] \in Result
    BY <1>2 DEF Rc
  <1>4. /\ attempts' = attempts /\ junit' = junit
        /\ log' = Append(log, [cmd |-> Current(sh), rc |-> attempts'[Current(sh)][1]])
        /\ job' = [job EXCEPT ![Current(sh)] = JobOf(sh)] /\ JobOf(sh) # "gone"
        /\ Die(sh) \/ (StepOn(sh) /\ (Strict(sh) => attempts'[Current(sh)][1] = "ok"))
    BY <1>3 DEF Record, JobOf, Result
  <1>5. attempts' \in [Command -> Seq(Result)]
    BY <1>1, <1>4 DEF MeasurementTypeOK
  <1> QED
    BY <1>1, <1>2, <1>4, <1>5, RowKeeps

LEMMA ExamineStep == ASSUME MeasurementInv, NEW sh \in Shell, Examine(sh) PROVE MeasurementInv'
  <1>1. /\ MeasurementTypeOK /\ CheckedSoFar /\ MeasuringAfterCheck /\ JudgedAreLogged
        /\ Busy(sh)
    BY DEF MeasurementInv, Examine
  <1>2. PICK c \in Command : c = Current(sh)
    BY <1>1, CurrentFacts
  <1>3. ~InCheck(c) /\ sh = "main" /\ ~errexit
    BY <1>1, <1>2, CommandFacts, CurrentFacts DEF Examine
  <1>4. junit' = junit /\ StepOn(sh) /\ ~Strict(sh)
    BY <1>3 DEF Examine, Strict
  <1>5. CASE UNCHANGED <<attempts, log, job>>
    <2>1. /\ at' \in [Shell -> Nat \ {0}] /\ at'["main"] = at["main"] + 1
          /\ at'["tierup"] = at["tierup"]
          /\ shell' = shell /\ errexit' = errexit /\ skip' = skip
      BY <1>1, <1>3, <1>4 DEF StepOn, MeasurementTypeOK, Shell
    <2>2. \A cmd \in Command : (FirstOk(cmd)' <=> FirstOk(cmd)) /\ (InLog(cmd)' <=> InLog(cmd))
      BY <1>5 DEF FirstOk, InLog
    <2>3. MeasurementTypeOK'
      BY <1>1, <1>4, <1>5, <2>1 DEF MeasurementTypeOK
    <2>4. CheckedSoFar'
      BY <1>1, <1>3, <2>1, <2>2 DEF CheckedSoFar, MeasuringAfterCheck
    <2>5. MeasuringAfterCheck'
      BY <1>1, <1>5, <2>1, <2>2, CheckFacts DEF MeasuringAfterCheck, MeasurementTypeOK, Shell
    <2>6. JudgedAreLogged'
      BY <1>1, <1>4, <1>5, <2>2 DEF JudgedAreLogged
    <2> QED
      BY <2>3, <2>4, <2>5, <2>6 DEF MeasurementInv
  <1>6. CASE /\ attempts' = [attempts EXCEPT ![Current(sh)] = <<"ok">>]
             /\ log' = Append(log, [cmd |-> Current(sh), rc |-> "ok"])
             /\ \/ UNCHANGED job
                \/ \E state \in {JobOf(sh), "gone"} :
                     job' = [job EXCEPT ![Current(sh)] = state]
    <2>1. <<"ok">> \in Seq(Result) /\ <<"ok">> # <<>> /\ <<"ok">>[1] = "ok"
      BY DEF Result
    <2>2. /\ attempts' \in [Command -> Seq(Result)] /\ attempts'[c] = <<"ok">>
          /\ \A cmd \in Command : cmd # c => attempts'[cmd] = attempts[cmd]
      BY <1>1, <1>2, <1>6, <2>1 DEF MeasurementTypeOK
    <2>3. PICK state \in {JobOf(sh), "gone", job[Current(sh)]} :
            job' = [job EXCEPT ![Current(sh)] = state]
      <3>1. CASE UNCHANGED job
        <4>1. job' = [job EXCEPT ![Current(sh)] = job[Current(sh)]]
          BY <1>1, <1>2, <3>1 DEF MeasurementTypeOK
        <4> QED
          BY <4>1
      <3> QED
        BY <1>6, <3>1
    <2>4. log' = Append(log, [cmd |-> Current(sh), rc |-> attempts'[Current(sh)][1]])
      BY <1>2, <1>6, <2>1, <2>2
    <2> QED
      BY <1>1, <1>2, <1>3, <1>4, <2>1, <2>2, <2>3, <2>4, RowKeeps
  <1> QED
    BY <1>5, <1>6 DEF Examine

-----------------------------------------------------------------------------
(***************************************************************************)
(* The main shell between commands, and the jobs.                          *)
(***************************************************************************)
LEMMA ForkStep == ASSUME MeasurementInv, ForkRebuild \/ WaitFails \/ RebuildEnds PROVE MeasurementInv'
  <1>1. MeasurementTypeOK /\ CheckedSoFar /\ MeasuringAfterCheck /\ JudgedAreLogged
    BY DEF MeasurementInv
  <1>2. /\ at' = at /\ errexit' = errexit /\ skip' = skip /\ attempts' = attempts
        /\ log' = log /\ job' = job /\ junit' = junit
        /\ shell' \in [Shell -> {"unborn", "running", "ended", "died"}]
        /\ shell'["tierup"] = "ended" => at["tierup"] > Len(Rebuild)
    BY <1>1 DEF ForkRebuild, WaitFails, RebuildEnds, Die, MeasurementTypeOK, CheckedSoFar, Shell
  <1>3. MeasurementTypeOK'
    BY <1>1, <1>2 DEF MeasurementTypeOK
  <1>4. CheckedSoFar' /\ MeasuringAfterCheck' /\ JudgedAreLogged'
    BY <1>1, <1>2 DEF CheckedSoFar, MeasuringAfterCheck, JudgedAreLogged, FirstOk, InLog
  <1> QED
    BY <1>3, <1>4 DEF MeasurementInv

LEMMA EndCheckStep == ASSUME MeasurementInv, EndCheck PROVE MeasurementInv'
  <1>1. MeasurementTypeOK /\ CheckedSoFar /\ MeasuringAfterCheck /\ JudgedAreLogged
    BY DEF MeasurementInv
  <1>2. /\ at' = at /\ shell' = shell /\ attempts' = attempts
        /\ log' = log /\ job' = job /\ junit' = junit
        /\ at["main"] = Len(Check) + 1 /\ shell["tierup"] = "ended"
        /\ errexit' = FALSE /\ skip' = FALSE
    BY DEF EndCheck, EndOfCheck
  <1>3. MeasurementTypeOK'
    BY <1>1, <1>2 DEF MeasurementTypeOK
  <1>4. CheckedSoFar' /\ JudgedAreLogged'
    BY <1>1, <1>2 DEF CheckedSoFar, JudgedAreLogged, FirstOk, InLog
  <1>5. ASSUME NEW cmd \in Command, InCheck(cmd)
        PROVE  FirstOk(cmd)
    <2>1. /\ cmd[1] \in Shell /\ cmd[2] \in Nat
          /\ cmd[1] = "tierup" => cmd[2] <= Len(Rebuild)
      BY CommandFacts
    <2>2. at["tierup"] \in Nat /\ at["tierup"] > Len(Rebuild)
      BY <1>1, <1>2 DEF CheckedSoFar, MeasurementTypeOK, Shell
    <2>3. cmd[2] < at[cmd[1]]
      BY <1>2, <1>5, <2>1, <2>2, CheckFacts DEF InCheck, Shell
    <2> QED
      BY <1>1, <1>5, <2>3 DEF CheckedSoFar
  <1>6. MeasuringAfterCheck'
    <2>1. skip' = errexit' /\ at'["main"] > Len(Check)
      <3>1. Len(Check) \in Nat
        BY CheckFacts
      <3>2. at'["main"] > Len(Check)
        BY <1>2, <3>1
      <3> QED
        BY <1>2, <3>2
    <2>2. \A cmd \in Command : InCheck(cmd) => FirstOk(cmd)'
      BY <1>2, <1>5 DEF FirstOk
    <2>3. \A cmd \in Command : job'[cmd] # "none" => ~InCheck(cmd) /\ ~errexit'
      BY <1>1, <1>2 DEF MeasuringAfterCheck
    <2> QED
      BY <2>1, <2>2, <2>3 DEF MeasuringAfterCheck
  <1> QED
    BY <1>3, <1>4, <1>6 DEF MeasurementInv

LEMMA JunitUploadStep == ASSUME MeasurementInv, JunitUpload PROVE MeasurementInv'
  <1>1. MeasurementTypeOK /\ CheckedSoFar /\ MeasuringAfterCheck /\ JudgedAreLogged
    BY DEF MeasurementInv
  <1>2. /\ at' = at /\ errexit' = errexit /\ skip' = skip /\ attempts' = attempts
        /\ log' = log /\ job' = job /\ junit' = junit
        /\ shell' \in [Shell -> {"unborn", "running", "ended", "died"}]
        /\ shell'["tierup"] = shell["tierup"]
    BY <1>1 DEF JunitUpload, MeasurementTypeOK, Shell
  <1>3. MeasurementTypeOK'
    BY <1>1, <1>2 DEF MeasurementTypeOK
  <1>4. CheckedSoFar' /\ MeasuringAfterCheck' /\ JudgedAreLogged'
    BY <1>1, <1>2 DEF CheckedSoFar, MeasuringAfterCheck, JudgedAreLogged, FirstOk, InLog
  <1> QED
    BY <1>3, <1>4 DEF MeasurementInv

LEMMA JobSteps ==
    ASSUME MeasurementInv, NEW c \in Command, JobLeaves(c) \/ Judge(c) \/ AddToJunit(c)
    PROVE  MeasurementInv'
  <1>1. MeasurementTypeOK /\ CheckedSoFar /\ MeasuringAfterCheck /\ JudgedAreLogged
    BY DEF MeasurementInv
  <1>2. /\ at' = at /\ shell' = shell /\ errexit' = errexit /\ skip' = skip
        /\ attempts' = attempts /\ log' = log
    BY DEF JobLeaves, Judge, AddToJunit, shells
  <1>3. job[c] \in {"working", "PASS", "FAIL", "ERROR"}
    BY DEF JobLeaves, Judge, AddToJunit
  <1>4. \E state \in {"PASS", "FAIL", "ERROR", "gone"} :
          /\ job' = [job EXCEPT ![c] = state]
          /\ state \in Judged => Rc(c) = "ok" /\ job[c] = "working"
    BY DEF JobLeaves, Judge, AddToJunit, JudgementOf, Judged
  <1>5. \/ junit' = junit
        \/ junit' = [junit EXCEPT ![c] = job[c]] /\ job[c] \in {"PASS", "FAIL", "ERROR"}
    BY DEF JobLeaves, Judge, AddToJunit
  <1>6. /\ \A cmd \in Command : cmd # c => job'[cmd] = job[cmd]
        /\ job'[c] \in {"PASS", "FAIL", "ERROR", "gone"}
        /\ job'[c] \in Judged => Rc(c) = "ok" /\ job[c] = "working"
        /\ \A cmd \in Command : junit'[cmd] \in Judged => junit[cmd] \in Judged \/ job[cmd] \in Judged
    BY <1>1, <1>4, <1>5 DEF MeasurementTypeOK, Judged
  <1>7. MeasurementTypeOK'
    BY <1>1, <1>2, <1>4, <1>5 DEF MeasurementTypeOK
  <1>8. \A cmd \in Command : (FirstOk(cmd)' <=> FirstOk(cmd)) /\ (InLog(cmd)' <=> InLog(cmd))
    BY <1>2 DEF FirstOk, InLog
  <1>9. CheckedSoFar'
    BY <1>1, <1>2, <1>8 DEF CheckedSoFar
  <1>10. MeasuringAfterCheck'
    BY <1>1, <1>2, <1>3, <1>6, <1>8 DEF MeasuringAfterCheck
  <1>11. JudgedAreLogged'
    <2>1. job'[c] \in Judged => FirstOk(c) /\ InLog(c)
      <3> SUFFICES ASSUME job'[c] \in Judged PROVE FirstOk(c) /\ InLog(c)
        OBVIOUS
      <3>1. InLog(c) /\ Rc(c) = "ok"
        BY <1>1, <1>6 DEF JudgedAreLogged
      <3>2. attempts[c] \in Seq(Result) /\ attempts[c] # <<>>
        BY <1>1, <3>1 DEF MeasurementTypeOK, InLog
      <3> QED
        BY <3>1, <3>2 DEF FirstOk, Rc
    <2> QED
      BY <1>1, <1>6, <1>8, <2>1 DEF JudgedAreLogged, Judged
  <1> QED
    BY <1>7, <1>9, <1>10, <1>11 DEF MeasurementInv

-----------------------------------------------------------------------------
LEMMA MeasurementInitHolds == Init => MeasurementInv
  <1> SUFFICES ASSUME Init PROVE MeasurementInv
    OBVIOUS
  <1>1. /\ at = [sh \in Shell |-> 1] /\ errexit = TRUE /\ skip = TRUE
        /\ shell = [sh \in Shell |-> IF sh = "main" THEN "running" ELSE "unborn"]
        /\ attempts = [cmd \in Command |-> <<>>] /\ log = <<>>
        /\ job = [cmd \in Command |-> "none"] /\ junit = [cmd \in Command |-> "none"]
    BY DEF Init, NoResult
  <1>2. MeasurementTypeOK
    BY <1>1 DEF MeasurementTypeOK
  <1>3. CheckedSoFar
    BY <1>1, CommandFacts DEF CheckedSoFar, Shell
  <1>4. MeasuringAfterCheck /\ JudgedAreLogged
    BY <1>1 DEF MeasuringAfterCheck, JudgedAreLogged, Judged
  <1> QED
    BY <1>2, <1>3, <1>4 DEF MeasurementInv

LEMMA MeasurementInvInductive == MeasurementInv /\ [Next]_vars => MeasurementInv'
  <1> SUFFICES ASSUME MeasurementInv, [Next]_vars PROVE MeasurementInv'
    OBVIOUS
  <1>1. CASE UNCHANGED vars
    BY <1>1 DEF vars, shells, MeasurementInv, MeasurementTypeOK, CheckedSoFar,
       MeasuringAfterCheck, JudgedAreLogged, FirstOk, InLog
  <1>2. CASE Next
    BY <1>2, ExecuteStep, RetryStep, RecordStep, ExamineStep, ForkStep, EndCheckStep,
       JunitUploadStep, JobSteps
    DEF Next, ShellStep, MainStep, JobStep
  <1> QED
    BY <1>1, <1>2

(***************************************************************************)
(* Whatever commands an environment check and an experiment have: a        *)
(* verdict in junit.xml is of a command that succeeded at its first        *)
(* execution and has its row in measurement.log, and nothing is measured   *)
(* before every command of the check has succeeded at once, those of the   *)
(* forked rebuild included.                                                *)
(***************************************************************************)
THEOREM SpecVerdictIsEarned == Spec => []VerdictIsEarned
  <1>1. MeasurementInv => VerdictIsEarned
    <2> SUFFICES ASSUME MeasurementInv PROVE VerdictOfFirstAttempt /\ MeasuredAfterCheck
      BY DEF VerdictIsEarned
    <2>1. VerdictOfFirstAttempt
      <3> SUFFICES ASSUME NEW cmd \in Command, junit[cmd] \in {"PASS", "FAIL"}
                   PROVE  attempts[cmd][1] = "ok" /\ [cmd |-> cmd, rc |-> "ok"] \in Range(log)
        BY DEF VerdictOfFirstAttempt
      <3>1. FirstOk(cmd) /\ InLog(cmd)
        BY DEF MeasurementInv, JudgedAreLogged, Judged
      <3> QED
        BY <3>1 DEF FirstOk, InLog
    <2>2. MeasuredAfterCheck
      BY DEF MeasurementInv, MeasuringAfterCheck, MeasuredAfterCheck, FirstOk
    <2> QED
      BY <2>1, <2>2
  <1> QED
    BY <1>1, MeasurementInitHolds, MeasurementInvInductive, PTL DEF Spec
=============================================================================
