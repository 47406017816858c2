------------------------ MODULE ContainerPoolProofs ------------------------
(***************************************************************************)
(* Proofs about the container pool, for any hosts, lists and run sizes,    *)
(* and about the batch loop that draws from it.                            *)
(***************************************************************************)
EXTENDS BatchSchedule, FiniteSetTheorems, TLAPS

(***************************************************************************)
(* Arithmetic of the counter and of the selections.                        *)
(***************************************************************************)

\* Whole groups add up: bash's and Jinja's divisions by four lose nothing.
LEMMA WholeGroups ==
  ASSUME NEW a \in Nat, NEW b \in Nat, a % 4 = 0, b % 4 = 0
  PROVE  /\ a \div 4 \in Nat
         /\ (a + b) % 4 = 0
         /\ (a + b) \div 4 = (a \div 4) + (b \div 4)
  BY SMT

\* A selection is a set of containers.
LEMMA SelectionType ==
  ASSUME NEW n \in Nat, NEW m \in Nat
  PROVE  Selection(n, m) \subseteq Container
  BY DEF Selection

LEMMA ContainerLine ==
  ASSUME NEW c \in Container
  PROVE  c[1] \in EL /\ c[2] \in Nat
  BY PoolAssumption DEF Container

\* The next selection starts where the counted ones end.
LEMMA NextSelection ==
  ASSUME NEW n \in Nat, NEW m \in Nat
  PROVE  /\ Selection(0, n) \cap Selection(n, m) = {}
         /\ Selection(0, n) \cup Selection(n, m) = Selection(0, n + m)
  <1>1. ASSUME NEW c \in Container
        PROVE  /\ ~(c \in Selection(0, n) /\ c \in Selection(n, m))
               /\ (c \in Selection(0, n) \/ c \in Selection(n, m))
                    <=> c \in Selection(0, n + m)
    BY ContainerLine DEF Selection, LineOf
  <1> QED
    BY <1>1 DEF Selection

\* A host that is given a total still gets a whole number of containers.
LEMMA SizeFromTotalType ==
  ASSUME NEW total \in Nat
  PROVE  SizeFromTotal(total) \in Nat
  <1> DEFINE n == Cardinality(Hosts)
  <1>1. n \in Nat /\ n > 0
    BY PoolAssumption, FS_CardinalityType, FS_EmptySet
  <1>2. total + n - 1 \in Nat
    BY <1>1
  <1>3. (total + n - 1) \div n \in Nat
    BY <1>1, <1>2
  <1> QED
    BY <1>3 DEF SizeFromTotal

-----------------------------------------------------------------------------
(***************************************************************************)
(* The invariant and its consequences.                                     *)
(***************************************************************************)

\* A run starts in a state of the right type, whoever starts it.
LEMMA StartRunType ==
  ASSUME TypeOK,
         NEW s \in Nat, NEW total \in Nat, NEW r \in BOOLEAN,
         StartRun(s, total, r)
  PROVE  TypeOK'
  <1>1. SizeFromTotal(total) \in Nat
    BY SizeFromTotalType
  <1> QED
    BY <1>1 DEF StartRun, TypeOK, Plays, Progress

LEMMA PlaybookStepType ==
  ASSUME TypeOK, PlaybookStep \/ UNCHANGED poolVars
  PROVE  TypeOK'
  <1> USE DEF TypeOK, Plays, Progress
  <1>1. ASSUME NEW h \in Hosts, Prepare(h)
        PROVE  TypeOK'
    <2> DEFINE used == IF reuse THEN 0 ELSE counter[h]
    <2>1. used \div 4 \in Nat /\ (SizeIsAccepted => size \div 4 \in Nat)
      BY SMT DEF SizeIsAccepted
    <2>2. SizeIsAccepted => Selection(used \div 4, size \div 4) \subseteq Container
      BY <2>1, SelectionType
    <2> QED
      BY <1>1, <2>2 DEF Prepare
  <1>2. ASSUME NEW h \in Hosts, Execute(h) \/ Retry(h)
        PROVE  TypeOK'
    BY <1>2 DEF Execute, Retry
  <1>3. ASSUME NEW h \in Hosts, Increment(h)
        PROVE  TypeOK'
    BY <1>3 DEF Increment
  <1>4. ASSUME NEW h \in Hosts, LoseHost(h)
        PROVE  TypeOK'
    BY <1>4 DEF LoseHost
  <1>5. CASE NextPlay
    BY <1>5 DEF NextPlay
  <1>6. CASE EndRun
    BY <1>6 DEF EndRun
  <1>7. CASE UNCHANGED poolVars
    BY <1>7 DEF poolVars
  <1> QED
    BY <1>1, <1>2, <1>3, <1>4, <1>5, <1>6, <1>7 DEF PlaybookStep, DueStep

\* Starting a run touches neither the counters nor what they record.
LEMMA StartRunInv ==
  ASSUME PoolInv,
         NEW s \in Nat, NEW total \in Nat, NEW r \in BOOLEAN,
         StartRun(s, total, r)
  PROVE  PoolInv'
  <1>1. CounterRecordsSpent' /\ HoldsSelection'
    BY DEF StartRun, PoolInv, TypeOK, CounterRecordsSpent, HoldsSelection, Holding
  <1> QED
    BY <1>1, StartRunType DEF PoolInv

LEMMA PlaybookStepInv ==
  ASSUME PoolInv, PlaybookStep \/ UNCHANGED poolVars
  PROVE  PoolInv'
  <1> SUFFICES ASSUME TypeOK, CounterRecordsSpent, HoldsSelection,
                      PlaybookStep \/ UNCHANGED poolVars
               PROVE  CounterRecordsSpent' /\ HoldsSelection'
    BY PlaybookStepType DEF PoolInv
  <1> USE DEF CounterRecordsSpent, HoldsSelection, Holding, TypeOK
  <1>1. ASSUME NEW h \in Hosts, Prepare(h)
        PROVE  CounterRecordsSpent' /\ HoldsSelection'
    BY <1>1 DEF Prepare, SizeIsAccepted, Selection
  <1>2. ASSUME NEW h \in Hosts, Execute(h) \/ Retry(h)
        PROVE  CounterRecordsSpent' /\ HoldsSelection'
    BY <1>2 DEF Execute, Retry, SizeIsAccepted
  <1>3. ASSUME NEW h \in Hosts, Increment(h)
        PROVE  CounterRecordsSpent' /\ HoldsSelection'
    <2>1. \A g \in Hosts : Holding(g)' => Holding(g) /\ g # h
      BY <1>3 DEF Increment
    <2>2. CASE reuse
      BY <1>3, <2>1, <2>2 DEF Increment, SizeIsAccepted
    <2>3. CASE ~reuse
      <3> DEFINE old == counter[h] \div 4
                 more == size \div 4
      <3>1. /\ size % 4 = 0
            /\ inventory[h] = Selection(old, more)
        BY <1>3, <2>3 DEF Increment, SizeIsAccepted
      <3>2. /\ old \in Nat
            /\ more \in Nat
            /\ counter'[h] % 4 = 0
            /\ counter'[h] \div 4 = old + more
        BY <1>3, <2>3, <3>1, WholeGroups DEF Increment
      <3>3. spent'[h] = Selection(0, old) \cup Selection(old, more)
        BY <1>3, <2>3, <3>1 DEF Increment
      <3>4. spent'[h] = Selection(0, counter'[h] \div 4)
        BY <3>2, <3>3, NextSelection
      <3>5. \A g \in Hosts \ {h} : /\ counter'[g] = counter[g]
                                   /\ spent'[g] = spent[g]
                                   /\ inventory'[g] = inventory[g]
        BY <1>3, <2>3 DEF Increment
      <3>6. size' = size /\ reuse' = reuse
        BY <1>3 DEF Increment
      <3>7. CounterRecordsSpent'
        BY <3>4, <3>5
      <3>8. HoldsSelection'
        BY <2>1, <3>2, <3>5, <3>6 DEF SizeIsAccepted
      <3> QED
        BY <3>7, <3>8
    <2> QED
      BY <2>2, <2>3
  <1>4. ASSUME NEW h \in Hosts, LoseHost(h)
        PROVE  CounterRecordsSpent' /\ HoldsSelection'
    BY <1>4 DEF LoseHost, SizeIsAccepted
  <1>5. CASE NextPlay
    <2>1. \A h \in Hosts : Holding(h)' => Holding(h)
      BY <1>5 DEF NextPlay, Alive, AllFinished, Unfinished, Progress
    <2>2. UNCHANGED <<size, reuse, counter, inventory, spent>>
      BY <1>5 DEF NextPlay
    <2> QED
      BY <2>1, <2>2 DEF SizeIsAccepted
  <1>6. CASE EndRun
    BY <1>6 DEF EndRun, SizeIsAccepted
  <1>7. CASE UNCHANGED poolVars
    BY <1>7 DEF poolVars, SizeIsAccepted
  <1> QED
    BY <1>1, <1>2, <1>3, <1>4, <1>5, <1>6, <1>7 DEF PlaybookStep, DueStep

LEMMA InitInv == Init => PoolInv
  <1> SUFFICES ASSUME Init
               PROVE  PoolInv
    OBVIOUS
  <1>1. play \in Plays /\ at \in [Hosts -> Progress] /\ size \in Nat
    BY DEF Init, Plays, Progress
  <1>2. reuse \in BOOLEAN /\ counter \in [Hosts -> Nat]
    BY DEF Init
  <1>3. /\ inventory \in [Hosts -> SUBSET Container]
        /\ touched \in [Hosts -> SUBSET Container]
        /\ spent \in [Hosts -> SUBSET Container]
    BY DEF Init
  <1>4. Selection(0, 0 \div 4) = {}
    BY ContainerLine DEF Selection, LineOf
  <1>5. CounterRecordsSpent /\ HoldsSelection
    BY <1>4 DEF Init, CounterRecordsSpent, HoldsSelection, Holding
  <1> QED
    BY <1>1, <1>2, <1>3, <1>5 DEF TypeOK, PoolInv

\* The counter file is, at all times, an exact record of the containers that
\* counted runs used.
THEOREM PoolInvariant == Spec => []PoolInv
  <1>1. PoolInv /\ [Next]_poolVars => PoolInv'
    BY StartRunInv, PlaybookStepInv, PoolAssumption DEF Next
  <1> QED
    BY <1>1, InitInv, PTL DEF Spec

\* Every variable keeps its type.
THEOREM PoolTypeOK == Spec => []TypeOK
  BY PoolInvariant, PTL DEF PoolInv

\* The counter file alone tells which containers counted runs used up.
THEOREM PoolCounterRecordsSpent == Spec => []CounterRecordsSpent
  BY PoolInvariant, PTL DEF PoolInv

\* No run without reuse_hosts holds a container that a counted run used.
THEOREM PoolFreshSelection == Spec => []FreshSelection
  <1>1. PoolInv => FreshSelection
    <2> SUFFICES ASSUME PoolInv, NEW h \in Hosts, Holding(h), ~reuse
                 PROVE  inventory[h] \cap spent[h] = {}
      BY DEF FreshSelection
    <2>1. /\ inventory[h] = Selection(counter[h] \div 4, size \div 4)
          /\ spent[h] = Selection(0, counter[h] \div 4)
          /\ counter[h] \in Nat /\ counter[h] % 4 = 0
          /\ size \in Nat /\ size % 4 = 0
      BY DEF PoolInv, TypeOK, CounterRecordsSpent, HoldsSelection, SizeIsAccepted
    <2>2. counter[h] \div 4 \in Nat /\ size \div 4 \in Nat
      BY <2>1, WholeGroups
    <2> DEFINE n == counter[h] \div 4
               m == size \div 4
    <2>3. Selection(0, n) \cap Selection(n, m) = {}
      <3> HIDE DEF n, m
      <3> QED
        BY <2>2, NextSelection DEF n, m
    <2> QED
      BY <2>1, <2>3
  <1> QED
    BY <1>1, PoolInvariant, PTL

-----------------------------------------------------------------------------
(***************************************************************************)
(* The proportion of a selection.                                          *)
(***************************************************************************)

\* The lines of one EL version between two group numbers.
Part(el, u, m) == {el} \X ((LineOf(el, u) + 1)..LineOf(el, u + m))

LEMMA PartCardinality ==
  ASSUME NEW el \in EL, NEW u \in Nat, NEW m \in Nat
  PROVE  /\ IsFiniteSet(Part(el, u, m))
         /\ Cardinality(Part(el, u, m)) = LineOf(el, m)
  <1> DEFINE L == (LineOf(el, u) + 1)..LineOf(el, u + m)
  <1>1. /\ IsFiniteSet(L)
        /\ Cardinality(L) = LineOf(el, m)
    <2> DEFINE lo == LineOf(el, u) + 1
               hi == LineOf(el, u + m)
    <2>1. lo \in Int /\ hi \in Int /\ (IF lo > hi THEN 0 ELSE hi - lo + 1) = LineOf(el, m)
      BY DEF LineOf
    <2>2. /\ IsFiniteSet(lo..hi)
          /\ Cardinality(lo..hi) = IF lo > hi THEN 0 ELSE hi - lo + 1
      <3> HIDE DEF lo, hi
      <3> QED
        BY <2>1, FS_Interval, Zenon
    <2> QED
      BY <2>1, <2>2
  <1>2. IsFiniteSet({el}) /\ Cardinality({el}) = 1
    BY FS_Singleton
  <1>3. Cardinality(Part(el, u, m)) = 1 * LineOf(el, m) /\ IsFiniteSet(Part(el, u, m))
    BY <1>1, <1>2, FS_Product DEF Part
  <1> QED
    BY <1>3 DEF LineOf


\* The lists the container hosts are set up with: whole groups, two EL8 for
\* every EL9 and every EL10.
InProportion == Lines["el8"] = 2 * Lines["el9"] /\ Lines["el9"] = Lines["el10"]

\* The end of the list cuts a selection off between two groups, or not at all.
LEMMA SelectionProportion ==
  ASSUME InProportion, NEW u \in Nat, NEW m \in Nat
  PROVE  LET Of(el) == Cardinality({c \in Selection(u, m) : c[1] = el})
         IN  Of("el8") = 2 * Of("el9") /\ Of("el9") = Of("el10")
  <1> DEFINE g == Lines["el9"]
             k == IF g <= u THEN 0 ELSE IF g <= u + m THEN g - u ELSE m
             Of(el) == {c \in Selection(u, m) : c[1] = el}
  <1>1. g \in Nat /\ k \in Nat /\ \A el \in EL : Lines[el] = LineOf(el, g)
    BY PoolAssumption DEF InProportion, EL, LineOf
  <1>2. ASSUME NEW el \in EL
        PROVE  Of(el) = Part(el, u, k)
    <2>1. ASSUME NEW c \in Of(el)
          PROVE  c \in Part(el, u, k)
      <3>1. /\ c \in {el} \X (1..LineOf(el, g))
            /\ c[2] > LineOf(el, u) /\ c[2] <= LineOf(el, u + m)
        BY <1>1, <2>1 DEF Selection, Container
      <3> QED
        BY <1>1, <3>1 DEF Part, LineOf
    <2>2. ASSUME NEW c \in Part(el, u, k)
          PROVE  c \in Of(el)
      <3>1. c = <<el, c[2]>> /\ c[1] = el /\ c[2] \in (LineOf(el, u) + 1)..LineOf(el, u + k)
        BY <2>2 DEF Part
      <3>2. c[2] \in 1..LineOf(el, g) /\ c[2] > LineOf(el, u) /\ c[2] <= LineOf(el, u + m)
        BY <1>1, <3>1 DEF LineOf
      <3>3. c \in Container
        BY <1>1, <3>1, <3>2 DEF Container
      <3> QED
        BY <3>1, <3>2, <3>3 DEF Selection
    <2> QED
      BY <2>1, <2>2
  <1>3. \A el \in EL : Cardinality(Of(el)) = LineOf(el, k)
    <2> HIDE DEF k, Of
    <2> QED
      BY <1>1, <1>2, PartCardinality
  <1>4. /\ Cardinality(Of("el8")) = k * 2
        /\ Cardinality(Of("el9")) = k
        /\ Cardinality(Of("el10")) = k
    BY <1>3 DEF EL, LineOf
  <1> QED
    BY <1>1, <1>4

\* A run with reuse_hosts starts at the top of the list again.
ReuseSelects ==
  \A h \in Hosts : Holding(h) /\ reuse => inventory[h] = Selection(0, size \div 4)

LEMMA ReuseSelectsKeeps ==
  ASSUME PoolInv, ReuseSelects, [Next]_poolVars
  PROVE  ReuseSelects'
  <1> USE DEF ReuseSelects, Holding, PoolInv, TypeOK
  <1>1. ASSUME NEW s \in Sizes, NEW total \in Totals, NEW r \in ReuseHosts,
               StartRun(s, total, r)
        PROVE  ReuseSelects'
    BY <1>1 DEF StartRun
  <1>2. ASSUME NEW h \in Hosts, Prepare(h)
        PROVE  ReuseSelects'
    <2>1. 0 \div 4 = 0
      OBVIOUS
    <2> QED
      BY <1>2, <2>1 DEF Prepare
  <1>3. ASSUME NEW h \in Hosts, Execute(h) \/ Retry(h) \/ LoseHost(h)
        PROVE  ReuseSelects'
    BY <1>3 DEF Execute, Retry, LoseHost, Unfinished
  <1>4. ASSUME NEW h \in Hosts, Increment(h)
        PROVE  ReuseSelects'
    BY <1>4 DEF Increment
  <1>5. CASE NextPlay
    BY <1>5 DEF NextPlay, Alive, AllFinished, Unfinished, Progress
  <1>6. CASE EndRun
    BY <1>6 DEF EndRun
  <1>7. CASE UNCHANGED poolVars
    BY <1>7 DEF poolVars
  <1> QED
    BY <1>1, <1>2, <1>3, <1>4, <1>5, <1>6, <1>7 DEF Next, PlaybookStep, DueStep

\* On lists in proportion every run compares apples to apples, with or without
\* reuse_hosts, also the one that meets the end of the list.
THEOREM PoolAppleToApple == ASSUME InProportion PROVE Spec => []AppleToApple
  <1>1. Init => ReuseSelects
    BY DEF Init, ReuseSelects, Holding
  <1>2. PoolInv /\ ReuseSelects => AppleToApple
    <2> SUFFICES ASSUME PoolInv, ReuseSelects, NEW h \in Hosts, Holding(h)
                 PROVE  LET Of(el) == Cardinality({c \in inventory[h] : c[1] = el})
                        IN  Of("el8") = 2 * Of("el9") /\ Of("el9") = Of("el10")
      BY DEF AppleToApple
    <2> DEFINE u == IF reuse THEN 0 ELSE counter[h] \div 4
               m == size \div 4
    <2>1. inventory[h] = Selection(u, m)
      BY DEF PoolInv, ReuseSelects, HoldsSelection
    <2>2. u \in Nat /\ m \in Nat
      BY WholeGroups DEF PoolInv, TypeOK, HoldsSelection, SizeIsAccepted
    <2> HIDE DEF u, m
    <2> QED
      BY <2>1, <2>2, SelectionProportion
  <1> QED
    BY <1>1, <1>2, PoolInvariant, ReuseSelectsKeeps, PTL DEF Spec

-----------------------------------------------------------------------------
(***************************************************************************)
(* The pool implements the ledger.                                         *)
(***************************************************************************)

Taken == [h \in Hosts |-> IF Holding(h) /\ ~reuse THEN inventory[h] ELSE {}]
Recorded == [h \in Hosts |-> Selection(0, counter[h] \div 4)]

\* A step that takes nothing new and counts nothing leaves the ledger alone, or
\* gives back what the one host it is about had taken.
LEMMA OneHostGivesBack ==
  ASSUME NEW h \in Hosts,
         UNCHANGED <<reuse, counter, inventory>>,
         \A g \in Hosts \ {h} : Holding(g)' <=> Holding(g),
         ~Holding(h)'
  PROVE  Ledger!GiveBack(h)
  <1>1. Recorded' = Recorded
    BY DEF Recorded
  <1>2. Taken' = [Taken EXCEPT ![h] = {}]
    BY DEF Taken
  <1> QED
    BY <1>1, <1>2 DEF Ledger!GiveBack, Taken, Recorded

\* Every step of the playbook is a step of the ledger, or changes nothing in it.
THEOREM PoolImplementsLedger == Spec => ImplementsLedger
  <1>1. Init => Ledger!Init
    <2>1. Selection(0, 0 \div 4) = {}
      BY ContainerLine DEF Selection, LineOf
    <2> QED
      BY <2>1 DEF Init, Ledger!Init, Holding
  <1>2. PoolInv /\ PoolInv' /\ [Next]_poolVars
          => [Ledger!Next]_(Ledger!ledgerVars)
    <2> SUFFICES ASSUME PoolInv, PoolInv', [Next]_poolVars
                 PROVE  Ledger!Next \/ (Taken' = Taken /\ Recorded' = Recorded)
      BY DEF Ledger!ledgerVars, Taken, Recorded
    <2> USE DEF PoolInv, TypeOK, Holding
    <2>1. ASSUME NEW s \in Sizes, NEW total \in Totals, NEW r \in ReuseHosts,
                 StartRun(s, total, r)
          PROVE  Taken' = Taken /\ Recorded' = Recorded
      BY <2>1 DEF StartRun, Taken, Recorded
    <2>2. ASSUME NEW h \in Hosts, Prepare(h)
          PROVE  Ledger!Take(h) \/ (Taken' = Taken /\ Recorded' = Recorded)
      <3>1. Recorded' = Recorded
        BY <2>2 DEF Prepare, Recorded
      <3>2. CASE reuse \/ ~SizeIsAccepted
        <4>1. \A g \in Hosts : Taken'[g] = Taken[g]
          BY <2>2, <3>2 DEF Prepare, Taken
        <4>2. Taken' = Taken
          BY <4>1 DEF Taken
        <4> QED
          BY <3>1, <4>2
      <3>3. CASE ~reuse /\ SizeIsAccepted
        <4> DEFINE S == Selection(counter[h] \div 4, size \div 4)
        <4>1. counter[h] \div 4 \in Nat /\ size \div 4 \in Nat
          BY <3>3, WholeGroups DEF HoldsSelection, SizeIsAccepted
        <4>2. S \in SUBSET (Container \ Recorded[h])
          BY <4>1, SelectionType, NextSelection DEF Recorded
        <4>3. Taken[h] = {} /\ Taken' = [Taken EXCEPT ![h] = S]
          BY <2>2, <3>3 DEF Prepare, Taken
        <4> QED
          BY <3>1, <4>2, <4>3 DEF Ledger!Take, Taken, Recorded
      <3> QED
        BY <3>2, <3>3
    <2>3. ASSUME NEW h \in Hosts, Execute(h) \/ Retry(h)
          PROVE  Ledger!GiveBack(h) \/ (Taken' = Taken /\ Recorded' = Recorded)
      <3>1. CASE at'[h] = "failed"
        BY <2>3, <3>1, OneHostGivesBack DEF Execute, Retry
      <3>2. CASE at'[h] # "failed"
        BY <2>3, <3>2 DEF Execute, Retry, Taken, Recorded
      <3> QED
        BY <3>1, <3>2
    <2>4. ASSUME NEW h \in Hosts, Increment(h)
          PROVE  Ledger!UseUp(h) \/ (Taken' = Taken /\ Recorded' = Recorded)
      <3>1. CASE reuse
        BY <2>4, <3>1 DEF Increment, Taken, Recorded
      <3>2. CASE ~reuse
        <4>1. Taken[h] = inventory[h] /\ Taken' = [Taken EXCEPT ![h] = {}]
          BY <2>4, <3>2 DEF Increment, Taken
        <4>2. Recorded'[h] = Recorded[h] \cup Taken[h]
          BY <2>4, <3>2, <4>1 DEF Increment, CounterRecordsSpent, Recorded
        <4>3. Recorded' = [Recorded EXCEPT ![h] = @ \cup Taken[h]]
          BY <2>4, <3>2, <4>2 DEF Increment, Recorded
        <4> QED
          BY <4>1, <4>3 DEF Ledger!UseUp, Taken, Recorded
      <3> QED
        BY <3>1, <3>2
    <2>5. ASSUME NEW h \in Hosts, LoseHost(h)
          PROVE  Ledger!GiveBack(h)
      BY <2>5, OneHostGivesBack DEF LoseHost, Unfinished
    <2>6. CASE NextPlay
      <3>1. \A h \in Hosts : Holding(h)' <=> Holding(h)
        BY <2>6 DEF NextPlay, Alive, AllFinished, Unfinished, Progress
      <3> QED
        BY <2>6, <3>1 DEF NextPlay, Taken, Recorded
    <2>7. CASE EndRun
      <3>1. \A h \in Hosts : ~Holding(h) /\ ~Holding(h)'
        BY <2>7 DEF EndRun, Alive, AllFinished, Unfinished
      <3> QED
        BY <2>7, <3>1 DEF EndRun, Taken, Recorded
    <2>8. CASE UNCHANGED poolVars
      BY <2>8 DEF poolVars, Taken, Recorded
    <2> QED
      BY <2>1, <2>2, <2>3, <2>4, <2>5, <2>6, <2>7, <2>8
      DEF Next, PlaybookStep, DueStep, Ledger!Next
  <1> QED
    BY <1>1, <1>2, PoolInvariant, PTL DEF Spec, ImplementsLedger, Ledger!Spec

-----------------------------------------------------------------------------
(***************************************************************************)
(* How many containers a selection has.                                    *)
(***************************************************************************)

LEMMA DisjointUnion ==
  ASSUME NEW S, IsFiniteSet(S), NEW T, IsFiniteSet(T), S \cap T = {}
  PROVE  /\ IsFiniteSet(S \cup T)
         /\ Cardinality(S \cup T) = Cardinality(S) + Cardinality(T)
  <1>1. Cardinality(S \cap T) = 0
    BY FS_EmptySet
  <1>2. Cardinality(S) \in Nat /\ Cardinality(T) \in Nat
    BY FS_CardinalityType
  <1>3. /\ IsFiniteSet(S \cup T)
        /\ Cardinality(S \cup T) =
             Cardinality(S) + Cardinality(T) - Cardinality(S \cap T)
    BY FS_Union, Zenon
  <1> DEFINE s == Cardinality(S)
             t == Cardinality(T)
  <1>4. Cardinality(S \cup T) = s + t - 0 /\ s \in Nat /\ t \in Nat
    BY <1>1, <1>2, <1>3
  <1> HIDE DEF s, t
  <1>5. Cardinality(S \cup T) = s + t
    BY <1>4
  <1> QED
    BY <1>3, <1>5 DEF s, t

\* A selection that ends inside the list has two lines of EL8 and one of each
\* other version for every group.
LEMMA SelectionCardinality ==
  ASSUME NEW u \in Nat, NEW m \in Nat, u + m <= containers_count \div 4
  PROVE  Cardinality(Selection(u, m)) = 4 * m
  <1> DEFINE P(el) == Part(el, u, m)
  <1>1. ASSUME NEW el \in EL
        PROVE  /\ IsFiniteSet(P(el))
               /\ Cardinality(P(el)) = LineOf(el, m)
    BY PartCardinality
  <1>2. Selection(u, m) = P("el8") \cup P("el9") \cup P("el10")
    <2>1. \A el \in EL : (LineOf(el, u) + 1)..LineOf(el, u + m) \subseteq 1..Lines[el]
      BY ScheduleAssumption DEF LineOf, EL
    <2>2. Selection(u, m) \subseteq P("el8") \cup P("el9") \cup P("el10")
      BY DEF Selection, Container, EL, LineOf, Part
    <2>3. ASSUME NEW el \in EL, NEW c \in P(el)
          PROVE  c \in Selection(u, m)
      BY <2>1, <2>3 DEF Selection, Container, LineOf, Part
    <2> QED
      BY <2>2, <2>3 DEF EL
  <1>3. /\ P("el8") \cap P("el9") = {}
        /\ (P("el8") \cup P("el9")) \cap P("el10") = {}
    BY DEF Part
  <1>4. /\ Cardinality(P("el8")) = 2 * m
        /\ Cardinality(P("el9")) = m
        /\ Cardinality(P("el10")) = m
    BY <1>1 DEF LineOf, EL
  <1> HIDE DEF P
  <1>5. /\ IsFiniteSet(P("el8") \cup P("el9"))
        /\ Cardinality(P("el8") \cup P("el9")) = 2 * m + m
    <2> DEFINE S == P("el8")
               T == P("el9")
    <2>1. IsFiniteSet(S) /\ IsFiniteSet(T) /\ S \cap T = {}
      BY <1>1, <1>3 DEF EL
    <2>2. Cardinality(S) = 2 * m /\ Cardinality(T) = m
      BY <1>4
    <2> HIDE DEF S, T
    <2>3. /\ IsFiniteSet(S \cup T)
          /\ Cardinality(S \cup T) = Cardinality(S) + Cardinality(T)
      BY <2>1, DisjointUnion, Zenon
    <2> QED
      BY <2>2, <2>3 DEF S, T
  <1>6. Cardinality((P("el8") \cup P("el9")) \cup P("el10")) = 2 * m + m + m
    <2> DEFINE S == P("el8") \cup P("el9")
               T == P("el10")
    <2>1. IsFiniteSet(S) /\ IsFiniteSet(T) /\ S \cap T = {}
      BY <1>1, <1>3, <1>5 DEF EL
    <2>2. Cardinality(S) = 2 * m + m /\ Cardinality(T) = m
      BY <1>4, <1>5
    <2> HIDE DEF S, T
    <2>3. Cardinality(S \cup T) = Cardinality(S) + Cardinality(T)
      BY <2>1, DisjointUnion, Zenon
    <2> QED
      BY <2>2, <2>3 DEF S, T
  <1> QED
    BY <1>2, <1>6

-----------------------------------------------------------------------------
(***************************************************************************)
(* The size of a batch.                                                    *)
(***************************************************************************)

Planned(b) == initial_concurrent_per_container_host * b
BatchSize(b, r) == IF r > Planned(b) THEN Planned(b) ELSE r

LEMMA HostsCount == Cardinality(Hosts) \in Nat /\ Cardinality(Hosts) > 0
  BY PoolAssumption, FS_CardinalityType, FS_EmptySet

\* The first batch is a whole number of groups, which may be none.
LEMMA InitialIsGroups ==
  \E q \in Nat : initial_concurrent_per_container_host = q * 4
  <1> DEFINE I == initial_expected_concurrent_registrations
             N == Cardinality(Hosts)
             q == (I \div N + 3) \div 4
  <1>1. I \in Nat /\ N \in Nat /\ N > 0
    BY HostsCount, ScheduleAssumption
  <1>2. I \div N \in Nat
    <2> HIDE DEF I, N
    <2> QED
      BY <1>1
  <1>3. q \in Nat
    <2> DEFINE d == I \div N
    <2>1. d \in Nat
      BY <1>2
    <2> HIDE DEF d
    <2>2. (d + 3) \div 4 \in Nat
      BY <2>1
    <2> QED
      BY <2>2 DEF d
  <1>4. initial_concurrent_per_container_host = q * 4
    <2>1. I \div N + 4 - 1 = I \div N + 3
      BY <1>2
    <2> QED
      BY <2>1 DEF initial_concurrent_per_container_host, min_containers_per_batch
  <1> QED
    BY <1>3, <1>4

\* Every batch takes whole groups, and no more than remain.
LEMMA BatchSizeIsGroups ==
  ASSUME NEW b \in Nat \ {0}, NEW r \in Nat, r > 0, r % 4 = 0
  PROVE  /\ BatchSize(b, r) \in Nat
         /\ BatchSize(b, r) <= r
         /\ BatchSize(b, r) % 4 = 0
         /\ r - BatchSize(b, r) \in Nat
         /\ (r - BatchSize(b, r)) % 4 = 0
  <1>1. PICK q \in Nat : initial_concurrent_per_container_host = q * 4
    BY InitialIsGroups
  <1>2. PICK k \in Nat : Planned(b) = 4 * k
    <2>1. q * b \in Nat /\ (q * 4) * b = 4 * (q * b)
      BY <1>1
    <2> QED
      BY <1>1, <2>1 DEF Planned
  <1>3. PICK j \in Nat : BatchSize(b, r) = 4 * j /\ 4 * j <= r
    <2>1. CASE r > Planned(b)
      BY <1>2, <2>1 DEF BatchSize
    <2>2. CASE ~(r > Planned(b))
      <3>1. r \div 4 \in Nat /\ r = 4 * (r \div 4)
        BY SMT
      <3> QED
        BY <2>2, <3>1 DEF BatchSize
    <2> QED
      BY <2>1, <2>2
  <1>4. /\ 4 * j \in Nat /\ (4 * j) % 4 = 0
        /\ r - 4 * j \in Nat /\ (r - 4 * j) % 4 = 0
    BY <1>3
  <1> QED
    BY <1>3, <1>4

-----------------------------------------------------------------------------
(***************************************************************************)
(* The invariant of the loop.                                              *)
(***************************************************************************)

LEMMA ScheduleInitInv == ScheduleInit => ScheduleInv
  <1> SUFFICES ASSUME ScheduleInit
               PROVE  ScheduleInv
    OBVIOUS
  <1>1. PoolInv
    BY InitInv DEF ScheduleInit
  <1>2. ScheduleTypeOK
    BY <1>1, ScheduleAssumption DEF ScheduleInit, ScheduleTypeOK, PoolInv
  <1>3. reuse = FALSE
    BY DEF ScheduleInit, Init
  <1>4. GroupsOnly
    BY <1>3, ScheduleAssumption DEF ScheduleInit, Init, GroupsOnly
  <1>5. NeverOverdrawn
    BY ScheduleAssumption DEF ScheduleInit, Init, NeverOverdrawn, Due
  <1>6. Selection(0, (0 + 0) \div 4) = {}
    BY ContainerLine DEF Selection, LineOf
  <1>7. CleanAccount
    BY <1>6, ScheduleAssumption
    DEF ScheduleInit, Init, CleanAccount, Due, Worked
  <1> QED
    BY <1>1, <1>2, <1>4, <1>5, <1>7 DEF ScheduleInv

\* The loop hands out what it takes off its own account.
LEMMA StartBatchInv ==
  ASSUME ScheduleInv, StartBatch
  PROVE  ScheduleInv'
  <1> DEFINE sz == BatchSize(batch, remaining)
  <1>1. StartRun(sz, 0, FALSE) /\ remaining' = remaining - sz
    BY DEF StartBatch, BatchSize, Planned
  <1>2. /\ batch \in Nat \ {0} /\ remaining \in Nat
        /\ remaining > 0 /\ remaining % 4 = 0
    BY DEF ScheduleInv, ScheduleTypeOK, GroupsOnly, StartBatch
  <1>3. /\ sz \in Nat /\ sz <= remaining /\ sz % 4 = 0
        /\ remaining - sz \in Nat /\ (remaining - sz) % 4 = 0
    BY <1>2, BatchSizeIsGroups
  <1> HIDE DEF sz
  <1>4. PoolInv'
    BY <1>1, <1>3, StartRunInv DEF ScheduleInv
  <1>5. /\ size' = sz /\ reuse' = FALSE /\ play = "none" /\ play' = "preparation"
        /\ at' = [h \in Hosts |-> "pending"]
        /\ UNCHANGED <<counter, touched>> /\ UNCHANGED clean
    BY <1>1, <1>3 DEF StartRun, StartBatch
  <1>6. ScheduleTypeOK'
    BY <1>1, <1>2, <1>3, <1>4, <1>5
    DEF ScheduleInv, ScheduleTypeOK, PoolInv, StartBatch
  <1>7. GroupsOnly'
    BY <1>1, <1>3, <1>5, Zenon DEF GroupsOnly
  <1>8. ASSUME NEW h \in Hosts
        PROVE  /\ ~Due(h) /\ Due(h)' /\ ~Worked(h) /\ ~Worked(h)'
               /\ counter[h] \in Nat
    BY <1>5, <1>8 DEF Due, Worked, ScheduleInv, ScheduleTypeOK, TypeOK
  <1>9. NeverOverdrawn'
    <2> SUFFICES ASSUME NEW h \in Hosts
                 PROVE  counter[h] + (remaining - sz) + sz <= containers_count
      BY <1>1, <1>5, <1>8 DEF NeverOverdrawn
    <2> QED
      BY <1>2, <1>3, <1>8, ScheduleAssumption DEF ScheduleInv, NeverOverdrawn
  <1>10. CleanAccount'
    <2> SUFFICES ASSUME NEW h \in clean
                 PROVE  /\ at'[h] # "failed"
                        /\ counter[h] + (remaining - sz) + sz = containers_count
                        /\ touched[h] = Selection(0, (counter[h] + 0) \div 4)
      BY <1>1, <1>5, <1>8 DEF CleanAccount, ScheduleInv, ScheduleTypeOK
    <2>1. h \in Hosts
      BY DEF ScheduleInv, ScheduleTypeOK
    <2> QED
      BY <1>2, <1>3, <1>5, <1>8, <2>1 DEF ScheduleInv, CleanAccount
  <1> QED
    BY <1>4, <1>6, <1>7, <1>9, <1>10 DEF ScheduleInv

\* No step of the playbook takes an account further than the loop allowed it.
LEMMA RunBatchOverdraw ==
  ASSUME ScheduleInv, RunBatch
  PROVE  NeverOverdrawn'
  <1>1. /\ UNCHANGED remaining
        /\ remaining \in Nat /\ size \in Nat /\ counter \in [Hosts -> Nat]
        /\ at \in [Hosts -> Progress]
    BY DEF RunBatch, ScheduleInv, ScheduleTypeOK, TypeOK
  <1>2. ASSUME UNCHANGED <<counter, size>>,
               \A g \in Hosts : Due(g)' => Due(g)
        PROVE  NeverOverdrawn'
    BY <1>1, <1>2, ScheduleAssumption DEF ScheduleInv, NeverOverdrawn
  <1>3. ASSUME NEW h \in Hosts, Prepare(h) \/ Execute(h) \/ Retry(h) \/ LoseHost(h)
        PROVE  NeverOverdrawn'
    <2>1. UNCHANGED <<counter, size>>
      BY <1>3 DEF Prepare, Execute, Retry, LoseHost
    <2>2. \A g \in Hosts : Due(g)' => Due(g)
      BY <1>1, <1>3 DEF Prepare, Execute, Retry, LoseHost, Unfinished, Due
    <2> QED
      BY <1>2, <2>1, <2>2
  <1>4. ASSUME NEW h \in Hosts, Increment(h)
        PROVE  NeverOverdrawn'
    <2>1. /\ size' = size
          /\ counter'[h] \in {counter[h], counter[h] + size}
          /\ \A g \in Hosts \ {h} : counter'[g] = counter[g]
      BY <1>1, <1>4 DEF Increment
    <2>2. /\ Due(h) /\ ~Due(h)'
          /\ \A g \in Hosts \ {h} : Due(g)' <=> Due(g)
      BY <1>1, <1>4 DEF Increment, Due
    <2> SUFFICES ASSUME NEW g \in Hosts
                 PROVE  counter'[g] + remaining + (IF Due(g)' THEN size ELSE 0)
                          <= containers_count
      BY <1>1, <2>1 DEF NeverOverdrawn
    <2>3. counter[g] + remaining + (IF Due(g) THEN size ELSE 0) <= containers_count
      BY DEF ScheduleInv, NeverOverdrawn
    <2>4. CASE g = h
      BY <1>1, <2>1, <2>2, <2>3, <2>4, ScheduleAssumption
    <2>5. CASE g # h
      BY <2>1, <2>2, <2>3, <2>5
    <2> QED
      BY <2>4, <2>5
  <1>5. CASE NextPlay
    <2>1. UNCHANGED <<counter, size>> /\ \A g \in Hosts : Due(g)' => Due(g)
      BY <1>1, <1>5 DEF NextPlay, Alive, AllFinished, Unfinished, Due
    <2> QED
      BY <1>2, <2>1
  <1>6. CASE EndRun
    <2>1. UNCHANGED <<counter, size>> /\ \A g \in Hosts : Due(g)' => Due(g)
      BY <1>6 DEF EndRun, Due
    <2> QED
      BY <1>2, <2>1
  <1> QED
    BY <1>3, <1>4, <1>5, <1>6 DEF RunBatch, PlaybookStep, DueStep

\* What is left of the pool is exactly what a host never lost is still owed.
LEMMA RunBatchClean ==
  ASSUME ScheduleInv, RunBatch
  PROVE  CleanAccount'
  <1> USE DEF ScheduleInv, ScheduleTypeOK, TypeOK, Plays, Progress, CleanAccount,
              Due, Worked
  <1>1. /\ UNCHANGED remaining
        /\ clean' = {g \in clean : at'[g] # "failed"}
        /\ reuse = FALSE
    BY DEF RunBatch, GroupsOnly
  <1>2. ASSUME NEW h \in Hosts, Prepare(h)
        PROVE  CleanAccount'
    BY <1>1, <1>2 DEF Prepare
  <1>3. ASSUME NEW h \in Hosts, Execute(h)
        PROVE  CleanAccount'
    <2>1. /\ play = "execution" /\ at[h] = "pending" /\ play' = play
          /\ touched' = [touched EXCEPT ![h] = @ \cup inventory[h]]
          /\ \E outcome \in {"retrying", "done", "failed"} :
               at' = [at EXCEPT ![h] = outcome]
          /\ UNCHANGED <<size, counter>>
      BY <1>3 DEF Execute
    <2>2. ASSUME h \in clean
          PROVE  touched'[h] = Selection(0, (counter[h] + size) \div 4)
      <3>1. /\ touched[h] = Selection(0, (counter[h] + 0) \div 4)
            /\ inventory[h] = Selection(counter[h] \div 4, size \div 4)
            /\ counter[h] \in Nat /\ counter[h] % 4 = 0
            /\ size \in Nat /\ size % 4 = 0
        BY <1>1, <2>1, <2>2 DEF PoolInv, HoldsSelection, Holding, SizeIsAccepted
      <3>2. /\ counter[h] \div 4 \in Nat /\ size \div 4 \in Nat
            /\ (counter[h] + size) \div 4 = counter[h] \div 4 + size \div 4
        BY <3>1, WholeGroups
      <3>3. touched'[h] = touched[h] \cup inventory[h]
        BY <2>1
      <3> DEFINE c == counter[h] \div 4
                 d == size \div 4
      <3>4. /\ c \in Nat /\ d \in Nat
            /\ (counter[h] + size) \div 4 = c + d
        BY <3>2
      <3>5. touched[h] = Selection(0, c)
        <4>1. counter[h] + 0 = counter[h]
          BY <3>1
        <4> QED
          BY <3>1, <4>1
      <3>6. touched'[h] = Selection(0, c) \cup Selection(c, d)
        BY <3>1, <3>3, <3>5
      <3> HIDE DEF c, d
      <3> QED
        BY <3>4, <3>6, NextSelection
    <2> QED
      BY <1>1, <2>1, <2>2
  <1>4. ASSUME NEW h \in Hosts, Increment(h)
        PROVE  CleanAccount'
    <2>1. /\ play = "increment" /\ play' = play
          /\ at[h] = "pending" /\ at' = [at EXCEPT ![h] = "done"]
          /\ counter' = [counter EXCEPT ![h] = @ + size]
          /\ UNCHANGED <<size, touched>>
      BY <1>1, <1>4 DEF Increment
    <2>2. counter'[h] = counter[h] + size /\ counter'[h] + 0 = counter[h] + size
      BY <2>1
    <2> QED
      BY <1>1, <2>1, <2>2
  <1>5. ASSUME NEW h \in Hosts, Retry(h) \/ LoseHost(h)
        PROVE  CleanAccount'
    BY <1>1, <1>5 DEF Retry, LoseHost, Unfinished
  <1>6. CASE NextPlay
    BY <1>1, <1>6 DEF NextPlay, Alive, AllFinished, Unfinished
  <1>7. CASE EndRun
    BY <1>1, <1>7 DEF EndRun, Alive, AllFinished, Unfinished
  <1> QED
    BY <1>2, <1>3, <1>4, <1>5, <1>6, <1>7 DEF RunBatch, PlaybookStep, DueStep

LEMMA RunBatchInv ==
  ASSUME ScheduleInv, RunBatch
  PROVE  ScheduleInv'
  <1>1. PoolInv'
    BY PlaybookStepInv DEF ScheduleInv, RunBatch
  <1>2. ScheduleTypeOK'
    BY <1>1 DEF ScheduleInv, ScheduleTypeOK, RunBatch, PoolInv
  <1>3. GroupsOnly'
    BY DEF ScheduleInv, GroupsOnly, RunBatch, PlaybookStep, DueStep,
           Prepare, Execute, Retry, Increment, LoseHost, NextPlay, EndRun
  <1> QED
    BY <1>1, <1>2, <1>3, RunBatchOverdraw, RunBatchClean DEF ScheduleInv

\* The account of the loop, the counters of the hosts and the history of their
\* containers agree at all times.
THEOREM ScheduleInvariant == ScheduleSpec => []ScheduleInv
  <1>1. ScheduleInv /\ UNCHANGED vars => ScheduleInv'
    BY PlaybookStepInv
    DEF vars, poolVars, ScheduleInv, ScheduleTypeOK, TypeOK, GroupsOnly,
        NeverOverdrawn, CleanAccount, Due, Worked
  <1>2. ScheduleInv /\ [ScheduleNext]_vars => ScheduleInv'
    BY <1>1, StartBatchInv, RunBatchInv DEF ScheduleNext
  <1> QED
    BY <1>2, ScheduleInitInv, PTL DEF ScheduleSpec

\* No host runs ahead of the loop's account.
THEOREM ScheduleNeverOverdrawn == ScheduleSpec => []NeverOverdrawn
  BY ScheduleInvariant, PTL DEF ScheduleInv

\* Every batch runs on exactly the containers it was announced for.
THEOREM ScheduleFullBatch == ScheduleSpec => []FullBatch
  <1>1. ScheduleInv => FullBatch
    <2> SUFFICES ASSUME ScheduleInv, NEW h \in Hosts, Holding(h)
                 PROVE  Cardinality(inventory[h]) = size
      BY DEF FullBatch
    <2> DEFINE u == counter[h] \div 4
               m == size \div 4
    <2>1. /\ inventory[h] = Selection(u, m)
          /\ counter[h] \in Nat /\ counter[h] % 4 = 0
          /\ size \in Nat /\ size % 4 = 0
      BY DEF ScheduleInv, PoolInv, TypeOK, HoldsSelection, GroupsOnly, SizeIsAccepted
    <2>2. counter[h] + size <= containers_count
      <3>1. Due(h)
        BY DEF Due, Holding
      <3> QED
        BY <2>1, <3>1, ScheduleAssumption
        DEF ScheduleInv, ScheduleTypeOK, NeverOverdrawn
    <2>3. /\ u \in Nat /\ m \in Nat /\ size = 4 * m
          /\ u + m <= containers_count \div 4
      <3> DEFINE k == containers_count
                 c == counter[h]
      <3>1. /\ c \in Nat /\ c % 4 = 0 /\ k \in Nat /\ k % 4 = 0
            /\ size \in Nat /\ size % 4 = 0 /\ c + size <= k
        BY <2>1, <2>2, ScheduleAssumption
      <3> HIDE DEF k, c
      <3>2. /\ c \div 4 \in Nat /\ size \div 4 \in Nat /\ size = 4 * (size \div 4)
            /\ (c \div 4) + (size \div 4) <= k \div 4
        BY <3>1, SMTT(30)
      <3> QED
        BY <3>2 DEF k, c
    <2> HIDE DEF u, m
    <2> QED
      BY <2>1, <2>3, SelectionCardinality
  <1> QED
    BY <1>1, ScheduleInvariant, PTL

\* A host that no run lost works on every container, and on none of them twice.
THEOREM ScheduleOneTurnEach == ScheduleSpec => []OneTurnEach
  <1>1. ScheduleInv => OneTurnEach
    <2> SUFFICES ASSUME ScheduleInv, NEW h \in clean
                 PROVE  /\ play = "preparation" /\ at[h] = "done"
                             => inventory[h] \cap touched[h] = {}
                        /\ ScheduleDone => touched[h] = Container
      BY DEF OneTurnEach
    <2>1. /\ h \in Hosts
          /\ counter[h] \in Nat /\ counter[h] % 4 = 0 /\ size \in Nat
          /\ remaining \in Nat /\ ~reuse
      BY DEF ScheduleInv, ScheduleTypeOK, TypeOK, PoolInv, HoldsSelection, GroupsOnly
    <2>2. ASSUME ~Worked(h)
          PROVE  touched[h] = Selection(0, counter[h] \div 4)
      <3>1. counter[h] + 0 = counter[h]
        BY <2>1
      <3> QED
        BY <2>2, <3>1 DEF ScheduleInv, CleanAccount
    <2>3. ASSUME play = "preparation", at[h] = "done"
          PROVE  inventory[h] \cap touched[h] = {}
      <3>1. /\ touched[h] = Selection(0, counter[h] \div 4)
            /\ inventory[h] = Selection(counter[h] \div 4, size \div 4)
            /\ size % 4 = 0
        BY <2>1, <2>2, <2>3
        DEF Worked, Holding, ScheduleInv, PoolInv, HoldsSelection, SizeIsAccepted
      <3>2. counter[h] \div 4 \in Nat /\ size \div 4 \in Nat
        BY <2>1, <3>1, WholeGroups
      <3> QED
        BY <3>1, <3>2, NextSelection
    <2>4. ASSUME ScheduleDone
          PROVE  touched[h] = Container
      <3>1. counter[h] = containers_count
        BY <2>1, <2>4 DEF ScheduleDone, Due, ScheduleInv, CleanAccount
      <3>2. touched[h] = Selection(0, containers_count \div 4)
        BY <2>2, <2>4, <3>1 DEF ScheduleDone, Worked
      <3>3. containers_count \div 4 \in Nat
        BY ScheduleAssumption
      <3>4. \A c \in Container : c[2] > LineOf(c[1], 0) /\ c[2] <= LineOf(c[1], containers_count \div 4)
        BY <3>3, ScheduleAssumption DEF Container, LineOf, EL
      <3> QED
        BY <3>2, <3>3, <3>4 DEF Selection
    <2> QED
      BY <2>3, <2>4
  <1> QED
    BY <1>1, ScheduleInvariant, PTL
=============================================================================
