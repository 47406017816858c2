---------------------------- MODULE BrowserProofs ----------------------------
(***************************************************************************)
(* Proofs about the browser test: the evaluation of a role, for every      *)
(* menu, scenario list and workflow list; the readiness of a page and its  *)
(* requests, for any pages, times and request ids.                         *)
(***************************************************************************)
EXTENDS RoleEvaluationProps, RequestTrackerProps, ContentReadiness, FiniteSetTheorems,
        SequenceTheorems, TLAPS

\* Taking the head off a sequence takes its value out of the range.
LEMMA HeadAndTail ==
  ASSUME NEW S, NEW s \in Seq(S), s # <<>>
  PROVE  /\ Head(s) \in S
         /\ Tail(s) \in Seq(S)
         /\ Range(s) = {Head(s)} \cup Range(Tail(s))
         /\ IsInjective(s) => IsInjective(Tail(s)) /\ Head(s) \notin Range(Tail(s))
  <1>1. /\ Head(s) \in S /\ Tail(s) \in Seq(S)
        /\ Len(Tail(s)) = Len(s) - 1
        /\ \A i \in 1 .. Len(Tail(s)) : Tail(s)[i] = s[i + 1]
    BY HeadTailProperties
  <1>2. /\ Len(s) \in Nat \ {0} /\ DOMAIN s = 1 .. Len(s)
        /\ DOMAIN Tail(s) = 1 .. (Len(s) - 1)
        /\ Head(s) = s[1]
    BY <1>1, EmptySeq
  <1>3. Range(s) \subseteq {Head(s)} \cup Range(Tail(s))
    <2> SUFFICES ASSUME NEW i \in 1 .. Len(s), i # 1
                 PROVE  s[i] \in Range(Tail(s))
      BY <1>2 DEF Range
    <2>1. i - 1 \in DOMAIN Tail(s) /\ Tail(s)[i - 1] = s[i]
      BY <1>1, <1>2
    <2> QED
      BY <2>1 DEF Range
  <1>4. {Head(s)} \cup Range(Tail(s)) \subseteq Range(s)
    <2> SUFFICES ASSUME NEW i \in 1 .. (Len(s) - 1)
                 PROVE  Tail(s)[i] \in Range(s)
      BY <1>2 DEF Range
    <2>1. i + 1 \in DOMAIN s /\ Tail(s)[i] = s[i + 1]
      BY <1>1, <1>2
    <2> QED
      BY <2>1 DEF Range
  <1>5. ASSUME IsInjective(s)
        PROVE  IsInjective(Tail(s)) /\ Head(s) \notin Range(Tail(s))
    <2>1. \A i \in 1 .. (Len(s) - 1) : i + 1 \in DOMAIN s /\ Tail(s)[i] = s[i + 1]
      BY <1>1, <1>2
    <2>2. IsInjective(Tail(s))
      BY <1>2, <1>5, <2>1 DEF IsInjective
    <2>3. Head(s) \notin Range(Tail(s))
      BY <1>2, <1>5, <2>1 DEF IsInjective, Range
    <2> QED
      BY <2>2, <2>3
  <1> QED
    BY <1>1, <1>3, <1>4, <1>5

-----------------------------------------------------------------------------
(***************************************************************************)
(* The inductive invariant.  Its parts: what todo runs over; what the      *)
(* stored results say of the coverage; that pages still ahead in the menu  *)
(* are untouched; where a recording may be on; what a final PASS excludes. *)
(***************************************************************************)
AtWorkflow == {"list", "search", "target", "classify", "activate", "leave", "unwind", "recover"}

TodoFits ==
    /\ pc \in {"menu", "scenarios"} => todo \in Seq(Page)
    /\ pc \in AtWorkflow \cup {"workflows"} => todo \in Seq(Flow)
    /\ pc \in AtWorkflow => todo # <<>>

ResultsMatchCoverage ==
    /\ visited = {p \in Page : pages[p].measured}
    /\ \A p \in Page :
        /\ pages[p].known <=> (pages[p].measured \/ pages[p].error)
        /\ ~(pages[p].measured /\ pages[p].error)
        /\ p \in failed => pages[p].error
        /\ pages[p].error /\ p \in required => p \in failed
        /\ p \in skipped => p \in skip \/ (pages[p].error /\ p \notin failed)
        /\ pages[p].known => p \notin skip

MenuAhead ==
    /\ pc \in {"login", "discover"} =>
        (\A p \in Page : ~pages[p].known) /\ skipped = {} /\ discovered = {}
    /\ pc = "menu" =>
        IsInjective(todo) /\ \A p \in Range(todo) : ~pages[p].known /\ p \notin skipped
    /\ discovered \subseteq
        visited \cup skipped \cup failed \cup (IF pc = "menu" THEN Range(todo) ELSE {})

RecordingInside ==
    /\ observing => pc \in {"leave", "unwind"}
    /\ chunk = started
    /\ chunk => pc \in {"classify", "activate", "leave", "unwind", "recover", "raised"}

PassExcludes ==
    pc = "done" /\ status = "PASS" =>
        /\ MissingRequired = {} /\ failed = {}
        /\ \A w \in Flow : flows[w] # "FAIL"

RoleInv ==
    TypeOK /\ TodoFits /\ ResultsMatchCoverage /\ MenuAhead /\ RecordingInside /\ PassExcludes

-----------------------------------------------------------------------------
LEMMA HostPageType ==
  ASSUME NEW menu
  PROVE  HostPageOf(menu) \in HostPages \cup {NoPage}
  BY DEF HostPageOf, HostPages

LEMMA InitInv == Init => RoleInv
  <1> SUFFICES ASSUME Init PROVE RoleInv
    OBVIOUS
  <1>1. <<>> \in Seq(Page)
    BY EmptySeq
  <1>2. TypeOK
    BY <1>1 DEF Init, TypeOK, PageResult, Unknown
  <1>3. TodoFits /\ RecordingInside /\ PassExcludes
    BY DEF Init, TodoFits, AtWorkflow, RecordingInside, PassExcludes
  <1>4. ResultsMatchCoverage /\ MenuAhead
    BY DEF Init, ResultsMatchCoverage, MenuAhead, Unknown
  <1> QED
    BY <1>2, <1>3, <1>4 DEF RoleInv

\* A step that leaves coverage and results alone, after the menu.
LEMMA AwayFromPages ==
  ASSUME RoleInv, UNCHANGED <<config, coverage, pages>>,
         pc \notin {"login", "discover", "menu"}, pc' \notin {"login", "discover", "menu"}
  PROVE  ResultsMatchCoverage' /\ MenuAhead'
  BY DEF RoleInv, ResultsMatchCoverage, MenuAhead, config, coverage

LEMMA EscapeInv == RoleInv /\ pc \in {"login", "discover", "recover"} /\ Escape => RoleInv'
  <1> SUFFICES ASSUME RoleInv, pc \in {"login", "discover", "recover"}, Escape PROVE RoleInv'
    OBVIOUS
  <1>1. pc' = "raised" /\ UNCHANGED <<config, todo, coverage, menuHost, pages, flows, recording, status>>
    BY DEF Escape
  <1>2. TypeOK'
    BY <1>1 DEF RoleInv, TypeOK, config, coverage, recording
  <1>3. TodoFits' /\ PassExcludes'
    BY <1>1 DEF TodoFits, AtWorkflow, PassExcludes
  <1>4. RecordingInside'
    BY <1>1 DEF RoleInv, RecordingInside, recording
  <1>5. ResultsMatchCoverage'
    BY <1>1 DEF RoleInv, ResultsMatchCoverage, config, coverage
  <1>6. MenuAhead'
    BY <1>1 DEF RoleInv, MenuAhead, coverage
  <1> QED
    BY <1>2, <1>3, <1>4, <1>5, <1>6 DEF RoleInv

-----------------------------------------------------------------------------
(***************************************************************************)
(* One lemma per group of actions.                                         *)
(***************************************************************************)
LEMMA LoginInv == RoleInv /\ Login => RoleInv'
  <1> SUFFICES ASSUME RoleInv, Login, ~Escape PROVE RoleInv'
    BY EscapeInv DEF Login
  <1>1. /\ pc = "login" /\ pc' = "discover"
        /\ UNCHANGED <<config, todo, coverage, menuHost, pages, flows, recording, status>>
    BY DEF Login
  <1>2. TypeOK'
    BY <1>1 DEF RoleInv, TypeOK, config, coverage, recording
  <1>3. TodoFits' /\ PassExcludes'
    BY <1>1 DEF TodoFits, AtWorkflow, PassExcludes
  <1>4. RecordingInside'
    BY <1>1 DEF RoleInv, RecordingInside, recording
  <1>5. ResultsMatchCoverage' /\ MenuAhead'
    BY <1>1 DEF RoleInv, ResultsMatchCoverage, MenuAhead, config, coverage
  <1> QED
    BY <1>2, <1>3, <1>4, <1>5 DEF RoleInv

LEMMA DiscoverInv ==
  ASSUME NEW menu \in Seq(Page), RoleInv, Discover(menu)
  PROVE  RoleInv'
  <1> SUFFICES ASSUME ~Escape PROVE RoleInv'
    BY EscapeInv DEF Discover
  <1>1. /\ pc = "discover" /\ pc' = "menu" /\ todo' = menu /\ IsInjective(menu)
        /\ discovered' = Range(menu) /\ menuHost' = HostPageOf(menu)
        /\ UNCHANGED <<config, visited, skipped, failed, pages, flows, recording, status>>
    BY DEF Discover
  <1>2. Range(menu) \subseteq Page
    BY DEF Range
  <1>3. TypeOK'
    BY <1>1, <1>2, HostPageType DEF RoleInv, TypeOK, config, recording
  <1>4. TodoFits' /\ PassExcludes'
    BY <1>1 DEF TodoFits, AtWorkflow, PassExcludes
  <1>5. RecordingInside'
    BY <1>1 DEF RoleInv, RecordingInside, recording
  <1>6. ResultsMatchCoverage'
    BY <1>1 DEF RoleInv, ResultsMatchCoverage, config
  <1>7. MenuAhead'
    BY <1>1, <1>2 DEF RoleInv, MenuAhead
  <1> QED
    BY <1>3, <1>4, <1>5, <1>6, <1>7 DEF RoleInv

\* The three values a page may be given.
LEMMA ResultValues ==
  /\ Measured \in PageResult /\ Failed \in PageResult
  /\ Measured.known /\ Measured.measured /\ ~Measured.error
  /\ Failed.known /\ Failed.error /\ ~Failed.measured
  BY DEF PageResult, Measured, Failed

\* What failing in the menu and a scenario's probe change of a result.
Failing(page) == [page EXCEPT !.known = TRUE, !.error = TRUE]

LEMMA FailingValue ==
  ASSUME NEW page \in PageResult
  PROVE  /\ Failing(page) \in PageResult
         /\ Failing(page).known /\ Failing(page).error
         /\ Failing(page).measured = page.measured
  BY DEF Failing, PageResult

LEMMA ProbeValues ==
  ASSUME NEW page \in PageResult,
         NEW probe \in {[page EXCEPT !.probed = TRUE], [page EXCEPT !.probeError = TRUE]}
  PROVE  /\ probe \in PageResult
         /\ probe.known = page.known /\ probe.error = page.error
         /\ probe.measured = page.measured
  BY DEF PageResult

LEMMA VisitMenuPageInv == RoleInv /\ VisitMenuPage => RoleInv'
  <1> SUFFICES ASSUME RoleInv, VisitMenuPage PROVE RoleInv'
    OBVIOUS
  <1> DEFINE p == Head(todo)
  <1>1. /\ pc = "menu" /\ todo # <<>> /\ todo' = Tail(todo)
        /\ UNCHANGED <<config, pc, discovered, menuHost, flows, recording, status>>
    BY DEF VisitMenuPage
  <1>2. todo \in Seq(Page)
    BY <1>1 DEF RoleInv, TodoFits
  <1>3. /\ p \in Page /\ Tail(todo) \in Seq(Page)
        /\ Range(todo) = {p} \cup Range(Tail(todo))
        /\ IsInjective(Tail(todo)) /\ p \notin Range(Tail(todo))
    BY <1>1, <1>2, HeadAndTail DEF RoleInv, MenuAhead
  <1>4. ~pages[p].known /\ p \notin skipped
    BY <1>1, <1>3 DEF RoleInv, MenuAhead
  <1>5. pages \in [Page -> PageResult] /\ pages[p] \in PageResult
    BY <1>3 DEF RoleInv, TypeOK
  <1>6. CASE p \in skip /\ skipped' = skipped \cup {p} /\ UNCHANGED <<visited, failed, pages>>
    <2>1. TypeOK'
      BY <1>1, <1>3, <1>6 DEF RoleInv, TypeOK, config, recording
    <2>2. ResultsMatchCoverage'
      BY <1>1, <1>6 DEF RoleInv, ResultsMatchCoverage, config
    <2>3. MenuAhead'
      BY <1>1, <1>3, <1>6 DEF RoleInv, MenuAhead
    <2> QED
      BY <1>1, <1>3, <2>1, <2>2, <2>3
         DEF RoleInv, TodoFits, AtWorkflow, PassExcludes, RecordingInside, recording
  <1>7. CASE /\ p \notin skip /\ visited' = visited \cup {p}
             /\ pages' = [pages EXCEPT ![p] = Measured]
             /\ UNCHANGED <<skipped, failed>>
    <2>1. /\ pages' \in [Page -> PageResult]
          /\ pages'[p] = Measured
          /\ \A q \in Page \ {p} : pages'[q] = pages[q]
      BY <1>3, <1>5, <1>7, ResultValues
    <2>2. TypeOK'
      BY <1>1, <1>3, <1>7, <2>1 DEF RoleInv, TypeOK, config, recording
    <2>3. ResultsMatchCoverage'
      BY <1>1, <1>3, <1>4, <1>7, <2>1, ResultValues DEF RoleInv, ResultsMatchCoverage, config
    <2>4. MenuAhead'
      BY <1>1, <1>3, <1>7, <2>1 DEF RoleInv, MenuAhead, TypeOK
    <2> QED
      BY <1>1, <1>3, <2>2, <2>3, <2>4
         DEF RoleInv, TodoFits, AtWorkflow, PassExcludes, RecordingInside, recording
  <1>8. CASE /\ p \notin skip /\ failed' = failed \cup {p}
             /\ pages' = [pages EXCEPT ![p] = Failing(pages[p])]
             /\ UNCHANGED <<visited, skipped>>
    <2>1. /\ pages' \in [Page -> PageResult]
          /\ pages'[p] = Failing(pages[p])
          /\ \A q \in Page \ {p} : pages'[q] = pages[q]
      BY <1>3, <1>5, <1>8, FailingValue
    <2>2. TypeOK'
      BY <1>1, <1>3, <1>8, <2>1 DEF RoleInv, TypeOK, config, recording
    <2>3. /\ pages'[p].known /\ pages'[p].error /\ ~pages'[p].measured
      BY <1>3, <1>4, <1>5, <2>1, FailingValue DEF RoleInv, ResultsMatchCoverage
    <2>4. ResultsMatchCoverage'
      BY <1>1, <1>3, <1>4, <1>8, <2>1, <2>3 DEF RoleInv, ResultsMatchCoverage, config
    <2>5. MenuAhead'
      BY <1>1, <1>3, <1>8, <2>1 DEF RoleInv, MenuAhead, TypeOK
    <2> QED
      BY <1>1, <1>3, <2>2, <2>4, <2>5
         DEF RoleInv, TodoFits, AtWorkflow, PassExcludes, RecordingInside, recording
  <1> QED
    BY <1>4, <1>6, <1>7, <1>8 DEF VisitMenuPage, Stored, FirstResult, Failing, p

LEMMA MenuDoneInv == RoleInv /\ MenuDone => RoleInv'
  <1> SUFFICES ASSUME RoleInv, MenuDone PROVE RoleInv'
    OBVIOUS
  <1>1. /\ pc = "menu" /\ todo = <<>> /\ pc' = "scenarios" /\ todo' = Scenarios
        /\ UNCHANGED <<config, coverage, menuHost, pages, flows, recording, status>>
    BY DEF MenuDone
  <1>2. Range(todo) = {}
    BY <1>1 DEF Range
  <1>3. Scenarios \in Seq(Page)
    BY RoleAssumption
  <1>4. TypeOK'
    BY <1>1, <1>3 DEF RoleInv, TypeOK, config, coverage, recording
  <1>5. TodoFits' /\ PassExcludes'
    BY <1>1, <1>3 DEF TodoFits, AtWorkflow, PassExcludes
  <1>6. RecordingInside'
    BY <1>1 DEF RoleInv, RecordingInside, recording
  <1>7. ResultsMatchCoverage'
    BY <1>1 DEF RoleInv, ResultsMatchCoverage, config, coverage
  <1>8. MenuAhead'
    BY <1>1, <1>2 DEF RoleInv, MenuAhead, coverage
  <1> QED
    BY <1>4, <1>5, <1>6, <1>7, <1>8 DEF RoleInv

LEMMA RunScenarioInv == RoleInv /\ RunScenario => RoleInv'
  <1> SUFFICES ASSUME RoleInv, RunScenario PROVE RoleInv'
    OBVIOUS
  <1> DEFINE p == Head(todo)
  <1>1. /\ pc = "scenarios" /\ todo # <<>> /\ todo' = Tail(todo)
        /\ UNCHANGED <<config, pc, discovered, menuHost, flows, recording, status>>
    BY DEF RunScenario
  <1>2. p \in Page /\ Tail(todo) \in Seq(Page)
    BY <1>1, HeadAndTail DEF RoleInv, TodoFits
  <1>3. pages \in [Page -> PageResult] /\ pages[p] \in PageResult
    BY <1>2 DEF RoleInv, TypeOK
  <1>4. TodoFits' /\ PassExcludes'
    BY <1>1, <1>2 DEF TodoFits, AtWorkflow, PassExcludes
  <1>5. RecordingInside'
    BY <1>1 DEF RoleInv, RecordingInside, recording
  <1>6. CASE UNCHANGED <<visited, skipped, failed, pages>>
    <2>1. TypeOK'
      BY <1>1, <1>2, <1>6 DEF RoleInv, TypeOK, config, recording
    <2>2. ResultsMatchCoverage' /\ MenuAhead'
      BY <1>1, <1>6, AwayFromPages DEF coverage
    <2> QED
      BY <1>4, <1>5, <2>1, <2>2 DEF RoleInv
  \* The page was known: it gains a probe or the error of a probe.
  <1>7. CASE /\ pages[p].known
             /\ \/ pages' = [pages EXCEPT ![p].probed = TRUE]
                \/ pages' = [pages EXCEPT ![p].probeError = TRUE]
             /\ UNCHANGED <<visited, skipped, failed>>
    <2>1. PICK probe \in {[pages[p] EXCEPT !.probed = TRUE], [pages[p] EXCEPT !.probeError = TRUE]} :
            pages' = [pages EXCEPT ![p] = probe]
      BY <1>7
    <2>2. /\ pages' \in [Page -> PageResult]
          /\ \A q \in Page : /\ pages'[q].known = pages[q].known
                             /\ pages'[q].error = pages[q].error
                             /\ pages'[q].measured = pages[q].measured
      <3>1. /\ probe \in PageResult
            /\ probe.known = pages[p].known /\ probe.error = pages[p].error
            /\ probe.measured = pages[p].measured
        BY <1>3, ProbeValues
      <3>2. /\ pages' \in [Page -> PageResult] /\ pages'[p] = probe
            /\ \A q \in Page : q # p => pages'[q] = pages[q]
        BY <1>2, <1>3, <2>1, <3>1
      <3> QED
        BY <3>1, <3>2
    <2>3. TypeOK'
      BY <1>1, <1>2, <1>7, <2>2 DEF RoleInv, TypeOK, config, recording
    <2>4. ResultsMatchCoverage'
      BY <1>1, <1>7, <2>2 DEF RoleInv, ResultsMatchCoverage, config
    <2>5. MenuAhead'
      BY <1>1, <1>7 DEF RoleInv, MenuAhead
    <2> QED
      BY <1>4, <1>5, <2>3, <2>4, <2>5 DEF RoleInv
  \* The page was not known: it is in none of the lists yet.
  <1>8. ASSUME p \notin skip, ~pages[p].known
        PROVE  p \notin skipped /\ p \notin failed /\ p \notin visited
    BY <1>2, <1>8 DEF RoleInv, ResultsMatchCoverage
  <1>9. CASE /\ p \notin skip /\ ~pages[p].known
             /\ pages' = [pages EXCEPT ![p] = Measured]
             /\ visited' = visited \cup {p}
             /\ UNCHANGED <<skipped, failed>>
    <2>1. /\ pages' \in [Page -> PageResult] /\ pages'[p] = Measured
          /\ \A q \in Page \ {p} : pages'[q] = pages[q]
      BY <1>2, <1>3, <1>9, ResultValues
    <2>2. TypeOK'
      BY <1>1, <1>2, <1>9, <2>1 DEF RoleInv, TypeOK, config, recording
    <2> HIDE DEF p
    <2>3. ResultsMatchCoverage'
      BY <1>1, <1>2, <1>8, <1>9, <2>1, ResultValues DEF RoleInv, ResultsMatchCoverage, config
    <2>4. MenuAhead'
      BY <1>1, <1>9 DEF RoleInv, MenuAhead
    <2> QED
      BY <1>4, <1>5, <2>2, <2>3, <2>4 DEF RoleInv
  <1>10. CASE /\ p \notin skip /\ ~pages[p].known
              /\ pages' = [pages EXCEPT ![p] = Failed]
              /\ UNCHANGED visited
              /\ \/ failed' = failed \cup {p} /\ UNCHANGED skipped
                 \/ p \notin required /\ skipped' = skipped \cup {p} /\ UNCHANGED failed
    <2>1. /\ pages' \in [Page -> PageResult] /\ pages'[p] = Failed
          /\ \A q \in Page \ {p} : pages'[q] = pages[q]
      BY <1>2, <1>3, <1>10, ResultValues
    <2>2. TypeOK'
      BY <1>1, <1>2, <1>10, <2>1 DEF RoleInv, TypeOK, config, recording
    <2> HIDE DEF p
    <2>3. ResultsMatchCoverage'
      BY <1>1, <1>2, <1>8, <1>10, <2>1, ResultValues DEF RoleInv, ResultsMatchCoverage, config
    <2>4. MenuAhead'
      BY <1>1, <1>10 DEF RoleInv, MenuAhead
    <2> QED
      BY <1>4, <1>5, <2>2, <2>3, <2>4 DEF RoleInv
  <1>11. CASE ScenarioLeftOut(p) /\ UNCHANGED <<visited, skipped, failed, pages>>
    BY <1>6, <1>11
  <1>12. CASE ~ScenarioLeftOut(p) /\ ScenarioPasses(p)
    BY <1>7, <1>9, <1>12 DEF ScenarioLeftOut, ScenarioPasses, Stored, FirstResult
  <1>13. CASE ~ScenarioLeftOut(p) /\ ScenarioFails(p)
    BY <1>7, <1>10, <1>13 DEF ScenarioLeftOut, ScenarioFails
  <1> QED
    BY <1>11, <1>12, <1>13 DEF RunScenario

LEMMA ScenariosDoneInv == RoleInv /\ ScenariosDone => RoleInv'
  <1> SUFFICES ASSUME RoleInv, ScenariosDone PROVE RoleInv'
    OBVIOUS
  <1>1. /\ pc = "scenarios" /\ pc' = "workflows" /\ todo' = Flows
        /\ UNCHANGED <<config, coverage, menuHost, pages, flows, recording, status>>
    BY DEF ScenariosDone
  <1>2. Flows \in Seq(Flow)
    BY RoleAssumption
  <1>3. TypeOK'
    BY <1>1, <1>2 DEF RoleInv, TypeOK, config, coverage, recording
  <1>4. TodoFits' /\ PassExcludes'
    BY <1>1, <1>2 DEF TodoFits, AtWorkflow, PassExcludes
  <1>5. RecordingInside'
    BY <1>1 DEF RoleInv, RecordingInside, recording
  <1> QED
    BY <1>1, <1>3, <1>4, <1>5, AwayFromPages DEF RoleInv

-----------------------------------------------------------------------------
(***************************************************************************)
(* The workflow loop.                                                      *)
(***************************************************************************)
\* Closing the workflow at the head of todo keeps the types.
LEMMA CloseType ==
  ASSUME RoleInv, pc \in AtWorkflow \cup {"workflows"}, todo # <<>>,
         NEW verdict \in {"PASS", "FAIL", "SKIPPED"}, Close(verdict)
  PROVE  /\ flows' \in [Flow -> {"none", "PASS", "FAIL", "SKIPPED"}]
         /\ todo' \in Seq(Flow) /\ pc' = "workflows"
         /\ listed' \in BOOLEAN /\ unsaved' \in BOOLEAN
  <1>1. todo \in Seq(Flow)
    BY DEF RoleInv, TodoFits
  <1>2. Tail(todo) \in Seq(Flow)
    BY <1>1, HeadAndTail
  <1> QED
    BY <1>2 DEF RoleInv, TypeOK, Close

\* Either the workflow closes, or it goes on at another place.
LEMMA FlowStepInv ==
  ASSUME RoleInv, pc \in AtWorkflow \cup {"workflows"}, todo # <<>>,
         UNCHANGED <<config, coverage, menuHost, pages, status>>,
         \/ \E verdict \in {"PASS", "FAIL", "SKIPPED"} : Close(verdict)
         \/ /\ pc' \in AtWorkflow
            /\ UNCHANGED <<todo, flows>>
            /\ listed' \in BOOLEAN /\ unsaved' \in BOOLEAN,
         chunk' \in BOOLEAN, started' \in BOOLEAN, observing' \in BOOLEAN,
         RecordingInside'
  PROVE  RoleInv'
  <1>1. /\ pc' \in AtWorkflow \cup {"workflows"}
        /\ todo' \in Seq(Flow)
        /\ flows' \in [Flow -> {"none", "PASS", "FAIL", "SKIPPED"}]
        /\ listed' \in BOOLEAN /\ unsaved' \in BOOLEAN
        /\ pc' \in AtWorkflow => todo' # <<>>
    <2>1. CASE \E verdict \in {"PASS", "FAIL", "SKIPPED"} : Close(verdict)
      BY <2>1, CloseType DEF AtWorkflow
    <2>2. CASE pc' \in AtWorkflow /\ UNCHANGED <<todo, flows>>
                 /\ listed' \in BOOLEAN /\ unsaved' \in BOOLEAN
      BY <2>2 DEF RoleInv, TypeOK, TodoFits
    <2> QED
      BY <2>1, <2>2
  <1>2. TypeOK'
    BY <1>1 DEF RoleInv, TypeOK, AtWorkflow, config, coverage
  <1>3. TodoFits' /\ PassExcludes'
    BY <1>1 DEF TodoFits, AtWorkflow, PassExcludes
  <1>4. ResultsMatchCoverage' /\ MenuAhead'
    BY <1>1, AwayFromPages DEF AtWorkflow
  <1> QED
    BY <1>2, <1>3, <1>4 DEF RoleInv

LEMMA StartFlowInv == RoleInv /\ StartFlow => RoleInv'
  <1> SUFFICES ASSUME RoleInv, StartFlow PROVE RoleInv'
    OBVIOUS
  <1>1. pc \in AtWorkflow \cup {"workflows"} /\ todo # <<>>
    BY DEF RoleInv, TodoFits, AtWorkflow, StartFlow
  <1>2. /\ chunk \in BOOLEAN /\ started \in BOOLEAN /\ observing \in BOOLEAN
        /\ listed \in BOOLEAN /\ unsaved \in BOOLEAN /\ tracing \in BOOLEAN
        /\ RecordingInside
    BY DEF RoleInv, TypeOK
  <1>3. UNCHANGED <<config, coverage, menuHost, pages, status>>
    BY DEF StartFlow
  <1>4. \/ \E verdict \in {"PASS", "FAIL", "SKIPPED"} : Close(verdict)
        \/ /\ pc' \in AtWorkflow /\ UNCHANGED <<todo, flows>>
           /\ listed' \in BOOLEAN /\ unsaved' \in BOOLEAN
    BY <1>2 DEF StartFlow, AtWorkflow
  <1>5. chunk' \in BOOLEAN /\ started' \in BOOLEAN /\ observing' \in BOOLEAN
    BY <1>2 DEF StartFlow, StopChunk, StopChunkRaises
  <1>6. RecordingInside'
    BY <1>2 DEF StartFlow, RecordingInside, Close, StopChunk, StopChunkRaises
  <1> QED
    BY <1>1, <1>3, <1>4, <1>5, <1>6, FlowStepInv

LEMMA OpenListInv == RoleInv /\ OpenList => RoleInv'
  <1> SUFFICES ASSUME RoleInv, OpenList PROVE RoleInv'
    OBVIOUS
  <1>1. pc \in AtWorkflow \cup {"workflows"} /\ todo # <<>>
    BY DEF RoleInv, TodoFits, AtWorkflow, OpenList
  <1>2. /\ chunk \in BOOLEAN /\ started \in BOOLEAN /\ observing \in BOOLEAN
        /\ listed \in BOOLEAN /\ unsaved \in BOOLEAN /\ tracing \in BOOLEAN
        /\ RecordingInside
    BY DEF RoleInv, TypeOK
  <1>3. UNCHANGED <<config, coverage, menuHost, pages, status>>
    BY DEF OpenList
  <1>4. \/ \E verdict \in {"PASS", "FAIL", "SKIPPED"} : Close(verdict)
        \/ /\ pc' \in AtWorkflow /\ UNCHANGED <<todo, flows>>
           /\ listed' \in BOOLEAN /\ unsaved' \in BOOLEAN
    BY <1>2 DEF OpenList, AtWorkflow
  <1>5. chunk' \in BOOLEAN /\ started' \in BOOLEAN /\ observing' \in BOOLEAN
    BY <1>2 DEF OpenList, StopChunk, StopChunkRaises
  <1>6. RecordingInside'
    BY <1>2 DEF OpenList, RecordingInside, Close, StopChunk, StopChunkRaises
  <1> QED
    BY <1>1, <1>3, <1>4, <1>5, <1>6, FlowStepInv

LEMMA SearchInv == RoleInv /\ Search => RoleInv'
  <1> SUFFICES ASSUME RoleInv, Search PROVE RoleInv'
    OBVIOUS
  <1>1. pc \in AtWorkflow \cup {"workflows"} /\ todo # <<>>
    BY DEF RoleInv, TodoFits, AtWorkflow, Search
  <1>2. /\ chunk \in BOOLEAN /\ started \in BOOLEAN /\ observing \in BOOLEAN
        /\ listed \in BOOLEAN /\ unsaved \in BOOLEAN /\ tracing \in BOOLEAN
        /\ RecordingInside
    BY DEF RoleInv, TypeOK
  <1>3. UNCHANGED <<config, coverage, menuHost, pages, status>>
    BY DEF Search
  <1>4. \/ \E verdict \in {"PASS", "FAIL", "SKIPPED"} : Close(verdict)
        \/ /\ pc' \in AtWorkflow /\ UNCHANGED <<todo, flows>>
           /\ listed' \in BOOLEAN /\ unsaved' \in BOOLEAN
    BY <1>2 DEF Search, AtWorkflow
  <1>5. chunk' \in BOOLEAN /\ started' \in BOOLEAN /\ observing' \in BOOLEAN
    BY <1>2 DEF Search, StopChunk, StopChunkRaises
  <1>6. RecordingInside'
    BY <1>2 DEF Search, RecordingInside, Close, StopChunk, StopChunkRaises
  <1> QED
    BY <1>1, <1>3, <1>4, <1>5, <1>6, FlowStepInv

LEMMA FindTargetInv == RoleInv /\ FindTarget => RoleInv'
  <1> SUFFICES ASSUME RoleInv, FindTarget PROVE RoleInv'
    OBVIOUS
  <1>1. pc \in AtWorkflow \cup {"workflows"} /\ todo # <<>>
    BY DEF RoleInv, TodoFits, AtWorkflow, FindTarget
  <1>2. /\ chunk \in BOOLEAN /\ started \in BOOLEAN /\ observing \in BOOLEAN
        /\ listed \in BOOLEAN /\ unsaved \in BOOLEAN /\ tracing \in BOOLEAN
        /\ RecordingInside
    BY DEF RoleInv, TypeOK
  <1>3. UNCHANGED <<config, coverage, menuHost, pages, status>>
    BY DEF FindTarget
  <1>4. \/ \E verdict \in {"PASS", "FAIL", "SKIPPED"} : Close(verdict)
        \/ /\ pc' \in AtWorkflow /\ UNCHANGED <<todo, flows>>
           /\ listed' \in BOOLEAN /\ unsaved' \in BOOLEAN
    BY <1>2 DEF FindTarget, AtWorkflow
  <1>5. chunk' \in BOOLEAN /\ started' \in BOOLEAN /\ observing' \in BOOLEAN
    BY <1>2 DEF FindTarget, StopChunk, StopChunkRaises
  <1>6. RecordingInside'
    BY <1>2 DEF FindTarget, RecordingInside, Close, StopChunk, StopChunkRaises
  <1> QED
    BY <1>1, <1>3, <1>4, <1>5, <1>6, FlowStepInv

LEMMA NoTargetInv == RoleInv /\ NoTarget => RoleInv'
  <1> SUFFICES ASSUME RoleInv, NoTarget PROVE RoleInv'
    OBVIOUS
  <1>1. pc \in AtWorkflow \cup {"workflows"} /\ todo # <<>>
    BY DEF RoleInv, TodoFits, AtWorkflow, NoTarget
  <1>2. /\ chunk \in BOOLEAN /\ started \in BOOLEAN /\ observing \in BOOLEAN
        /\ listed \in BOOLEAN /\ unsaved \in BOOLEAN /\ tracing \in BOOLEAN
        /\ RecordingInside
    BY DEF RoleInv, TypeOK
  <1>3. UNCHANGED <<config, coverage, menuHost, pages, status>>
    BY DEF NoTarget
  <1>4. \/ \E verdict \in {"PASS", "FAIL", "SKIPPED"} : Close(verdict)
        \/ /\ pc' \in AtWorkflow /\ UNCHANGED <<todo, flows>>
           /\ listed' \in BOOLEAN /\ unsaved' \in BOOLEAN
    BY <1>2 DEF NoTarget, AtWorkflow
  <1>5. chunk' \in BOOLEAN /\ started' \in BOOLEAN /\ observing' \in BOOLEAN
    BY <1>2 DEF NoTarget, StopChunk, StopChunkRaises
  <1>6. RecordingInside'
    BY <1>2 DEF NoTarget, RecordingInside, Close, StopChunk, StopChunkRaises
  <1> QED
    BY <1>1, <1>3, <1>4, <1>5, <1>6, FlowStepInv

LEMMA ActivateInv == RoleInv /\ Activate => RoleInv'
  <1> SUFFICES ASSUME RoleInv, Activate PROVE RoleInv'
    OBVIOUS
  <1>1. pc \in AtWorkflow \cup {"workflows"} /\ todo # <<>>
    BY DEF RoleInv, TodoFits, AtWorkflow, Activate
  <1>2. /\ chunk \in BOOLEAN /\ started \in BOOLEAN /\ observing \in BOOLEAN
        /\ listed \in BOOLEAN /\ unsaved \in BOOLEAN /\ tracing \in BOOLEAN
        /\ RecordingInside
    BY DEF RoleInv, TypeOK
  <1>3. UNCHANGED <<config, coverage, menuHost, pages, status>>
    BY DEF Activate
  <1>4. \/ \E verdict \in {"PASS", "FAIL", "SKIPPED"} : Close(verdict)
        \/ /\ pc' \in AtWorkflow /\ UNCHANGED <<todo, flows>>
           /\ listed' \in BOOLEAN /\ unsaved' \in BOOLEAN
    BY <1>2 DEF Activate, AtWorkflow
  <1>5. chunk' \in BOOLEAN /\ started' \in BOOLEAN /\ observing' \in BOOLEAN
    <2>1. UNCHANGED <<chunk, started>>
      BY DEF Activate
    <2>2. observing' = TRUE \/ observing' = FALSE
      BY DEF Activate
    <2>3. observing' \in BOOLEAN
      BY <2>2
    <2> QED
      BY <1>2, <2>1, <2>3
  <1>6. RecordingInside'
    BY <1>2 DEF Activate, RecordingInside, Close, StopChunk, StopChunkRaises
  <1> QED
    BY <1>1, <1>3, <1>4, <1>5, <1>6, FlowStepInv

LEMMA FinallyInv == RoleInv /\ Finally => RoleInv'
  <1> SUFFICES ASSUME RoleInv, Finally PROVE RoleInv'
    OBVIOUS
  <1>1. pc \in AtWorkflow \cup {"workflows"} /\ todo # <<>>
    BY DEF RoleInv, TodoFits, AtWorkflow, Finally
  <1>2. /\ chunk \in BOOLEAN /\ started \in BOOLEAN /\ observing \in BOOLEAN
        /\ listed \in BOOLEAN /\ unsaved \in BOOLEAN /\ tracing \in BOOLEAN
        /\ RecordingInside
    BY DEF RoleInv, TypeOK
  <1>3. UNCHANGED <<config, coverage, menuHost, pages, status>>
    BY DEF Finally
  <1>4. \/ \E verdict \in {"PASS", "FAIL", "SKIPPED"} : Close(verdict)
        \/ /\ pc' \in AtWorkflow /\ UNCHANGED <<todo, flows>>
           /\ listed' \in BOOLEAN /\ unsaved' \in BOOLEAN
    BY <1>2 DEF Finally, AtWorkflow
  <1>5. chunk' \in BOOLEAN /\ started' \in BOOLEAN /\ observing' \in BOOLEAN
    BY <1>2 DEF Finally, StopChunk, StopChunkRaises
  <1>6. RecordingInside'
    BY <1>2 DEF Finally, RecordingInside, Close, StopChunk, StopChunkRaises
  <1> QED
    BY <1>1, <1>3, <1>4, <1>5, <1>6, FlowStepInv

LEMMA RecoverInv == RoleInv /\ Recover => RoleInv'
  <1> SUFFICES ASSUME RoleInv, Recover, ~Escape PROVE RoleInv'
    BY EscapeInv DEF Recover
  <1>1. pc \in AtWorkflow /\ todo # <<>>
    BY DEF RoleInv, TodoFits, AtWorkflow, Recover
  <1>2. observing \in BOOLEAN /\ ~observing
    BY DEF RoleInv, TypeOK, RecordingInside, Recover
  <1>3. /\ StopChunk /\ Close(RecoveredVerdict(Head(todo)))
        /\ UNCHANGED <<config, coverage, menuHost, pages, observing, status>>
    BY DEF Recover
  <1>4. RecoveredVerdict(Head(todo)) \in {"PASS", "FAIL", "SKIPPED"}
    BY DEF RecoveredVerdict
  <1>5. /\ chunk' \in BOOLEAN /\ started' \in BOOLEAN /\ observing' \in BOOLEAN
        /\ RecordingInside'
    BY <1>2, <1>3 DEF StopChunk, RecordingInside
  <1> QED
    BY <1>1, <1>3, <1>4, <1>5, FlowStepInv

LEMMA ConcludeInv == RoleInv /\ Conclude => RoleInv'
  <1> SUFFICES ASSUME RoleInv, Conclude PROVE RoleInv'
    OBVIOUS
  <1>1. /\ pc = "workflows" /\ pc' = "done"
        /\ UNCHANGED <<config, todo, coverage, menuHost, pages, flows, recording>>
    BY DEF Conclude
  <1>2. /\ status' \in {"PASS", "FAIL"}
        /\ status' = "PASS" =>
             MissingRequired = {} /\ failed = {} /\ \A w \in Flow : flows[w] # "FAIL"
    BY DEF Conclude, RoleInv, TypeOK
  <1>3. MissingRequired' = MissingRequired
    BY <1>1 DEF MissingRequired, RequiredPageMissing, coverage, config
  <1>4. TypeOK'
    BY <1>1, <1>2 DEF RoleInv, TypeOK, config, coverage, recording
  <1>5. TodoFits'
    BY <1>1 DEF TodoFits, AtWorkflow
  <1>6. PassExcludes'
    BY <1>1, <1>2, <1>3 DEF PassExcludes, coverage
  <1>7. RecordingInside'
    BY <1>1 DEF RoleInv, RecordingInside, recording
  <1> QED
    BY <1>1, <1>4, <1>5, <1>6, <1>7, AwayFromPages DEF RoleInv

LEMMA StutterInv == RoleInv /\ UNCHANGED vars => RoleInv'
  <1> SUFFICES ASSUME RoleInv, UNCHANGED vars PROVE RoleInv'
    OBVIOUS
  <1>1. UNCHANGED <<config, pc, todo, coverage, menuHost, pages, flows, recording, status>>
    BY DEF vars
  <1>2. TypeOK' /\ TodoFits'
    BY <1>1 DEF RoleInv, TypeOK, TodoFits, config, coverage, recording
  <1>3. ResultsMatchCoverage' /\ MenuAhead'
    BY <1>1 DEF RoleInv, ResultsMatchCoverage, MenuAhead, config, coverage
  <1>4. RecordingInside' /\ PassExcludes'
    BY <1>1 DEF RoleInv, RecordingInside, PassExcludes, MissingRequired, RequiredPageMissing,
                config, coverage, recording
  <1> QED
    BY <1>2, <1>3, <1>4 DEF RoleInv

-----------------------------------------------------------------------------
\* The invariant holds whatever the menu lists and whatever raises.
THEOREM RoleInvariant == Spec => []RoleInv
  <1>1. RoleInv /\ [Next]_vars => RoleInv'
    BY LoginInv, DiscoverInv, VisitMenuPageInv, MenuDoneInv, RunScenarioInv, ScenariosDoneInv,
       StartFlowInv, OpenListInv, SearchInv, FindTargetInv, NoTargetInv, ActivateInv,
       FinallyInv, RecoverInv, ConcludeInv, StutterInv
       DEF Next, Step
  <1> QED
    BY <1>1, InitInv, PTL DEF Spec

\* Every variable of evaluate_role keeps its type.
THEOREM RoleTypeOK == Spec => []TypeOK
  BY RoleInvariant, PTL DEF RoleInv

\* No page is ever in two lists of the coverage, and none of the menu is lost.
THEOREM RoleOneVerdictPerPage == Spec => []OneVerdictPerPage
  <1>1. RoleInv => OneVerdictPerPage
    BY DEF RoleInv, TypeOK, ResultsMatchCoverage, MenuAhead, OneVerdictPerPage
  <1> QED
    BY <1>1, RoleInvariant, PTL

\* A role that passed has no contract item that says otherwise.
THEOREM RoleContractFollowsStatus == Spec => []ContractFollowsStatus
  <1>1. RoleInv => ContractFollowsStatus
    <2> SUFFICES ASSUME RoleInv, pc = "done", status = "PASS"
                 PROVE  /\ \A p \in ContractPages : ContractPageStatus(p) = "PASS"
                        /\ \A w \in ContractFlows : ContractFlowStatus(w) # "FAIL"
      BY DEF ContractFollowsStatus
    <2>1. MissingRequired = {} /\ failed = {} /\ \A w \in Flow : flows[w] # "FAIL"
      BY DEF RoleInv, PassExcludes
    <2>2. ASSUME NEW p \in ContractPages
          PROVE  ContractPageStatus(p) = "PASS"
      <3>1. p \in Page /\ p \in required /\ ~RequiredPageMissing(p)
        BY <2>1, RoleAssumption DEF ContractPages, MissingRequired, RoleInv, TypeOK
      <3>2. ~pages[p].error
        BY <2>1, <3>1 DEF RoleInv, ResultsMatchCoverage
      <3>3. pages[Source(p)].measured
        BY <3>1, <3>2, RoleAssumption
           DEF Source, RequiredPageMissing, HostPages, RoleInv, ResultsMatchCoverage
      <3> QED
        BY <3>3 DEF ContractPageStatus
    <2>3. ASSUME NEW w \in ContractFlows
          PROVE  ContractFlowStatus(w) # "FAIL"
      BY <2>1, RoleAssumption DEF ContractFlows, ContractFlowStatus
    <2> QED
      BY <2>2, <2>3
  <1> QED
    BY <1>1, RoleInvariant, PTL

\* A trace chunk or an observer never reaches into the next workflow.
THEOREM RoleNothingLeftRecording == Spec => []NothingLeftRecording
  <1>1. RoleInv => NothingLeftRecording
    BY DEF RoleInv, TypeOK, RecordingInside, NothingLeftRecording
  <1> QED
    BY <1>1, RoleInvariant, PTL

(***************************************************************************)
(* The result of a known page keeps its verdict in every step: only a      *)
(* scenario touches it, and it adds the result of a probe.                 *)
(***************************************************************************)
FirstKept(p) ==
    pages[p].known =>
        /\ pages'[p].known
        /\ pages'[p].measured = pages[p].measured
        /\ pages'[p].error = pages[p].error

LEMMA MenuKeepsFirst ==
  ASSUME RoleInv, VisitMenuPage, NEW q \in Page
  PROVE  FirstKept(q)
  <1> DEFINE p == Head(todo)
  <1>1. p \in Page /\ ~pages[p].known
    <2>1. todo \in Seq(Page) /\ todo # <<>> /\ pc = "menu"
      BY DEF RoleInv, TodoFits, VisitMenuPage
    <2>2. p \in Page /\ p \in Range(todo)
      BY <2>1, HeadAndTail
    <2> QED
      BY <2>1, <2>2 DEF RoleInv, MenuAhead
  <1>2. pages \in [Page -> PageResult]
    BY DEF RoleInv, TypeOK
  <1>3. \/ pages' = pages
        \/ \E r : pages' = [pages EXCEPT ![p] = r]
    BY DEF VisitMenuPage
  <1> QED
    BY <1>1, <1>2, <1>3 DEF FirstKept

LEMMA ScenarioKeepsFirst ==
  ASSUME RoleInv, RunScenario, NEW q \in Page
  PROVE  FirstKept(q)
  <1> DEFINE p == Head(todo)
  <1>1. p \in Page
    BY HeadAndTail DEF RoleInv, TodoFits, RunScenario
  <1>2. pages \in [Page -> PageResult] /\ pages[p] \in PageResult
    BY <1>1 DEF RoleInv, TypeOK
  <1>3. \/ pages' = pages
        \/ ~pages[p].known /\ \E r : pages' = [pages EXCEPT ![p] = r]
        \/ \E r \in {[pages[p] EXCEPT !.probed = TRUE], [pages[p] EXCEPT !.probeError = TRUE]} :
             pages' = [pages EXCEPT ![p] = r]
    BY DEF RunScenario, ScenarioPasses, ScenarioFails, Stored, FirstResult
  <1>4. CASE \E r \in {[pages[p] EXCEPT !.probed = TRUE], [pages[p] EXCEPT !.probeError = TRUE]} :
               pages' = [pages EXCEPT ![p] = r]
    <2>1. PICK r \in {[pages[p] EXCEPT !.probed = TRUE], [pages[p] EXCEPT !.probeError = TRUE]} :
            pages' = [pages EXCEPT ![p] = r]
      BY <1>4
    <2>2. /\ r.known = pages[p].known /\ r.error = pages[p].error
          /\ r.measured = pages[p].measured
      BY <1>2, ProbeValues
    <2>3. pages'[p] = r /\ (q # p => pages'[q] = pages[q])
      BY <1>1, <1>2, <2>1
    <2> QED
      BY <2>2, <2>3 DEF FirstKept
  <1> QED
    BY <1>1, <1>2, <1>3, <1>4 DEF FirstKept

\* No step of evaluate_role replaces the first result of a page.
THEOREM RoleFirstResultStands == Spec => FirstResultStands
  <1>1. RoleInv /\ [Next]_vars =>
          [\A p \in Page : pages[p].known =>
              /\ pages'[p].known
              /\ pages'[p].measured = pages[p].measured
              /\ pages'[p].error = pages[p].error]_vars
    <2> SUFFICES ASSUME RoleInv, Next, NEW q \in Page PROVE FirstKept(q)
      BY DEF FirstKept
    <2>1. \/ VisitMenuPage \/ RunScenario \/ UNCHANGED pages
      BY DEF Next, Step, Login, Discover, MenuDone, ScenariosDone, StartFlow, OpenList, Search,
             FindTarget, NoTarget, Activate, Finally, Recover, Conclude, Escape
    <2>2. CASE UNCHANGED pages
      BY <2>2 DEF FirstKept
    <2> QED
      BY <2>1, <2>2, MenuKeepsFirst, ScenarioKeepsFirst
  <1> QED
    BY <1>1, RoleInvariant, PTL DEF Spec, FirstResultStands
-----------------------------------------------------------------------------
(***************************************************************************)
(* The wait for the content of a page.                                     *)
(***************************************************************************)
ReadRecord == [at : Nat, content : Contents]

VisitTypeOK ==
    /\ visit \in {"goto", "networkidle", "selector", "text", "first", "loop", "pause", "done", "raised"}
    /\ clock \in Nat /\ waitStart \in Nat
    /\ since \in Int /\ shellReady \in Int /\ contentReady \in Int
    /\ reads \in Seq(ReadRecord)

\* The last of the reads, from the i-th on, with usable content found one signature.
StoodSince(i) ==
    /\ Usable(i) /\ reads[i].at = since
    /\ signature = <<Signature(reads[i].content)>>
    /\ \A j \in i .. LastRead : Usable(j) => Same(j, i)

SignatureStands == signature # <<>> => \E i \in 1 .. LastRead : StoodSince(i)

Later(a, b) == IF a > b THEN a ELSE b

\* Where the clock is, counted from the start of the wait.
ClockInTime ==
    /\ visit = "first" => clock - waitStart = shellReady
    /\ visit = "pause" => clock - waitStart <= Timeout + ReadTime
    /\ visit = "loop" => clock - waitStart <= Later(shellReady, Timeout) + ReadTime + Poll

WaitInv == VisitTypeOK /\ SignatureStands /\ ClockInTime /\ WaitIsHonest

-----------------------------------------------------------------------------
LEMMA ReadinessConstants ==
    /\ Timeout \in Nat /\ Settle \in Nat /\ Poll \in Nat /\ ReadTime \in Nat
    /\ Settle # 0 /\ Poll # 0
  BY ReadinessAssumption

LEMMA VisitBegins == VisitInit => WaitInv
  BY DEF VisitInit, WaitInv, VisitTypeOK, SignatureStands, ClockInTime, WaitIsHonest, StableWindow,
         ReturnsInTime, NotSet

\* The waits before the loop, and the pause in it, read nothing.
LEMMA QuietSteps ==
    ASSUME WaitInv, Goto \/ NetworkIdle \/ ReadySelector \/ ReadyText \/ FirstRead \/ Pause
    PROVE  WaitInv'
  <1> USE ReadinessConstants DEF WaitInv, VisitTypeOK, WaitThen, result, Later, ClockInTime
  <1>1. UNCHANGED <<signature, since, reads>> /\ visit' # "done"
    BY DEF Goto, NetworkIdle, ReadySelector, ReadyText, FirstRead, Pause
  <1>2. SignatureStands'
    BY <1>1 DEF SignatureStands, StoodSince, LastRead, Usable, Same
  <1>3. WaitIsHonest'
    BY <1>1 DEF WaitIsHonest, StableWindow, ReturnsInTime
  <1>4. VisitTypeOK' /\ ClockInTime'
    <2>1. CASE Goto
      BY <2>1 DEF Goto
    <2>2. CASE NetworkIdle
      BY <2>2 DEF NetworkIdle
    <2>3. CASE ReadySelector
      BY <2>3 DEF ReadySelector
    <2>4. CASE ReadyText
      BY <2>4 DEF ReadyText
    <2>5. CASE FirstRead
      BY <2>5 DEF FirstRead
    <2>6. CASE Pause
      BY <2>6 DEF Pause
    <2> QED
      BY <2>1, <2>2, <2>3, <2>4, <2>5, <2>6
  <1> QED
    BY <1>2, <1>3, <1>4

LEMMA GiveUpStep == ASSUME WaitInv, GiveUp PROVE WaitInv'
  <1> USE ReadinessConstants DEF WaitInv
  <1>1. /\ visit = "loop" /\ visit' = "done" /\ stable' = FALSE /\ contentReady' = clock - waitStart
        /\ UNCHANGED <<clock, waitStart, signature, since, reads, shellReady>>
    BY DEF GiveUp
  <1>2. VisitTypeOK' /\ ClockInTime'
    BY <1>1 DEF VisitTypeOK, ClockInTime
  <1>3. SignatureStands'
    BY <1>1 DEF SignatureStands, StoodSince, LastRead, Usable, Same
  <1>4. WaitIsHonest'
    BY <1>1 DEF WaitIsHonest, StableWindow, ReturnsInTime, ClockInTime, Later, VisitTypeOK
  <1> QED
    BY <1>2, <1>3, <1>4

LEMMA ReadStep == ASSUME WaitInv, Read PROVE WaitInv'
  <1> USE ReadinessConstants
  <1>1. PICK content \in Contents, t \in 0 .. ReadTime :
         /\ clock' = clock + t
         /\ reads' = Append(reads, [at |-> clock', content |-> content])
         /\ IF Mode(content) = "none"
            THEN UNCHANGED <<signature, since>>
            ELSE /\ since' = SinceAfter(content, clock')
                 /\ signature' = <<Signature(content)>>
         /\ IF Mode(content) # "none" /\ clock' - since' >= Settle
            THEN visit' = "done" /\ stable' = TRUE /\ contentReady' = clock' - waitStart
            ELSE visit' = "pause" /\ UNCHANGED <<stable, contentReady>>
    BY DEF Read
  <1>2. /\ visit = "loop" /\ clock < waitStart + Timeout /\ UNCHANGED <<waitStart, shellReady>>
        /\ VisitTypeOK /\ SignatureStands /\ clock' \in Nat
    BY <1>1 DEF Read, WaitInv, Deadline, VisitTypeOK
  <1>3. PICK last : last = LastRead + 1 /\ last \in Nat /\ last > 0 /\ LastRead \in Nat
    BY <1>2 DEF VisitTypeOK, LastRead
  <1>4. /\ reads' \in Seq(ReadRecord) /\ LastRead' = last
        /\ reads'[last] = [at |-> clock', content |-> content]
        /\ \A i \in 1 .. LastRead : reads'[i] = reads[i] /\ i \in 1 .. last /\ i # last
        /\ \A i \in 1 .. last : i # last => i \in 1 .. LastRead
    BY <1>1, <1>2, <1>3 DEF VisitTypeOK, LastRead, ReadRecord
  <1>5. since' \in Int
    BY <1>1, <1>2 DEF VisitTypeOK, SinceAfter
  <1>6. VisitTypeOK'
    <2>1. contentReady' = contentReady \/ contentReady' = clock' - waitStart
      BY <1>1
    <2>2. contentReady' \in Int
      BY <1>2, <2>1 DEF VisitTypeOK
    <2>3. visit' \in {"done", "pause"}
      BY <1>1
    <2> QED
      BY <1>2, <1>4, <1>5, <2>2, <2>3 DEF VisitTypeOK
  <1>7. Usable(last)' <=> Mode(content) # "none"
    BY <1>4 DEF Usable
  <1>8. \A i \in 1 .. LastRead : (Usable(i)' <=> Usable(i))
    BY <1>4 DEF Usable
  \* A page without usable content leaves everything as it was.
  <1>9. ASSUME Mode(content) = "none", NEW i \in 1 .. LastRead, StoodSince(i) PROVE StoodSince(i)'
    <2>1. UNCHANGED <<signature, since>>
      BY <1>1, <1>9
    <2>2. \A j \in i .. last : Usable(j)' => Same(j, i)'
      <3> SUFFICES ASSUME NEW j \in i .. last, Usable(j)' PROVE Same(j, i)'
        OBVIOUS
      <3>1. j # last
        BY <1>7, <1>9
      <3>2. j \in i .. LastRead /\ j \in 1 .. LastRead
        BY <1>3, <1>9, <3>1
      <3>3. Usable(j) /\ Same(j, i)
        BY <1>8, <1>9, <3>2 DEF StoodSince
      <3> QED
        BY <1>4, <3>2, <3>3 DEF Same
    <2> QED
      BY <1>4, <1>8, <1>9, <2>1, <2>2 DEF StoodSince
  \* The signature that stood still stands, since the same moment.
  <1>10. ASSUME Mode(content) # "none", signature = <<Signature(content)>>,
                NEW i \in 1 .. LastRead, StoodSince(i)
         PROVE  StoodSince(i)'
    <2>1. UNCHANGED <<signature, since>> /\ Signature(reads[i].content) = Signature(content)
      BY <1>1, <1>10 DEF SinceAfter, StoodSince
    <2>2. \A j \in i .. last : Usable(j)' => Same(j, i)'
      <3> SUFFICES ASSUME NEW j \in i .. last, Usable(j)' PROVE Same(j, i)'
        OBVIOUS
      <3>1. CASE j = last
        BY <1>4, <2>1, <3>1 DEF Same
      <3>2. CASE j # last
        <4>1. j \in i .. LastRead /\ j \in 1 .. LastRead
          BY <1>3, <1>10, <3>2
        <4>2. Usable(j) /\ Same(j, i)
          BY <1>8, <1>10, <4>1 DEF StoodSince
        <4> QED
          BY <1>4, <4>1, <4>2 DEF Same
      <3> QED
        BY <3>1, <3>2
    <2> QED
      BY <1>4, <1>8, <1>10, <2>1, <2>2 DEF StoodSince
  \* Another signature stands since it was read.
  <1>11. ASSUME Mode(content) # "none", signature # <<Signature(content)>> PROVE StoodSince(last)'
    <2>1. since' = clock' /\ signature' = <<Signature(content)>>
      BY <1>1, <1>11 DEF SinceAfter
    <2>2. \A j \in last .. last : j = last
      BY <1>3
    <2> QED
      BY <1>4, <1>7, <1>11, <2>1, <2>2 DEF StoodSince, Same
  <1>12. SignatureStands'
    <2>1. CASE Mode(content) = "none"
      BY <1>1, <1>2, <1>4, <1>9, <2>1 DEF SignatureStands
    <2>2. CASE Mode(content) # "none" /\ signature = <<Signature(content)>>
      BY <1>2, <1>4, <1>10, <2>2 DEF SignatureStands
    <2>3. CASE Mode(content) # "none" /\ signature # <<Signature(content)>>
      BY <1>3, <1>4, <1>11, <2>3 DEF SignatureStands
    <2> QED
      BY <2>1, <2>2, <2>3
  <1>13. ClockInTime'
    BY <1>1, <1>2 DEF ClockInTime, VisitTypeOK
  <1>14. StableWindow'
    <2> SUFFICES ASSUME visit' = "done"
                 PROVE  (\E i \in 1 .. LastRead :
                           /\ Usable(i) /\ Usable(LastRead)
                           /\ reads[LastRead].at - reads[i].at >= Settle
                           /\ \A j \in i .. LastRead : Usable(j) => Same(j, LastRead))'
      BY DEF StableWindow
    <2>1. Mode(content) # "none" /\ clock' - since' >= Settle /\ signature' = <<Signature(content)>>
      BY <1>1
    <2>2. PICK i \in 1 .. last : StoodSince(i)'
      BY <1>4, <1>12, <2>1 DEF SignatureStands
    <2>3. reads'[i].at = since' /\ reads'[last].at = clock'
      BY <1>4, <2>2 DEF StoodSince
    <2>4. Signature(reads'[i].content) = Signature(content)
      BY <2>1, <2>2 DEF StoodSince
    <2>5. \A j \in i .. last : Usable(j)' => Same(j, last)'
      BY <1>4, <2>2, <2>4 DEF StoodSince, Same
    <2> QED
      BY <1>4, <1>7, <2>1, <2>2, <2>3, <2>5 DEF StoodSince
  <1>15. ReturnsInTime'
    BY <1>1, <1>2 DEF ReturnsInTime, VisitTypeOK
  <1> QED
    BY <1>6, <1>12, <1>13, <1>14, <1>15 DEF WaitInv, WaitIsHonest

(***************************************************************************)
(* wait_for_dynamic_content, whatever the page shows from read to read: a  *)
(* stable page stood for the settle time, and the wait ends in time.       *)
(***************************************************************************)
THEOREM VisitWaitIsHonest == VisitSpec => []WaitIsHonest
  <1>1. WaitInv /\ [VisitNext]_visitVars => WaitInv'
    <2> SUFFICES ASSUME WaitInv, [VisitNext]_visitVars PROVE WaitInv'
      OBVIOUS
    <2>1. CASE VisitNext
      BY <2>1, QuietSteps, GiveUpStep, ReadStep DEF VisitNext
    <2>2. CASE UNCHANGED visitVars
      BY <2>2
      DEF visitVars, result, WaitInv, VisitTypeOK, SignatureStands, StoodSince, ClockInTime, WaitIsHonest,
          StableWindow, ReturnsInTime, LastRead, Usable, Same, Later
    <2> QED
      BY <2>1, <2>2
  <1>2. WaitInv => WaitIsHonest
    BY DEF WaitInv
  <1> QED
    BY <1>1, <1>2, VisitBegins, PTL DEF VisitSpec

-----------------------------------------------------------------------------
(***************************************************************************)
(* Finitely many places, in order.                                         *)
(***************************************************************************)
Upto(K, i) == {j \in K : j <= i}

LEMMA PlacesCount ==
    ASSUME NEW K, K \subseteq Nat, IsFiniteSet(K)
    PROVE  /\ Cardinality(K) \in Nat
           /\ \A i \in K : Cardinality(Upto(K, i)) \in 1 .. Cardinality(K)
           /\ \A i, j \in K : Cardinality(Upto(K, i)) = Cardinality(Upto(K, j)) => i = j
  <1>1. Cardinality(K) \in Nat
    BY FS_CardinalityType
  <1>2. \A i \in K : IsFiniteSet(Upto(K, i)) /\ Cardinality(Upto(K, i)) \in Nat /\ i \in Upto(K, i)
                   /\ Cardinality(Upto(K, i)) <= Cardinality(K)
    <2> TAKE i \in K
    <2>1. Upto(K, i) \in SUBSET K /\ i \in Upto(K, i)
      BY DEF Upto
    <2> QED
      BY <2>1, FS_Subset, FS_CardinalityType
  <1>3. \A i \in K : Cardinality(Upto(K, i)) # 0
    BY <1>2, FS_EmptySet
  <1>4. ASSUME NEW i \in K, NEW j \in K, i < j PROVE Cardinality(Upto(K, i)) # Cardinality(Upto(K, j))
    <2>1. i \in Nat /\ j \in Nat /\ \A k \in K : k \in Nat
      OBVIOUS
    <2>2. Upto(K, i) \in SUBSET Upto(K, j)
      <3>1. \A k \in Upto(K, i) : k \in Upto(K, j)
        BY <1>4, <2>1 DEF Upto
      <3> QED
        BY <3>1
    <2>3. j \in Upto(K, j) /\ j \notin Upto(K, i)
      BY <1>4, <2>1 DEF Upto
    <2> QED
      BY <1>2, <2>2, <2>3, FS_Subset
  <1>5. \A i, j \in K : Cardinality(Upto(K, i)) = Cardinality(Upto(K, j)) => i = j
    <2> TAKE i, j \in K
    <2>1. i < j \/ j < i \/ i = j
      OBVIOUS
    <2> QED
      BY <1>4, <2>1
  <1> QED
    BY <1>1, <1>2, <1>3, <1>5

LEMMA PlacesExist ==
    ASSUME NEW K, K \subseteq Nat, IsFiniteSet(K), NEW k \in 1 .. Cardinality(K)
    PROVE  \E i \in K : Cardinality(Upto(K, i)) = k
  <1> DEFINE n == Cardinality(K)
             f == [i \in K |-> Cardinality(Upto(K, i))]
  <1>1. f \in [K -> 1 .. n] /\ n \in Nat /\ \A i, j \in K : f[i] = f[j] => i = j
    BY PlacesCount
  <1>2. f \in Injection(K, 1 .. n)
    BY <1>1 DEF Injection, IsInjective
  <1>3. IsFiniteSet(1 .. n) /\ Cardinality(1 .. n) = n
    BY <1>1, FS_Interval
  <1>4. f \in Surjection(K, 1 .. n)
    BY <1>2, <1>3, FS_Injection
  <1> QED
    BY <1>4 DEF Surjection

-----------------------------------------------------------------------------
(***************************************************************************)
(* The requests of a page and those of a step.                             *)
(***************************************************************************)
StepSummary == [from : Nat, to : Nat, counted : Seq(Request)]

TrackerTypeOK ==
    /\ now \in Nat
    /\ live \in [Id -> Int] /\ active \in [Id -> Int]
    /\ ended \in Seq(Request)
    /\ snap \in [index : Nat, baseline : Int]
    /\ steps \in Seq(StepSummary)

\* What is on its way started before now, and the tracker knows when.
KnownAlive == \A id \in Id : live[id] # None => live[id] \in Nat /\ live[id] < now /\ active[id] = live[id]

EndedInTime == \A i \in 1 .. Len(ended) : ended[i].start < ended[i].end /\ ended[i].end < now

\* What had ended at the snapshot ended before it.
SnapshotSplits ==
    snap # NoSnapshot =>
        /\ snap.baseline \in Nat /\ snap.baseline < now /\ snap.index <= Len(ended)
        /\ \A i \in 1 .. snap.index : ended[i].end < snap.baseline

Own(from, to) == {r \in Range(ended) : from <= r.start /\ r.end <= to}

StepsSplit ==
    \A i \in 1 .. Len(steps) :
        steps[i].to < now /\ Range(steps[i].counted) = Own(steps[i].from, steps[i].to)

TrackerInv ==
    /\ TrackerTypeOK /\ records = ended
    /\ KnownAlive /\ EndedInTime /\ SnapshotSplits /\ StepsSplit

LEMMA TrackerBegins == TrackerInit => TrackerInv
  BY DEF TrackerInit, TrackerInv, TrackerTypeOK, KnownAlive, EndedInTime, SnapshotSplits, StepsSplit,
         NoSnapshot, None

\* The members of the two sequences.
LEMMA TrackerMembers ==
    ASSUME TrackerTypeOK
    PROVE  /\ Len(ended) \in Nat /\ DOMAIN ended = 1 .. Len(ended)
           /\ \A i \in 1 .. Len(ended) :
                 ended[i] \in Request /\ ended[i].start \in Nat /\ ended[i].end \in Nat
           /\ Len(steps) \in Nat /\ DOMAIN steps = 1 .. Len(steps)
           /\ \A i \in 1 .. Len(steps) :
                 steps[i] \in StepSummary /\ steps[i].from \in Nat /\ steps[i].to \in Nat
  <1>1. \A r \in Request : r.start \in Nat /\ r.end \in Nat
    BY DEF Request
  <1>2. \A step \in StepSummary : step.from \in Nat /\ step.to \in Nat
    BY DEF StepSummary
  <1>3. /\ Len(ended) \in Nat /\ DOMAIN ended = 1 .. Len(ended)
        /\ \A i \in 1 .. Len(ended) : ended[i] \in Request
    BY DEF TrackerTypeOK
  <1>4. /\ Len(steps) \in Nat /\ DOMAIN steps = 1 .. Len(steps)
        /\ \A i \in 1 .. Len(steps) : steps[i] \in StepSummary
    BY DEF TrackerTypeOK
  <1> QED
    BY <1>1, <1>2, <1>3, <1>4

\* The comprehension of summary_since finds the records it asks for.
LEMMA WindowFinds ==
    ASSUME TrackerTypeOK, records = ended, NEW s \in [index : Nat, baseline : Int]
    PROVE  /\ Window(s) \in Seq(Request)
           /\ Range(Window(s)) = {records[i] : i \in Kept(s)}
  <1>1. PICK K : K = Kept(s)
    OBVIOUS
  <1>2. Len(records) \in Nat /\ \A i \in 1 .. Len(records) : records[i] \in Request
    BY DEF TrackerTypeOK
  <1>3. K \in SUBSET (1 .. Len(records))
    BY <1>1, <1>2 DEF Kept
  <1>4. K \subseteq Nat /\ IsFiniteSet(K)
    <2>1. IsFiniteSet(1 .. Len(records))
      BY <1>2, FS_Interval
    <2>2. IsFiniteSet(K)
      BY <1>3, <2>1, FS_Subset
    <2>3. K \subseteq Nat
      BY <1>2, <1>3
    <2> QED
      BY <2>2, <2>3
  <1>5. PICK n : n = Cardinality(K) /\ n \in Nat
    BY <1>4, FS_CardinalityType
  <1> DEFINE Place(k) == CHOOSE i \in K : Cardinality(Upto(K, i)) = k
  <1>6. \A k \in 1 .. n : Place(k) \in K /\ Cardinality(Upto(K, Place(k))) = k
    BY <1>4, <1>5, PlacesExist
  <1>7. \A i \in K : Cardinality(Upto(K, i)) \in 1 .. n /\ Place(Cardinality(Upto(K, i))) = i
    BY <1>4, <1>5, <1>6, PlacesCount
  <1>8. Window(s) = [k \in 1 .. n |-> records[Place(k)]]
    BY <1>1, <1>5 DEF Window, Upto
  <1> HIDE DEF Place
  <1>9. \A k \in 1 .. n : records[Place(k)] \in Request
    BY <1>2, <1>3, <1>6
  <1>10. Window(s) \in Seq(Request) /\ DOMAIN Window(s) = 1 .. n
    BY <1>5, <1>8, <1>9
  <1>11. Range(Window(s)) = {records[Place(k)] : k \in 1 .. n}
    BY <1>8 DEF Range
  <1> QED
    BY <1>1, <1>6, <1>7, <1>10, <1>11

\* Where a request ends now, the steps summed up before keep theirs.
LEMMA LateRequest ==
    ASSUME TrackerInv, NEW r \in Request, r.end = now, ended' = Append(ended, r), UNCHANGED steps,
           now' = now + 1
    PROVE  StepsSplit'
  <1>1. now \in Nat /\ \A i \in 1 .. Len(steps) : steps[i].to \in Nat /\ steps[i].to < now
    BY TrackerMembers DEF TrackerInv, TrackerTypeOK, StepsSplit
  <1>2. Range(ended') = Range(ended) \cup {r}
    <2>1. Len(ended) \in Nat /\ DOMAIN ended = 1 .. Len(ended) /\ ended \in Seq(Request)
      BY TrackerMembers DEF TrackerInv, TrackerTypeOK
    <2>2. /\ DOMAIN ended' = 1 .. Len(ended) + 1
          /\ \A i \in 1 .. Len(ended) : ended'[i] = ended[i]
          /\ ended'[Len(ended) + 1] = r
      BY <2>1
    <2> QED
      BY <2>1, <2>2 DEF Range
  <1>3. \A i \in 1 .. Len(steps) : Own(steps[i].from, steps[i].to)' = Own(steps[i].from, steps[i].to)
    BY <1>1, <1>2 DEF Own
  <1> QED
    BY <1>1, <1>3 DEF TrackerInv, StepsSplit

LEMMA TrackerStays == TrackerInv /\ [TrackerNext]_trackerVars => TrackerInv'
  <1> SUFFICES ASSUME TrackerInv, [TrackerNext]_trackerVars PROVE TrackerInv'
    OBVIOUS
  <1>1. TrackerTypeOK /\ records = ended /\ KnownAlive /\ EndedInTime /\ SnapshotSplits /\ StepsSplit
    BY DEF TrackerInv
  <1> DEFINE Members == /\ Len(ended) \in Nat
                        /\ \A i \in 1 .. Len(ended) :
                              ended[i] \in Request /\ ended[i].start \in Nat /\ ended[i].end \in Nat
                        /\ Len(steps) \in Nat
                        /\ \A i \in 1 .. Len(steps) : steps[i].from \in Nat /\ steps[i].to \in Nat
  <1>m. Members
    BY <1>1, TrackerMembers
  \* Where only the clock and what is on its way change.
  <1>2. ASSUME UNCHANGED <<ended, records, snap, steps>>, now' = now + 1 \/ now' = now,
               live' \in [Id -> Int], active' \in [Id -> Int], KnownAlive'
        PROVE  TrackerInv'
    <2>1. TrackerTypeOK' /\ EndedInTime' /\ SnapshotSplits' /\ records' = ended'
      BY <1>1, <1>2, <1>m DEF TrackerTypeOK, EndedInTime, SnapshotSplits
    <2>2. StepsSplit'
      BY <1>1, <1>2, <1>m DEF TrackerTypeOK, StepsSplit, Own
    <2> QED
      BY <1>2, <2>1, <2>2 DEF TrackerInv
  <1>3. ASSUME NEW id \in Id, OnRequest(id) PROVE TrackerInv'
    BY <1>1, <1>2, <1>3 DEF OnRequest, Tick, Registered, TrackerTypeOK, KnownAlive
  <1>4. ASSUME NEW id \in Id, Abandon(id) PROVE TrackerInv'
    BY <1>1, <1>2, <1>4 DEF Abandon, Tick, TrackerTypeOK, KnownAlive, None
  <1>5. ASSUME NEW id \in Id, NEW outcome \in {"finished", "failed"}, Finalize(id, outcome) PROVE TrackerInv'
    <2>1. PICK r : r = [start |-> live[id], end |-> now, outcome |-> outcome]
      OBVIOUS
    <2>2. /\ now \in Nat /\ now' = now + 1 /\ live[id] # None /\ live' = [live EXCEPT ![id] = None]
          /\ active' = [active EXCEPT ![id] = None] /\ UNCHANGED <<snap, steps>>
          /\ ended' = Append(ended, r)
          /\ live[id] \in Nat /\ live[id] < now /\ active[id] = live[id]
      BY <1>1, <1>5, <2>1 DEF Finalize, Tick, KnownAlive, TrackerTypeOK
    <2>3. records' = ended'
      BY <1>1, <1>5, <2>1, <2>2 DEF Finalize
    <2>4. r \in Request /\ r.end = now /\ r.start = live[id]
      BY <2>1, <2>2 DEF Request
    <2>5. /\ Len(ended) \in Nat /\ Len(ended') = Len(ended) + 1 /\ ended' \in Seq(Request)
          /\ \A i \in 1 .. Len(ended) : ended'[i] = ended[i] /\ ended[i] \in Request
          /\ ended'[Len(ended) + 1] = r
      BY <1>1, <2>2, <2>4 DEF TrackerTypeOK
    <2>6. TrackerTypeOK' /\ KnownAlive'
      BY <1>1, <2>2, <2>5 DEF TrackerTypeOK, KnownAlive, None
    <2>7. EndedInTime'
      BY <1>1, <2>2, <2>4, <2>5 DEF EndedInTime, Request
    <2>8. SnapshotSplits'
      BY <1>1, <2>2, <2>5 DEF SnapshotSplits, TrackerTypeOK
    <2>9. StepsSplit'
      BY <2>2, <2>4, LateRequest
    <2> QED
      BY <2>3, <2>6, <2>7, <2>8, <2>9 DEF TrackerInv
  <1>6. CASE TakeSnapshot
    <2>1. /\ now' = now + 1 /\ snap' = [index |-> Len(ended), baseline |-> now]
          /\ UNCHANGED <<live, ended, active, records, steps>>
      BY <1>1, <1>6 DEF TakeSnapshot, Tick
    <2>2. TrackerTypeOK' /\ KnownAlive' /\ EndedInTime'
      BY <1>1, <1>m, <2>1 DEF TrackerTypeOK, KnownAlive, EndedInTime
    <2>3. SnapshotSplits'
      BY <1>1, <2>1 DEF SnapshotSplits, TrackerTypeOK, EndedInTime
    <2>4. StepsSplit'
      BY <1>1, <1>m, <2>1 DEF TrackerTypeOK, StepsSplit, Own
    <2> QED
      BY <1>1, <2>1, <2>2, <2>3, <2>4 DEF TrackerInv
  <1>7. CASE Summarize
    <2>1. PICK step : step = [from |-> snap.baseline, to |-> now, counted |-> Window(snap)]
      OBVIOUS
    <2>2. /\ now' = now + 1 /\ snap # NoSnapshot /\ snap' = NoSnapshot /\ steps' = Append(steps, step)
          /\ UNCHANGED <<live, ended, active, records>>
      BY <1>7, <2>1 DEF Summarize, Tick
    <2>3. /\ snap.baseline \in Nat /\ snap.baseline < now /\ snap.index \in Nat /\ snap.index <= Len(ended)
          /\ \A i \in 1 .. snap.index : ended[i].end < snap.baseline
          /\ now \in Nat /\ Len(ended) \in Nat
      BY <1>1, <2>2 DEF SnapshotSplits, TrackerTypeOK
    <2>4. /\ Window(snap) \in Seq(Request)
          /\ Range(Window(snap)) = {ended[i] : i \in Kept(snap)}
      BY <1>1, WindowFinds DEF TrackerTypeOK
    <2>5. \A i \in 1 .. Len(ended) : /\ ended[i].start \in Nat /\ ended[i].end \in Nat
                                      /\ ended[i].start < ended[i].end /\ ended[i].end < now
      BY <1>1, <1>m DEF TrackerTypeOK, EndedInTime
    <2>6. Kept(snap) = {i \in 1 .. Len(ended) : ended[i].start >= snap.baseline}
      <3>1. \A i \in 1 .. Len(ended) : ended[i].start >= snap.baseline => i > snap.index
        BY <2>3, <2>5
      <3> QED
        BY <1>1, <2>3, <3>1 DEF Kept
    <2>7. Range(ended) = {ended[i] : i \in 1 .. Len(ended)}
      BY <1>1 DEF Range, TrackerTypeOK
    <2>8. Range(Window(snap)) = Own(snap.baseline, now)
      BY <2>3, <2>4, <2>5, <2>6, <2>7 DEF Own
    <2>9. step \in StepSummary /\ step.to = now /\ Range(step.counted) = Own(step.from, step.to)
      BY <2>1, <2>3, <2>4, <2>8 DEF StepSummary
    <2>10. /\ Len(steps) \in Nat /\ Len(steps') = Len(steps) + 1 /\ steps' \in Seq(StepSummary)
           /\ \A i \in 1 .. Len(steps) : steps'[i] = steps[i] /\ steps[i].to \in Nat
           /\ steps'[Len(steps) + 1] = step
      BY <1>1, <1>m, <2>2, <2>9 DEF TrackerTypeOK
    <2>11. TrackerTypeOK' /\ KnownAlive' /\ EndedInTime' /\ SnapshotSplits'
      BY <1>1, <2>2, <2>3, <2>5, <2>10
      DEF TrackerTypeOK, KnownAlive, EndedInTime, SnapshotSplits, NoSnapshot, None
    <2>12. StepsSplit'
      BY <1>1, <2>2, <2>3, <2>9, <2>10 DEF StepsSplit, Own
    <2> QED
      BY <1>1, <2>2, <2>11, <2>12 DEF TrackerInv
  <1>8. CASE UNCHANGED trackerVars
    BY <1>1, <1>2, <1>8 DEF trackerVars, TrackerTypeOK, KnownAlive
  <1> QED
    BY <1>3, <1>4, <1>5, <1>6, <1>7, <1>8 DEF TrackerNext

(***************************************************************************)
(* However requests are dropped and their ids come back: the records are   *)
(* the requests that ended, and each step counts its own.                  *)
(***************************************************************************)
THEOREM TrackerStepsAreRequests == TrackerSpec => []StepsAreRequests
  <1>1. TrackerInv => StepsAreRequests
    <2>1. TrackerInv => \A i \in DOMAIN steps : i \in 1 .. Len(steps)
      BY DEF TrackerInv, TrackerTypeOK
    <2> QED
      BY <2>1 DEF TrackerInv, StepsSplit, Own, StepsAreRequests, RecordsAreRequests, StepsCountTheirOwn
  <1> QED
    BY <1>1, TrackerBegins, TrackerStays, PTL DEF TrackerSpec

-----------------------------------------------------------------------------
(***************************************************************************)
(* The sweep over the starts and ends of any intervals.                    *)
(***************************************************************************)
Interval == [start : Nat, end : Nat]
StartOf(ivs, i) == [at |-> ivs[i].start, delta |-> 1, of |-> i]
EndOf(ivs, i) == [at |-> ivs[i].end, delta |-> -1, of |-> i]
InTime(ivs) == \A i \in DOMAIN ivs : ivs[i].start <= ivs[i].end

\* The sorted events, and the intervals that have begun or ended with the
\* first k of them.
EventsOf(ivs) == Sorted(SweepEvents(ivs), EventOrder(ivs))
Opened(ivs, k) == {i \in DOMAIN ivs : \E j \in 1 .. k : EventsOf(ivs)[j] = StartOf(ivs, i)}
Closed(ivs, k) == {i \in DOMAIN ivs : \E j \in 1 .. k : EventsOf(ivs)[j] = EndOf(ivs, i)}
OpenAfter(ivs, k) == Cardinality(Opened(ivs, k)) - Cardinality(Closed(ivs, k))

LEMMA EventFacts ==
    ASSUME NEW m \in Nat, NEW ivs \in [1 .. m -> Interval]
    PROVE  /\ \A e \in SweepEvents(ivs) : /\ e.at \in Nat /\ e.delta \in {1, -1} /\ e.of \in 1 .. m
                                          /\ e \in {StartOf(ivs, e.of), EndOf(ivs, e.of)}
                                          /\ e.delta = 1 <=> e = StartOf(ivs, e.of)
                                          /\ e.delta = -1 <=> e = EndOf(ivs, e.of)
           /\ \A i \in 1 .. m : StartOf(ivs, i) \in SweepEvents(ivs) /\ EndOf(ivs, i) \in SweepEvents(ivs)
           /\ \A i \in 1 .. m : /\ StartOf(ivs, i).of = i /\ EndOf(ivs, i).of = i
                                /\ StartOf(ivs, i).delta = 1 /\ EndOf(ivs, i).delta = -1
                                /\ StartOf(ivs, i).at = ivs[i].start /\ EndOf(ivs, i).at = ivs[i].end
                                /\ ivs[i].start \in Nat /\ ivs[i].end \in Nat
  <1>1. \A i \in 1 .. m : ivs[i] \in Interval
    OBVIOUS
  <1>2. \A i \in 1 .. m : ivs[i].start \in Nat /\ ivs[i].end \in Nat
    BY <1>1 DEF Interval
  <1>3. \A i \in 1 .. m : /\ StartOf(ivs, i).of = i /\ EndOf(ivs, i).of = i
                          /\ StartOf(ivs, i).delta = 1 /\ EndOf(ivs, i).delta = -1
                          /\ StartOf(ivs, i).at = ivs[i].start /\ EndOf(ivs, i).at = ivs[i].end
    BY DEF StartOf, EndOf
  <1>4. SweepEvents(ivs) = {StartOf(ivs, i) : i \in 1 .. m} \cup {EndOf(ivs, i) : i \in 1 .. m}
    BY DEF SweepEvents, Starts, Ends, StartOf, EndOf
  <1>5. \A e \in SweepEvents(ivs) : \E i \in 1 .. m : e = StartOf(ivs, i) \/ e = EndOf(ivs, i)
    BY <1>4
  <1>6. \A i \in 1 .. m : StartOf(ivs, i) \in SweepEvents(ivs) /\ EndOf(ivs, i) \in SweepEvents(ivs)
    BY <1>4
  <1>7. ASSUME NEW e \in SweepEvents(ivs)
        PROVE  /\ e.at \in Nat /\ e.delta \in {1, -1} /\ e.of \in 1 .. m
               /\ e \in {StartOf(ivs, e.of), EndOf(ivs, e.of)}
               /\ e.delta = 1 <=> e = StartOf(ivs, e.of)
               /\ e.delta = -1 <=> e = EndOf(ivs, e.of)
    <2>1. PICK i \in 1 .. m : e = StartOf(ivs, i) \/ e = EndOf(ivs, i)
      BY <1>5
    <2>2. 1 # -1
      OBVIOUS
    <2>3. CASE e = StartOf(ivs, i)
      BY <1>2, <1>3, <2>2, <2>3
    <2>4. CASE e = EndOf(ivs, i)
      BY <1>2, <1>3, <2>2, <2>4
    <2> QED
      BY <2>1, <2>3, <2>4
  <1> QED
    BY <1>2, <1>3, <1>6, <1>7

\* The order of the sweep is one, and sorting finds it.
LEMMA EventsSorted ==
    ASSUME NEW m \in Nat, NEW ivs \in [1 .. m -> Interval]
    PROVE  LET n == Cardinality(SweepEvents(ivs))
               ev == EventsOf(ivs)
           IN /\ n \in Nat
              /\ \A k \in 1 .. n : ev[k] \in SweepEvents(ivs)
              /\ \A e \in SweepEvents(ivs) : \E k \in 1 .. n : ev[k] = e
              /\ \A j, k \in 1 .. n : j < k <=> EventBefore(ev[j], ev[k])
              /\ \A j, k \in 1 .. n : ev[j] = ev[k] => j = k
  <1> DEFINE S == SweepEvents(ivs)
  <1>1. \A e \in S : e.at \in Nat /\ e.delta \in {1, -1} /\ e.of \in 1 .. m
                     /\ e \in {StartOf(ivs, e.of), EndOf(ivs, e.of)}
                     /\ (e.delta = 1 <=> e = StartOf(ivs, e.of))
                     /\ (e.delta = -1 <=> e = EndOf(ivs, e.of))
    BY EventFacts
  <1>2. IsFiniteSet(S)
    <2>1. IsFiniteSet(1 .. m)
      BY FS_Interval
    <2> DEFINE Places == 1 .. m
               up == [i \in Places |-> StartOf(ivs, i)]
               down == [i \in Places |-> EndOf(ivs, i)]
    <2>2. Starts(ivs) = {up[i] : i \in Places} /\ Ends(ivs) = {down[i] : i \in Places}
      BY DEF Starts, Ends, StartOf, EndOf
    <2>3. up \in Surjection(Places, Starts(ivs)) /\ down \in Surjection(Places, Ends(ivs))
      BY <2>2 DEF Surjection
    <2>4. IsFiniteSet(Starts(ivs)) /\ IsFiniteSet(Ends(ivs))
      BY <2>1, <2>3, FS_Surjection
    <2> QED
      BY <2>4, FS_Union DEF SweepEvents
  <1>3. \A x, y \in S : <<x, y>> \in EventOrder(ivs) <=> EventBefore(x, y)
    BY DEF EventOrder
  <1>4. \A x \in S : ~ EventBefore(x, x)
    BY <1>1 DEF EventBefore
  <1>5. \A x, y, z \in S : EventBefore(x, y) /\ EventBefore(y, z) => EventBefore(x, z)
    <2> TAKE x, y, z \in S
    <2>1. /\ x.at \in Nat /\ y.at \in Nat /\ z.at \in Nat
          /\ x.delta \in {1, -1} /\ y.delta \in {1, -1} /\ z.delta \in {1, -1}
          /\ x.of \in Nat /\ y.of \in Nat /\ z.of \in Nat
      BY <1>1
    <2> QED
      BY <2>1 DEF EventBefore
  <1>6. \A x, y \in S : x = y \/ EventBefore(x, y) \/ EventBefore(y, x)
    <2> TAKE x, y \in S
    <2>1. /\ x.at \in Nat /\ y.at \in Nat
          /\ x.delta \in {1, -1} /\ y.delta \in {1, -1}
          /\ x.of \in Nat /\ y.of \in Nat
      BY <1>1
    <2>2. CASE x.delta = y.delta /\ x.of = y.of
      BY <1>1, <2>1, <2>2
    <2>3. CASE ~ (x.delta = y.delta /\ x.of = y.of)
      BY <2>1, <2>3 DEF EventBefore
    <2> QED
      BY <2>2, <2>3
  <1>7. IsOrder(S, EventOrder(ivs))
    BY <1>3, <1>4, <1>5, <1>6, Zenon DEF IsOrder
  <1> DEFINE n == Cardinality(S)
             ev == EventsOf(ivs)
  <1>8. /\ n \in Nat
        /\ ev \in [1 .. n -> S]
        /\ \A x \in S : \E k \in 1 .. n : ev[k] = x
        /\ \A j, k \in 1 .. n : j < k <=> <<ev[j], ev[k]>> \in EventOrder(ivs)
    BY <1>2, <1>7, SortedFacts DEF EventsOf
  <1> HIDE DEF S, n, ev
  <1>9. \A k \in 1 .. n : ev[k] \in S
    BY <1>8
  <1>10. \A j, k \in 1 .. n : j < k <=> EventBefore(ev[j], ev[k])
    BY <1>3, <1>8, <1>9, Zenon
  <1>11. \A j, k \in 1 .. n : ev[j] = ev[k] => j = k
    <2> TAKE j, k \in 1 .. n
    <2>1. ~ EventBefore(ev[j], ev[j]) /\ ~ EventBefore(ev[k], ev[k])
      BY <1>4, <1>9
    <2>2. ev[j] = ev[k] => ~ (j < k) /\ ~ (k < j)
      BY <1>10, <2>1, Zenon
    <2>3. j < k \/ k < j \/ j = k
      BY <1>8
    <2> QED
      BY <2>2, <2>3
  <1> QED
    BY <1>8, <1>9, <1>10, <1>11 DEF S, n, ev

\* The loop goes over the events one by one.
LEMMA SweepUnfolds ==
    ASSUME NEW ivs, Cardinality(SweepEvents(ivs)) \in Nat
    PROVE  \E after :
             /\ Sweep(ivs) = after[Cardinality(SweepEvents(ivs))]
             /\ after[0] = [current |-> 0, max |-> 0, peak |-> None]
             /\ \A k \in 1 .. Cardinality(SweepEvents(ivs)) :
                  after[k] = Visit(after[k - 1], EventsOf(ivs)[k])
  <1> DEFINE n == Cardinality(SweepEvents(ivs))
             ev == EventsOf(ivs)
             First == [current |-> 0, max |-> 0, peak |-> None]
             Rec(f, m) == f = [k \in 0 .. m |-> IF k = 0 THEN First ELSE Visit(f[k - 1], ev[k])]
             Can == {m \in Nat : \E f : Rec(f, m)}
  <1>1. 0 \in Can
    <2> DEFINE f == [k \in 0 .. 0 |-> First]
    <2>1. Rec(f, 0)
      OBVIOUS
    <2> QED
      BY <2>1
  <1>2. ASSUME NEW m \in Nat, m \in Can PROVE m + 1 \in Can
    <2>1. PICK f : Rec(f, m)
      BY <1>2
    <2> DEFINE g == [k \in 0 .. m + 1 |-> IF k = m + 1 THEN Visit(f[m], ev[m + 1]) ELSE f[k]]
    <2> HIDE DEF ev, First
    <2>2. \A k \in 0 .. m : f[k] = (IF k = 0 THEN First ELSE Visit(f[k - 1], ev[k]))
      BY <2>1
    <2>3. \A k \in 0 .. m + 1 : g[k] = IF k = 0 THEN First ELSE Visit(g[k - 1], ev[k])
      <3> TAKE k \in 0 .. m + 1
      <3>1. CASE k = m + 1
        <4>1. k # 0 /\ k - 1 = m /\ m \in 0 .. m + 1 /\ m # m + 1
          BY <3>1
        <4>2. g[m] = f[m] /\ g[k] = Visit(f[m], ev[m + 1])
          BY <3>1, <4>1
        <4> QED
          BY <3>1, <4>1, <4>2
      <3>2. CASE k # m + 1 /\ k # 0
        <4>1. k \in 0 .. m /\ k - 1 \in 0 .. m + 1 /\ k - 1 # m + 1
          BY <3>2
        <4>2. g[k] = f[k] /\ g[k - 1] = f[k - 1]
          BY <3>2, <4>1
        <4> QED
          BY <2>2, <3>2, <4>1, <4>2
      <3>3. CASE k = 0
        <4>1. 0 \in 0 .. m /\ 0 # m + 1
          OBVIOUS
        <4>2. g[0] = f[0]
          BY <4>1
        <4> QED
          BY <2>2, <3>3, <4>1, <4>2
      <3> QED
        BY <3>1, <3>2, <3>3
    <2>4. g = [k \in 0 .. m + 1 |-> g[k]]
      OBVIOUS
    <2> HIDE DEF g
    <2>5. Rec(g, m + 1)
      BY <2>3, <2>4
    <2> QED
      BY <2>5
  <1>3. \E f : Rec(f, n)
    <2> HIDE DEF Can
    <2>1. n \in Can
      BY <1>1, <1>2, CountsUp
    <2> QED
      BY <2>1 DEF Can
  <1> DEFINE after == CHOOSE f : Rec(f, n)
  <1>4. Rec(after, n)
    BY <1>3, Zenon
  <1>5. Sweep(ivs) = after[n]
    BY Zenon DEF Sweep, EventsOf
  <1> HIDE DEF after, n, ev
  <1>6. n \in Nat
    BY DEF n
  <1>7. \A k \in 0 .. n : after[k] = IF k = 0 THEN First ELSE Visit(after[k - 1], ev[k])
    BY <1>4
  <1>8. after[0] = First /\ \A k \in 1 .. n : after[k] = Visit(after[k - 1], ev[k])
    BY <1>6, <1>7
  <1> QED
    BY <1>5, <1>8 DEF n, ev

LEMMA OpenedFacts ==
    ASSUME NEW m \in Nat, NEW ivs \in [1 .. m -> Interval], NEW k \in Nat
    PROVE  /\ Opened(ivs, k) \in SUBSET (1 .. m) /\ Closed(ivs, k) \in SUBSET (1 .. m)
           /\ IsFiniteSet(Opened(ivs, k)) /\ IsFiniteSet(Closed(ivs, k))
           /\ Cardinality(Opened(ivs, k)) \in Nat /\ Cardinality(Closed(ivs, k)) \in Nat
  <1>1. Opened(ivs, k) \in SUBSET (1 .. m) /\ Closed(ivs, k) \in SUBSET (1 .. m)
    BY DEF Opened, Closed
  <1>2. IsFiniteSet(1 .. m)
    BY FS_Interval
  <1>3. IsFiniteSet(Opened(ivs, k)) /\ IsFiniteSet(Closed(ivs, k))
    BY <1>1, <1>2, FS_Subset
  <1> QED
    BY <1>1, <1>3, FS_CardinalityType

\* An event opens its interval or closes it.
LEMMA OneEvent ==
    ASSUME NEW m \in Nat, NEW ivs \in [1 .. m -> Interval],
           NEW k \in 1 .. Cardinality(SweepEvents(ivs))
    PROVE  OpenAfter(ivs, k) = OpenAfter(ivs, k - 1) + EventsOf(ivs)[k].delta
  <1> DEFINE n == Cardinality(SweepEvents(ivs))
             ev == EventsOf(ivs)
             e == ev[k]
  <1>1. /\ n \in Nat /\ \A j \in 1 .. n : ev[j] \in SweepEvents(ivs)
        /\ \A j, l \in 1 .. n : ev[j] = ev[l] => j = l
    BY EventsSorted
  <1>2. k \in 1 .. n /\ k - 1 \in Nat /\ k \in Nat
    BY <1>1
  <1>3. /\ e.delta \in {1, -1} /\ e.of \in 1 .. m
        /\ (e.delta = 1 <=> e = StartOf(ivs, e.of))
        /\ (e.delta = -1 <=> e = EndOf(ivs, e.of))
    BY <1>1, <1>2, EventFacts
  <1>31. \A i \in 1 .. m : /\ StartOf(ivs, i).of = i /\ EndOf(ivs, i).of = i
                           /\ StartOf(ivs, i).delta = 1 /\ EndOf(ivs, i).delta = -1
    BY EventFacts
  <1> HIDE DEF e, ev, n
  <1>4. \A j \in 1 .. k : j \in 1 .. n /\ (j \in 1 .. k - 1 \/ j = k)
    BY <1>1, <1>2
  <1>5. \A j \in 1 .. k - 1 : j \in 1 .. k /\ j \in 1 .. n /\ j # k
    BY <1>1, <1>2
  <1>6. /\ IsFiniteSet(Opened(ivs, k - 1)) /\ IsFiniteSet(Closed(ivs, k - 1))
        /\ Cardinality(Opened(ivs, k - 1)) \in Nat /\ Cardinality(Closed(ivs, k - 1)) \in Nat
    BY <1>2, OpenedFacts
  <1>7. DOMAIN ivs = 1 .. m
    OBVIOUS
  <1>8. CASE e.delta = 1
    <2>1. e = StartOf(ivs, e.of) /\ e.delta # -1
      BY <1>3, <1>8
    <2>2. e.of \notin Opened(ivs, k - 1)
      BY <1>1, <1>2, <1>5, <2>1 DEF Opened, ev, e
    <2>3. Opened(ivs, k) = Opened(ivs, k - 1) \cup {e.of}
      <3>1. ASSUME NEW i \in Opened(ivs, k) PROVE i \in Opened(ivs, k - 1) \cup {e.of}
        <4>1. PICK j \in 1 .. k : ev[j] = StartOf(ivs, i)
          BY <3>1 DEF Opened, ev
        <4>2. i \in 1 .. m
          BY <1>7, <3>1 DEF Opened
        <4>3. CASE j = k
          BY <1>31, <4>1, <4>2, <4>3 DEF e
        <4>4. CASE j \in 1 .. k - 1
          BY <1>7, <4>1, <4>2, <4>4 DEF Opened, ev
        <4> QED
          BY <1>4, <4>3, <4>4
      <3>2. ASSUME NEW i \in Opened(ivs, k - 1) PROVE i \in Opened(ivs, k)
        BY <1>5, <3>2 DEF Opened
      <3>3. e.of \in Opened(ivs, k)
        <4>1. k \in 1 .. k
          BY <1>2
        <4> QED
          BY <1>3, <1>7, <2>1, <4>1 DEF Opened, e, ev
      <3> QED
        BY <3>1, <3>2, <3>3
    <2>4. Closed(ivs, k) = Closed(ivs, k - 1)
      <3>1. ASSUME NEW i \in Closed(ivs, k) PROVE i \in Closed(ivs, k - 1)
        <4>1. PICK j \in 1 .. k : ev[j] = EndOf(ivs, i)
          BY <3>1 DEF Closed, ev
        <4>2. i \in 1 .. m
          BY <1>7, <3>1 DEF Closed
        <4>3. j # k
          BY <1>31, <2>1, <4>1, <4>2 DEF e
        <4> QED
          BY <1>4, <1>7, <4>1, <4>2, <4>3 DEF Closed, ev
      <3>2. ASSUME NEW i \in Closed(ivs, k - 1) PROVE i \in Closed(ivs, k)
        BY <1>5, <3>2 DEF Closed
      <3> QED
        BY <3>1, <3>2
    <2>5. Cardinality(Opened(ivs, k)) = Cardinality(Opened(ivs, k - 1)) + 1
      BY <1>6, <2>2, <2>3, FS_AddElement
    <2> QED
      BY <1>6, <1>8, <2>4, <2>5 DEF OpenAfter, e, ev
  <1>9. CASE e.delta = -1
    <2>1. e = EndOf(ivs, e.of) /\ e.delta # 1
      BY <1>3, <1>9
    <2>2. e.of \notin Closed(ivs, k - 1)
      BY <1>1, <1>2, <1>5, <2>1 DEF Closed, ev, e
    <2>3. Closed(ivs, k) = Closed(ivs, k - 1) \cup {e.of}
      <3>1. ASSUME NEW i \in Closed(ivs, k) PROVE i \in Closed(ivs, k - 1) \cup {e.of}
        <4>1. PICK j \in 1 .. k : ev[j] = EndOf(ivs, i)
          BY <3>1 DEF Closed, ev
        <4>2. i \in 1 .. m
          BY <1>7, <3>1 DEF Closed
        <4>3. CASE j = k
          BY <1>31, <4>1, <4>2, <4>3 DEF e
        <4>4. CASE j \in 1 .. k - 1
          BY <1>7, <4>1, <4>2, <4>4 DEF Closed, ev
        <4> QED
          BY <1>4, <4>3, <4>4
      <3>2. ASSUME NEW i \in Closed(ivs, k - 1) PROVE i \in Closed(ivs, k)
        BY <1>5, <3>2 DEF Closed
      <3>3. e.of \in Closed(ivs, k)
        <4>1. k \in 1 .. k
          BY <1>2
        <4> QED
          BY <1>3, <1>7, <2>1, <4>1 DEF Closed, e, ev
      <3> QED
        BY <3>1, <3>2, <3>3
    <2>4. Opened(ivs, k) = Opened(ivs, k - 1)
      <3>1. ASSUME NEW i \in Opened(ivs, k) PROVE i \in Opened(ivs, k - 1)
        <4>1. PICK j \in 1 .. k : ev[j] = StartOf(ivs, i)
          BY <3>1 DEF Opened, ev
        <4>2. i \in 1 .. m
          BY <1>7, <3>1 DEF Opened
        <4>3. j # k
          BY <1>31, <2>1, <4>1, <4>2 DEF e
        <4> QED
          BY <1>4, <1>7, <4>1, <4>2, <4>3 DEF Opened, ev
      <3>2. ASSUME NEW i \in Opened(ivs, k - 1) PROVE i \in Opened(ivs, k)
        BY <1>5, <3>2 DEF Opened
      <3> QED
        BY <3>1, <3>2
    <2>5. Cardinality(Closed(ivs, k)) = Cardinality(Closed(ivs, k - 1)) + 1
      BY <1>6, <2>2, <2>3, FS_AddElement
    <2> QED
      BY <1>6, <1>9, <2>4, <2>5 DEF OpenAfter, e, ev
  <1> QED
    BY <1>3, <1>8, <1>9

\* What the loop knows after k events: how many intervals are open, the most
\* that ever were, and the start that made it so many first.
LoopKnows(ivs, after, k) ==
    /\ after[k].current = OpenAfter(ivs, k)
    /\ after[k].max \in Nat
    /\ \A l \in 0 .. k : OpenAfter(ivs, l) <= after[k].max
    /\ \/ after[k].max = 0 /\ after[k].peak = None
       \/ \E j \in 1 .. k :
            /\ EventsOf(ivs)[j].delta = 1
            /\ OpenAfter(ivs, j) = after[k].max
            /\ after[k].peak = EventsOf(ivs)[j].at
            /\ after[k].max > 0
            /\ \A l \in 0 .. j - 1 : OpenAfter(ivs, l) < after[k].max

LEMMA OpenType ==
    ASSUME NEW m \in Nat, NEW ivs \in [1 .. m -> Interval], NEW k \in Nat
    PROVE  OpenAfter(ivs, k) \in Int
  BY OpenedFacts DEF OpenAfter

LEMMA LoopBegins ==
    ASSUME NEW m \in Nat, NEW ivs \in [1 .. m -> Interval], NEW after,
           after[0] = [current |-> 0, max |-> 0, peak |-> None]
    PROVE  LoopKnows(ivs, after, 0)
  <1>1. Opened(ivs, 0) = {} /\ Closed(ivs, 0) = {}
    BY DEF Opened, Closed
  <1>2. OpenAfter(ivs, 0) = 0
    <2>1. Cardinality(Opened(ivs, 0)) = 0 /\ Cardinality(Closed(ivs, 0)) = 0
      BY <1>1, FS_EmptySet
    <2> QED
      BY <2>1 DEF OpenAfter
  <1>3. \A l \in 0 .. 0 : l = 0
    OBVIOUS
  <1> QED
    BY <1>2, <1>3 DEF LoopKnows

LEMMA LoopGoesOn ==
    ASSUME NEW m \in Nat, NEW ivs \in [1 .. m -> Interval],
           NEW k \in 1 .. Cardinality(SweepEvents(ivs)), NEW after,
           after[k] = Visit(after[k - 1], EventsOf(ivs)[k]), LoopKnows(ivs, after, k - 1),
           after[k - 1] = [current |-> after[k - 1].current, max |-> after[k - 1].max,
                           peak |-> after[k - 1].peak]
    PROVE  /\ LoopKnows(ivs, after, k)
           /\ after[k] = [current |-> after[k].current, max |-> after[k].max, peak |-> after[k].peak]
  <1> DEFINE n == Cardinality(SweepEvents(ivs))
             ev == EventsOf(ivs)
             e == ev[k]
             b == after[k - 1]
             open(l) == OpenAfter(ivs, l)
  <1>1. n \in Nat /\ e \in SweepEvents(ivs)
    BY EventsSorted
  <1>2. k \in 1 .. n /\ k - 1 \in Nat /\ k \in Nat
    BY <1>1
  <1>3. e.delta \in {1, -1}
    BY <1>1, EventFacts
  <1>4. \A l \in Nat : open(l) \in Int
    BY OpenType
  <1>5. open(k) = open(k - 1) + e.delta
    BY OneEvent
  <1>6. /\ b.current = open(k - 1)
        /\ b.max \in Nat
        /\ \A l \in 0 .. k - 1 : open(l) <= b.max
        /\ \/ b.max = 0 /\ b.peak = None
           \/ \E j \in 1 .. k - 1 :
                /\ ev[j].delta = 1 /\ open(j) = b.max /\ b.peak = ev[j].at /\ b.max > 0
                /\ \A l \in 0 .. j - 1 : open(l) < b.max
    BY DEF LoopKnows
  <1>7. b = [current |-> b.current, max |-> b.max, peak |-> b.peak]
    OBVIOUS
  <1>8. after[k] = IF b.current + e.delta > b.max
                   THEN [current |-> b.current + e.delta, max |-> b.current + e.delta, peak |-> e.at]
                   ELSE [b EXCEPT !.current = b.current + e.delta]
    BY DEF Visit
  <1> HIDE DEF n, ev, e, b, open
  <1>9. \A l \in 0 .. k : l \in Nat /\ (l \in 0 .. k - 1 \/ l = k)
    BY <1>2
  <1>10. CASE open(k) > b.max
    <2>1. after[k] = [current |-> open(k), max |-> open(k), peak |-> e.at]
      BY <1>5, <1>6, <1>8, <1>10
    <2>2. open(k) \in Nat /\ open(k) > 0 /\ open(k) \in Int
      BY <1>2, <1>4, <1>6, <1>10
    <2>3. e.delta = 1
      <3>1. open(k - 1) <= b.max /\ open(k - 1) \in Int
        <4>1. k - 1 \in 0 .. k - 1
          BY <1>2
        <4> QED
          BY <1>2, <1>4, <1>6, <4>1
      <3> QED
        BY <1>3, <1>5, <1>6, <1>10, <3>1
    <2>4. \A l \in 0 .. k - 1 : open(l) < open(k)
      <3> TAKE l \in 0 .. k - 1
      <3>1. l \in Nat /\ open(l) <= b.max
        BY <1>2, <1>6
      <3>2. open(l) \in Int
        BY <1>4, <3>1
      <3> QED
        BY <1>6, <1>10, <2>2, <3>1, <3>2
    <2>5. \A l \in 0 .. k : open(l) <= open(k)
      <3> TAKE l \in 0 .. k
      <3>1. open(l) \in Int
        BY <1>4, <1>9
      <3> QED
        BY <1>9, <2>2, <2>4, <3>1
    <2>6. k \in 1 .. k
      BY <1>2
    <2> QED
      BY <2>1, <2>2, <2>3, <2>4, <2>5, <2>6 DEF LoopKnows, open, e, ev
  <1>11. CASE ~ (open(k) > b.max)
    <2>1. after[k] = [current |-> open(k), max |-> b.max, peak |-> b.peak]
      BY <1>5, <1>6, <1>7, <1>8, <1>11
    <2>2. \A l \in 0 .. k : open(l) <= b.max
      <3> TAKE l \in 0 .. k
      <3>1. open(k) \in Int
        BY <1>2, <1>4
      <3> QED
        BY <1>6, <1>9, <1>11, <3>1
    <2>3. \A j \in 1 .. k - 1 : j \in 1 .. k
      BY <1>2
    <2>4. \/ b.max = 0 /\ b.peak = None
          \/ \E j \in 1 .. k :
                /\ ev[j].delta = 1 /\ open(j) = b.max /\ b.peak = ev[j].at /\ b.max > 0
                /\ \A l \in 0 .. j - 1 : open(l) < b.max
      BY <1>6, <2>3, Zenon
    <2>5. after[k].current = open(k) /\ after[k].max = b.max /\ after[k].peak = b.peak
      BY <2>1
    <2> QED
      BY <1>6, <2>1, <2>2, <2>4, <2>5 DEF LoopKnows, open, ev
  <1> QED
    BY <1>10, <1>11

-----------------------------------------------------------------------------
LEMMA LoopEnds ==
    ASSUME NEW m \in Nat, NEW ivs \in [1 .. m -> Interval], NEW n, n = Cardinality(SweepEvents(ivs)),
           NEW after, after[0] = [current |-> 0, max |-> 0, peak |-> None],
           \A k \in 1 .. n : after[k] = Visit(after[k - 1], EventsOf(ivs)[k])
    PROVE  LoopKnows(ivs, after, n)
  <1> DEFINE Whole(k) == after[k] = [current |-> after[k].current, max |-> after[k].max, peak |-> after[k].peak]
             Known == {k \in Nat : k <= n => LoopKnows(ivs, after, k) /\ Whole(k)}
  <1>1. n \in Nat
    BY EventsSorted
  <1>2. 0 \in Known
    BY LoopBegins
  <1>3. ASSUME NEW k \in Nat, k \in Known PROVE k + 1 \in Known
    <2> SUFFICES ASSUME k + 1 <= n PROVE LoopKnows(ivs, after, k + 1) /\ Whole(k + 1)
      OBVIOUS
    <2>1. k + 1 \in 1 .. n /\ (k + 1) - 1 = k /\ k <= n
      BY <1>1
    <2>2. LoopKnows(ivs, after, k) /\ Whole(k)
      BY <1>3, <2>1
    <2>3. after[k + 1] = Visit(after[(k + 1) - 1], EventsOf(ivs)[k + 1])
      BY <2>1
    <2> QED
      BY <2>1, <2>2, <2>3, LoopGoesOn
  <1> HIDE DEF Known
  <1>4. n \in Known
    BY <1>1, <1>2, <1>3, CountsUp
  <1> QED
    BY <1>1, <1>4 DEF Known

\* The intervals of a moment, and those before it.
Begun(ivs, t) == {i \in DOMAIN ivs : ivs[i].start <= t}
Gone(ivs, t) == {i \in DOMAIN ivs : ivs[i].end < t}

LEMMA OverlapIs ==
    ASSUME NEW m \in Nat, NEW ivs \in [1 .. m -> Interval], InTime(ivs), NEW t \in Nat
    PROVE  /\ Overlap(ivs, t) = Cardinality(Begun(ivs, t)) - Cardinality(Gone(ivs, t))
           /\ Overlap(ivs, t) \in Nat
           /\ Begun(ivs, t) \in SUBSET (1 .. m) /\ Gone(ivs, t) \in SUBSET (1 .. m)
           /\ IsFiniteSet(Begun(ivs, t)) /\ IsFiniteSet(Gone(ivs, t))
           /\ Cardinality(Begun(ivs, t)) \in Nat /\ Cardinality(Gone(ivs, t)) \in Nat
  <1> DEFINE Here == {i \in DOMAIN ivs : ivs[i].start <= t /\ t <= ivs[i].end}
  <1>1. \A i \in 1 .. m : ivs[i].start \in Nat /\ ivs[i].end \in Nat /\ ivs[i].start <= ivs[i].end
    BY EventFacts DEF InTime
  <1>2. DOMAIN ivs = 1 .. m
    OBVIOUS
  <1>3. Begun(ivs, t) \in SUBSET (1 .. m) /\ Gone(ivs, t) \in SUBSET (1 .. m)
    BY <1>2 DEF Begun, Gone
  <1>4. IsFiniteSet(Begun(ivs, t)) /\ IsFiniteSet(Gone(ivs, t))
    BY <1>3, FS_Interval, FS_Subset
  <1>5. Begun(ivs, t) \cap Gone(ivs, t) = Gone(ivs, t)
    BY <1>1, <1>2 DEF Begun, Gone
  <1>6. Begun(ivs, t) \ Gone(ivs, t) = Here
    BY <1>1, <1>2 DEF Begun, Gone
  <1>7. Cardinality(Here) = Cardinality(Begun(ivs, t)) - Cardinality(Gone(ivs, t)) /\ IsFiniteSet(Here)
    BY <1>4, <1>5, <1>6, FS_Difference
  <1>8. Overlap(ivs, t) = Cardinality(Here)
    BY DEF Overlap
  <1> HIDE DEF Here
  <1>9. Cardinality(Here) \in Nat
    BY <1>7, FS_CardinalityType
  <1> QED
    BY <1>3, <1>4, <1>7, <1>8, <1>9, FS_CardinalityType

\* Never more are open after a start than overlap at its moment.
LEMMA NeverMore ==
    ASSUME NEW m \in Nat, NEW ivs \in [1 .. m -> Interval], InTime(ivs),
           NEW k \in 1 .. Cardinality(SweepEvents(ivs))
    PROVE  OpenAfter(ivs, k) <= Overlap(ivs, EventsOf(ivs)[k].at)
  <1> DEFINE n == Cardinality(SweepEvents(ivs))
             ev == EventsOf(ivs)
             t == ev[k].at
  <1>1. /\ n \in Nat
        /\ \A j \in 1 .. n : ev[j] \in SweepEvents(ivs)
        /\ \A e \in SweepEvents(ivs) : \E j \in 1 .. n : ev[j] = e
        /\ \A j, l \in 1 .. n : j < l <=> EventBefore(ev[j], ev[l])
    BY EventsSorted
  <1>2. k \in Nat /\ k \in 1 .. n
    BY <1>1
  <1>3. \A j \in 1 .. n : ev[j].at \in Nat
    BY <1>1, EventFacts
  <1>4. \A i \in 1 .. m : /\ StartOf(ivs, i) \in SweepEvents(ivs) /\ EndOf(ivs, i) \in SweepEvents(ivs)
                          /\ StartOf(ivs, i).at = ivs[i].start /\ EndOf(ivs, i).at = ivs[i].end
    BY EventFacts
  <1>5. t \in Nat /\ DOMAIN ivs = 1 .. m
    BY <1>2, <1>3
  <1> HIDE DEF n
  <1>6. \A j \in 1 .. k : j \in 1 .. n /\ ev[j].at <= t
    <2> TAKE j \in 1 .. k
    <2>1. j \in 1 .. n /\ (j < k \/ j = k)
      BY <1>1, <1>2
    <2>2. EventBefore(ev[j], ev[k]) => ev[j].at <= ev[k].at
      BY <1>2, <1>3, <2>1 DEF EventBefore
    <2> QED
      BY <1>1, <1>2, <1>3, <2>1, <2>2
  <1>7. Opened(ivs, k) \in SUBSET Begun(ivs, t)
    <2>1. ASSUME NEW i \in Opened(ivs, k) PROVE i \in Begun(ivs, t)
      <3>1. i \in 1 .. m
        BY <1>5, <2>1 DEF Opened
      <3>2. PICK j \in 1 .. k : ev[j] = StartOf(ivs, i)
        BY <2>1 DEF Opened
      <3>3. ivs[i].start <= t
        BY <1>4, <1>6, <3>1, <3>2
      <3> QED
        BY <1>5, <3>1, <3>3 DEF Begun
    <2> QED
      BY <2>1
  <1>8. Gone(ivs, t) \in SUBSET Closed(ivs, k)
    <2>1. ASSUME NEW i \in Gone(ivs, t) PROVE i \in Closed(ivs, k)
      <3>1. i \in 1 .. m /\ ivs[i].end < t
        BY <1>5, <2>1 DEF Gone
      <3>2. PICK j \in 1 .. n : ev[j] = EndOf(ivs, i)
        BY <1>1, <1>4, <3>1
      <3>3. EventBefore(ev[j], ev[k])
        BY <1>4, <3>1, <3>2 DEF EventBefore
      <3>4. j < k
        BY <1>1, <1>2, <3>3
      <3>5. j \in 1 .. k
        BY <1>1, <1>2, <3>4
      <3> QED
        BY <1>5, <3>1, <3>2, <3>5 DEF Closed
    <2> QED
      BY <2>1
  <1> HIDE DEF ev, t
  <1>9. /\ IsFiniteSet(Begun(ivs, t)) /\ IsFiniteSet(Closed(ivs, k))
        /\ Cardinality(Begun(ivs, t)) \in Nat /\ Cardinality(Gone(ivs, t)) \in Nat
        /\ Cardinality(Opened(ivs, k)) \in Nat /\ Cardinality(Closed(ivs, k)) \in Nat
        /\ Overlap(ivs, t) = Cardinality(Begun(ivs, t)) - Cardinality(Gone(ivs, t))
    BY <1>2, <1>5, OverlapIs, OpenedFacts
  <1>10. Cardinality(Opened(ivs, k)) <= Cardinality(Begun(ivs, t))
    BY <1>7, <1>9, FS_Subset
  <1>11. Cardinality(Gone(ivs, t)) <= Cardinality(Closed(ivs, k))
    BY <1>8, <1>9, FS_Subset
  <1>12. OpenAfter(ivs, k) <= Overlap(ivs, t)
    BY <1>9, <1>10, <1>11 DEF OpenAfter
  <1> QED
    BY <1>12 DEF t, ev

\* The last start of a moment opens everything that overlaps there.
LEMMA LastStart ==
    ASSUME NEW m \in Nat, NEW ivs \in [1 .. m -> Interval], InTime(ivs), NEW i0 \in 1 .. m
    PROVE  \E k \in 1 .. Cardinality(SweepEvents(ivs)) :
              /\ EventsOf(ivs)[k].at = ivs[i0].start
              /\ OpenAfter(ivs, k) = Overlap(ivs, ivs[i0].start)
  <1> DEFINE n == Cardinality(SweepEvents(ivs))
             ev == EventsOf(ivs)
             t == ivs[i0].start
             At == {j \in 1 .. n : ev[j].delta = 1 /\ ev[j].at = t}
  <1>1. /\ n \in Nat
        /\ \A j \in 1 .. n : ev[j] \in SweepEvents(ivs)
        /\ \A e \in SweepEvents(ivs) : \E j \in 1 .. n : ev[j] = e
        /\ \A j, l \in 1 .. n : j < l <=> EventBefore(ev[j], ev[l])
    BY EventsSorted
  <1>2. \A j \in 1 .. n : ev[j].at \in Nat /\ ev[j].delta \in {1, -1}
    BY <1>1, EventFacts
  <1>3. \A i \in 1 .. m : /\ StartOf(ivs, i) \in SweepEvents(ivs) /\ EndOf(ivs, i) \in SweepEvents(ivs)
                          /\ StartOf(ivs, i).at = ivs[i].start /\ EndOf(ivs, i).at = ivs[i].end
                          /\ StartOf(ivs, i).delta = 1 /\ EndOf(ivs, i).delta = -1
                          /\ ivs[i].start \in Nat /\ ivs[i].end \in Nat
    BY EventFacts
  <1>4. t \in Nat /\ DOMAIN ivs = 1 .. m
    BY <1>3
  <1> HIDE DEF n
  <1>5. PICK k : k \in At /\ \A j \in At : j <= k
    <2>1. PICK j \in 1 .. n : ev[j] = StartOf(ivs, i0)
      BY <1>1, <1>3
    <2>2. j \in At
      BY <1>3, <2>1
    <2>3. At \in SUBSET (1 .. n) /\ At # {}
      BY <2>2
    <2> QED
      BY <1>1, <2>3, LastPlace
  <1>6. k \in 1 .. n /\ ev[k].delta = 1 /\ ev[k].at = t /\ k \in Nat
    BY <1>1, <1>5
  <1> HIDE DEF t, ev
  <1>7. Opened(ivs, k) = Begun(ivs, t)
    <2>1. ASSUME NEW i \in Opened(ivs, k) PROVE i \in Begun(ivs, t)
      <3>1. i \in 1 .. m
        BY <1>4, <2>1 DEF Opened
      <3>2. PICK j \in 1 .. k : ev[j] = StartOf(ivs, i)
        BY <2>1 DEF Opened, ev
      <3>3. j \in 1 .. n /\ (j < k \/ j = k)
        BY <1>1, <1>6
      <3>4. ev[j].at <= t
        BY <1>1, <1>2, <1>6, <3>3 DEF EventBefore
      <3> QED
        BY <1>3, <1>4, <3>1, <3>2, <3>4 DEF Begun
    <2>2. ASSUME NEW i \in Begun(ivs, t) PROVE i \in Opened(ivs, k)
      <3>1. i \in 1 .. m /\ ivs[i].start <= t
        BY <1>4, <2>2 DEF Begun
      <3>2. PICK j \in 1 .. n : ev[j] = StartOf(ivs, i)
        BY <1>1, <1>3, <3>1
      <3>3. ev[j].delta = 1 /\ ev[j].at <= t /\ ev[j].at \in Nat
        BY <1>2, <1>3, <3>1, <3>2
      <3>4. j <= k
        <4>1. CASE ev[j].at = t
          BY <1>5, <3>3, <4>1
        <4>2. CASE ev[j].at < t
          <5>1. EventBefore(ev[j], ev[k])
            BY <1>6, <4>2 DEF EventBefore
          <5> QED
            BY <1>1, <1>6, <5>1
        <4> QED
          BY <1>4, <3>3, <4>1, <4>2
      <3>5. j \in 1 .. k
        BY <1>1, <1>6, <3>4
      <3> QED
        BY <1>4, <3>1, <3>2, <3>5 DEF Opened, ev
    <2> QED
      BY <2>1, <2>2
  <1>8. Closed(ivs, k) = Gone(ivs, t)
    <2>1. ASSUME NEW i \in Closed(ivs, k) PROVE i \in Gone(ivs, t)
      <3>1. i \in 1 .. m
        BY <1>4, <2>1 DEF Closed
      <3>2. PICK j \in 1 .. k : ev[j] = EndOf(ivs, i)
        BY <2>1 DEF Closed, ev
      <3>3. ev[j].delta = -1 /\ ev[j].at = ivs[i].end
        BY <1>3, <3>1, <3>2
      <3>4. j # k
        BY <1>6, <3>3
      <3>5. j \in 1 .. n /\ j < k
        BY <1>1, <1>6, <3>4
      <3>6. EventBefore(ev[j], ev[k])
        BY <1>1, <1>6, <3>5
      <3>7. ivs[i].end < t
        BY <1>3, <1>6, <3>1, <3>3, <3>6 DEF EventBefore
      <3> QED
        BY <1>4, <3>1, <3>7 DEF Gone
    <2>2. ASSUME NEW i \in Gone(ivs, t) PROVE i \in Closed(ivs, k)
      <3>1. i \in 1 .. m /\ ivs[i].end < t
        BY <1>4, <2>2 DEF Gone
      <3>2. PICK j \in 1 .. n : ev[j] = EndOf(ivs, i)
        BY <1>1, <1>3, <3>1
      <3>3. EventBefore(ev[j], ev[k])
        BY <1>3, <1>6, <3>1, <3>2 DEF EventBefore
      <3>4. j < k
        BY <1>1, <1>6, <3>3
      <3>5. j \in 1 .. k
        BY <1>1, <1>6, <3>4
      <3> QED
        BY <1>4, <3>1, <3>2, <3>5 DEF Closed, ev
    <2> QED
      BY <2>1, <2>2
  <1>9. OpenAfter(ivs, k) = Overlap(ivs, t)
    BY <1>4, <1>7, <1>8, OverlapIs DEF OpenAfter
  <1> QED
    BY <1>6, <1>9 DEF n, t, ev

\* In the end everything is closed.
LEMMA AllClosed ==
    ASSUME NEW m \in Nat, NEW ivs \in [1 .. m -> Interval]
    PROVE  OpenAfter(ivs, Cardinality(SweepEvents(ivs))) = 0
  <1> DEFINE n == Cardinality(SweepEvents(ivs))
  <1>1. n \in Nat /\ \A e \in SweepEvents(ivs) : \E j \in 1 .. n : EventsOf(ivs)[j] = e
    BY EventsSorted
  <1>2. \A i \in 1 .. m : StartOf(ivs, i) \in SweepEvents(ivs) /\ EndOf(ivs, i) \in SweepEvents(ivs)
    BY EventFacts
  <1>3. DOMAIN ivs = 1 .. m
    OBVIOUS
  <1>4. Opened(ivs, n) = 1 .. m /\ Closed(ivs, n) = 1 .. m
    BY <1>1, <1>2, <1>3 DEF Opened, Closed
  <1>5. Cardinality(1 .. m) \in Nat
    BY FS_Interval, FS_CardinalityType
  <1> QED
    BY <1>4, <1>5 DEF OpenAfter

\* For any intervals: the largest overlap, and the first moment that has it.
LEMMA SweepFinds ==
    ASSUME NEW m \in Nat, NEW ivs \in [1 .. m -> Interval], InTime(ivs)
    PROVE  LET moments == {ivs[i].start : i \in DOMAIN ivs}
               largest == Max({Overlap(ivs, t) : t \in moments} \cup {0})
           IN /\ Sweep(ivs).max = largest
              /\ Sweep(ivs).current = 0
              /\ Sweep(ivs).peak = IF moments = {} THEN None
                                   ELSE Min({t \in moments : Overlap(ivs, t) = largest})
  <1> DEFINE n == Cardinality(SweepEvents(ivs))
             ev == EventsOf(ivs)
             moments == {ivs[i].start : i \in DOMAIN ivs}
             heights == {Overlap(ivs, t) : t \in moments} \cup {0}
             sweep == Sweep(ivs)
  <1>1. /\ n \in Nat
        /\ \A j \in 1 .. n : ev[j] \in SweepEvents(ivs)
        /\ \A j, l \in 1 .. n : j < l <=> EventBefore(ev[j], ev[l])
    BY EventsSorted
  <1>2. \A j \in 1 .. n : ev[j].at \in Nat /\ (ev[j].delta = 1 => ev[j].at \in moments)
    <2> TAKE j \in 1 .. n
    <2>1. ev[j] \in SweepEvents(ivs)
      BY <1>1
    <2>2. /\ ev[j].at \in Nat /\ ev[j].of \in 1 .. m
          /\ ev[j].delta = 1 => ev[j] = StartOf(ivs, ev[j].of)
          /\ StartOf(ivs, ev[j].of).at = ivs[ev[j].of].start
      BY <2>1, EventFacts
    <2>3. DOMAIN ivs = 1 .. m
      OBVIOUS
    <2> QED
      BY <2>2, <2>3
  <1>3. moments \in SUBSET Nat
    <2>1. DOMAIN ivs = 1 .. m /\ \A i \in 1 .. m : ivs[i].start \in Nat
      BY EventFacts
    <2> QED
      BY <2>1
  <1>4. \A t \in moments : Overlap(ivs, t) \in Nat
    BY <1>3, OverlapIs
  <1>5. PICK after :
          /\ sweep = after[n]
          /\ after[0] = [current |-> 0, max |-> 0, peak |-> None]
          /\ \A k \in 1 .. n : after[k] = Visit(after[k - 1], ev[k])
    BY <1>1, SweepUnfolds
  <1>6. LoopKnows(ivs, after, n)
    BY <1>5, LoopEnds
  <1>7. sweep.current = 0
    BY <1>5, <1>6, AllClosed DEF LoopKnows
  <1>8. /\ sweep.max \in Nat
        /\ \A l \in 0 .. n : OpenAfter(ivs, l) <= sweep.max
        /\ \/ sweep.max = 0 /\ sweep.peak = None
           \/ \E j \in 1 .. n :
                /\ ev[j].delta = 1 /\ OpenAfter(ivs, j) = sweep.max /\ sweep.peak = ev[j].at
                /\ sweep.max > 0
                /\ \A l \in 0 .. j - 1 : OpenAfter(ivs, l) < sweep.max
    BY <1>5, <1>6 DEF LoopKnows
  <1>9. \A k \in 1 .. n : OpenAfter(ivs, k) <= Overlap(ivs, ev[k].at)
    BY NeverMore
  <1>10. \A t \in moments : \E k \in 1 .. n : ev[k].at = t /\ OpenAfter(ivs, k) = Overlap(ivs, t)
    BY LastStart
  <1>11. \A k \in Nat : OpenAfter(ivs, k) \in Int
    BY OpenType
  <1> HIDE DEF n, ev, moments, sweep
  <1>12. \A t \in moments : Overlap(ivs, t) <= sweep.max
    <2> TAKE t \in moments
    <2>1. PICK k \in 1 .. n : OpenAfter(ivs, k) = Overlap(ivs, t)
      BY <1>10
    <2>2. k \in 0 .. n
      BY <1>1
    <2> QED
      BY <1>8, <2>1, <2>2
  <1>13. sweep.max \in heights
    <2>1. CASE sweep.max = 0
      BY <2>1
    <2>2. ASSUME NEW j \in 1 .. n, ev[j].delta = 1, OpenAfter(ivs, j) = sweep.max
          PROVE  sweep.max \in heights
      <3>1. ev[j].at \in moments /\ sweep.max <= Overlap(ivs, ev[j].at)
        BY <1>2, <1>9, <2>2
      <3>2. sweep.max = Overlap(ivs, ev[j].at)
        BY <1>4, <1>8, <1>12, <3>1
      <3> QED
        BY <3>1, <3>2
    <2> QED
      BY <1>8, <2>1, <2>2
  <1>14. \A h \in heights : h <= sweep.max
    BY <1>8, <1>12
  <1>15. heights \in SUBSET Nat
    BY <1>4
  <1> HIDE DEF heights
  <1>16. Max(heights) = sweep.max
    <2>1. \E x \in heights : \A y \in heights : x >= y
      BY <1>8, <1>13, <1>14, <1>15
    <2>2. Max(heights) \in heights /\ \A y \in heights : Max(heights) >= y
      BY <2>1 DEF Max
    <2>3. Max(heights) \in Nat /\ Max(heights) >= sweep.max /\ Max(heights) <= sweep.max
      BY <1>13, <1>14, <1>15, <2>2
    <2> QED
      BY <1>8, <2>3
  <1>17. CASE moments = {}
    <2>1. sweep.max = 0
      BY <1>13, <1>17 DEF heights
    <2>2. sweep.peak = None
      BY <1>8, <2>1
    <2> QED
      BY <1>7, <1>16, <1>17, <2>2 DEF moments, heights, sweep
  <1>18. CASE moments # {}
    <2> DEFINE high == {t \in moments : Overlap(ivs, t) = sweep.max}
    <2>1. sweep.max > 0
      <3>1. PICK i \in 1 .. m : ivs[i].start \in moments
        BY <1>18 DEF moments
      <3> DEFINE here == {x \in DOMAIN ivs : ivs[x].start <= ivs[i].start /\ ivs[i].start <= ivs[x].end}
      <3>2. i \in here
        <4>1. ivs[i].start \in Nat /\ ivs[i].start <= ivs[i].end /\ i \in DOMAIN ivs
          BY EventFacts DEF InTime
        <4> QED
          BY <4>1
      <3>3. Overlap(ivs, ivs[i].start) = Cardinality(here)
        BY DEF Overlap
      <3>4. IsFiniteSet(here)
        <4>1. here \in SUBSET (1 .. m)
          OBVIOUS
        <4> QED
          BY <4>1, FS_Interval, FS_Subset
      <3>5. Cardinality(here) # 0
        BY <3>2, <3>4, FS_EmptySet
      <3> QED
        BY <1>4, <1>8, <1>12, <3>1, <3>3, <3>5
    <2>2. PICK j \in 1 .. n :
             /\ ev[j].delta = 1 /\ OpenAfter(ivs, j) = sweep.max /\ sweep.peak = ev[j].at
             /\ \A l \in 0 .. j - 1 : OpenAfter(ivs, l) < sweep.max
      BY <1>8, <2>1
    <2>3. ev[j].at \in high
      <3>1. ev[j].at \in moments /\ sweep.max <= Overlap(ivs, ev[j].at)
        BY <1>2, <1>9, <2>2
      <3> QED
        BY <1>4, <1>8, <1>12, <3>1
    <2>4. ASSUME NEW t \in high PROVE ev[j].at <= t
      <3>1. PICK k \in 1 .. n : ev[k].at = t /\ OpenAfter(ivs, k) = sweep.max
        BY <1>10, <2>4
      <3>2. ~ (k < j)
        <4>1. k < j => k \in 0 .. j - 1
          BY <1>1
        <4>2. OpenAfter(ivs, k) \in Int /\ ~ (OpenAfter(ivs, k) < sweep.max)
          BY <1>8, <3>1
        <4> QED
          BY <2>2, <4>1, <4>2
      <3>3. j < k \/ j = k
        BY <1>1, <3>2
      <3>4. ev[j].at <= ev[k].at
        BY <1>1, <1>2, <3>3 DEF EventBefore
      <3> QED
        BY <3>1, <3>4
    <2> HIDE DEF high
    <2>5. Min(high) = ev[j].at
      <3>1. high \in SUBSET Nat /\ high # {}
        BY <1>3, <2>3 DEF high
      <3>2. Min(high) \in high /\ \A t \in high : Min(high) <= t
        BY <3>1, FirstPlace
      <3>3. Min(high) \in Nat /\ ev[j].at \in Nat /\ Min(high) <= ev[j].at /\ ev[j].at <= Min(high)
        BY <2>3, <2>4, <3>1, <3>2
      <3> QED
        BY <3>3
    <2>6. sweep.peak = Min({t \in moments : Overlap(ivs, t) = Max(heights)})
      BY <1>16, <2>2, <2>5 DEF high
    <2> QED
      BY <1>7, <1>16, <1>18, <2>6 DEF moments, heights, sweep
  <1> QED
    BY <1>17, <1>18

\* The intervals of a step are intervals, also after rounding.
LEMMA StepIntervals ==
    ASSUME TrackerInv, snap # NoSnapshot
    PROVE  \E m \in Nat : Intervals(snap) \in [1 .. m -> Interval] /\ InTime(Intervals(snap))
  <1> DEFINE w == Window(snap)
             b == snap.baseline
             iv(k) == [start |-> Rounded(w[k].start - b), end |-> Rounded(w[k].end - b)]
  <1>1. TrackerTypeOK /\ records = ended /\ EndedInTime /\ snap \in [index : Nat, baseline : Int]
    BY DEF TrackerInv, TrackerTypeOK
  <1>2. b \in Nat /\ snap.index \in Nat
    <2>1. snap.index \in Nat
      BY <1>1
    <2> QED
      BY <2>1 DEF TrackerInv, SnapshotSplits
  <1>3. w \in Seq(Request) /\ Range(w) = {records[i] : i \in Kept(snap)}
    BY <1>1, WindowFinds
  <1>4. PICK m \in Nat : m = Len(w) /\ DOMAIN w = 1 .. m
    BY <1>3
  <1>5. ASSUME NEW k \in 1 .. m
        PROVE  w[k].start - b \in Nat /\ w[k].end - b \in Nat /\ w[k].start - b <= w[k].end - b
    <2>1. w[k] \in Range(w)
      BY <1>4 DEF Range
    <2>2. PICK i \in Kept(snap) : w[k] = records[i]
      BY <1>3, <2>1
    <2>3. Len(ended) \in Nat
      BY <1>1 DEF TrackerTypeOK
    <2>4. i \in 1 .. Len(ended) /\ ended[i].start >= b
      BY <1>1, <1>2, <2>2, <2>3 DEF Kept
    <2>5. ended[i].start \in Nat /\ ended[i].end \in Nat /\ ended[i].start < ended[i].end
      BY <1>1, <2>4, TrackerMembers DEF EndedInTime
    <2> QED
      BY <1>1, <1>2, <2>2, <2>4, <2>5
  <1>6. \A x, y \in Nat : x <= y => Rounded(x) \in Nat /\ Rounded(y) \in Nat /\ Rounded(x) <= Rounded(y)
    <2> TAKE x, y \in Nat
    <2> HAVE x <= y
    <2>1. Unit \in Nat \ {0} /\ Unit \div 2 \in Nat
      BY TrackerAssumption
    <2>2. x + Unit \div 2 \in Nat /\ y + Unit \div 2 \in Nat /\ x + Unit \div 2 <= y + Unit \div 2
      BY <2>1
    <2> QED
      BY <2>1, <2>2, QuotientNat, QuotientGrows DEF Rounded
  <1>7. Intervals(snap) = [k \in 1 .. m |-> iv(k)]
    BY <1>4 DEF Intervals
  <1> HIDE DEF w, b
  <1>8. ASSUME NEW k \in 1 .. m
        PROVE  iv(k) \in Interval /\ iv(k).start <= iv(k).end
    BY <1>5, <1>6 DEF Interval
  <1> HIDE DEF iv
  <1>9. Intervals(snap) \in [1 .. m -> Interval] /\ InTime(Intervals(snap))
    BY <1>7, <1>8 DEF InTime
  <1> QED
    BY <1>9

(***************************************************************************)
(* For any requests and any unit of rounding: the sweep of a step finds    *)
(* the largest overlap and the first moment that has it.                   *)
(***************************************************************************)
THEOREM TrackerSweepFindsOverlap == TrackerSpec => []SweepFindsOverlap
  <1>1. TrackerInv => SweepFindsOverlap
    <2> SUFFICES ASSUME TrackerInv, snap # NoSnapshot
                 PROVE  LET ivs == Intervals(snap)
                            moments == {ivs[i].start : i \in DOMAIN ivs}
                            largest == Max({Overlap(ivs, t) : t \in moments} \cup {0})
                            sweep == Sweep(ivs)
                        IN /\ sweep.max = largest
                           /\ sweep.current = 0
                           /\ sweep.peak = IF moments = {} THEN None
                                           ELSE Min({t \in moments : Overlap(ivs, t) = largest})
      BY DEF SweepFindsOverlap
    <2>1. PICK m \in Nat : Intervals(snap) \in [1 .. m -> Interval] /\ InTime(Intervals(snap))
      BY StepIntervals
    <2> QED
      BY <2>1, SweepFinds
  <1> QED
    BY <1>1, TrackerBegins, TrackerStays, PTL DEF TrackerSpec
=============================================================================
