--------------------------- MODULE RoleEvaluation ---------------------------
(***************************************************************************)
(* evaluate_role of playbooks/tests/files/ui-browser/runner.py: one role   *)
(* of one browser logs in, visits the pages of the menu, then the page     *)
(* scenarios of the role, then the requested workflows, and closes with a  *)
(* verdict.  Anything the browser does may raise: every wait has a         *)
(* timeout.  Durations, requests and texts are left out; what is kept is   *)
(* which page has a measurement, which an error, and which lists of the    *)
(* coverage it is in.                                                      *)
(***************************************************************************)
EXTENDS Naturals, Sequences, FiniteSets, SequencesExt

CONSTANTS
    Page,               \* page ids
    Hosts, HostsNew,    \* HOST_PAGE_IDS, in this order
    NoPage,             \* None
    Scenarios,          \* page_ids_for_role: the scenarios of the role, in order
    RequiredByDefault,  \* pages whose scenario is required_by_default
    Flow,               \* workflow ids
    Flows,              \* the requested workflows the role has, in order
    Detail,             \* [Flow -> [menu, kind, required]]: WORKFLOW_SCENARIOS
    TracksPages,        \* CONTRACT_PAGE_IDS
    TracksFlows         \* CONTRACT_WORKFLOW_IDS

HostPages == {Hosts, HostsNew}

ASSUME RoleAssumption ==
    /\ Hosts \in Page /\ HostsNew \in Page /\ Hosts # HostsNew
    /\ NoPage \notin Page
    /\ Scenarios \in Seq(Page) /\ IsInjective(Scenarios)
    /\ RequiredByDefault \subseteq Page
    /\ Flows \in Seq(Flow)
    /\ Detail \in [Flow -> [menu : Page \cup {NoPage},
                            kind : {"drilldown", "search"},
                            required : BOOLEAN]]
    /\ TracksPages \subseteq Page
    /\ TracksFlows \subseteq Flow

(***************************************************************************)
(* What role_result["pages"][p] may hold: known when the key is there, a   *)
(* navigation (the measurement) or an error as first result, and what the  *)
(* scenario added to a page that was known already.                        *)
(***************************************************************************)
PageResult == [known : BOOLEAN, measured : BOOLEAN, error : BOOLEAN,
               probed : BOOLEAN, probeError : BOOLEAN]
Unknown == [known |-> FALSE, measured |-> FALSE, error |-> FALSE,
            probed |-> FALSE, probeError |-> FALSE]
Measured == [known |-> TRUE, measured |-> TRUE, error |-> FALSE,
             probed |-> FALSE, probeError |-> FALSE]
Failed == [known |-> TRUE, measured |-> FALSE, error |-> TRUE,
           probed |-> FALSE, probeError |-> FALSE]

VARIABLES
    skip,       \* args.skip_pages
    required,   \* role.required_pages
    visitMenu,  \* args.visit_all_left_nav
    tracing,    \* args.capture_workflow_traces
    diagnosed,  \* args.diagnostic_workflows
    pc,         \* where evaluate_role is
    todo,       \* what is left of the loop it is in
    discovered, visited, skipped, failed,   \* coverage
    menuHost,   \* menu_host_page_id
    pages,      \* role_result["pages"]
    flows,      \* the status in role_result["workflows"]
    listed,     \* list_step is set
    unsaved,    \* workflow_diagnostic_payload has no artifact_path yet
    chunk,      \* a workflow trace chunk is being recorded
    started,    \* workflow_trace_started
    observing,  \* active_activation_diagnostics is set
    status      \* role_result["status"]

config == <<skip, required, visitMenu, tracing, diagnosed>>
coverage == <<discovered, visited, skipped, failed>>
recording == <<listed, unsaved, chunk, started, observing>>
vars == <<config, pc, todo, coverage, menuHost, pages, flows, recording, status>>

Init ==
    /\ skip \in SUBSET Page /\ required \in SUBSET Page
    /\ visitMenu \in BOOLEAN /\ tracing \in BOOLEAN /\ diagnosed \in SUBSET Flow
    /\ pc = "login" /\ todo = <<>>
    /\ discovered = {} /\ visited = {} /\ skipped = {} /\ failed = {}
    /\ menuHost = NoPage
    /\ pages = [p \in Page |-> Unknown]
    /\ flows = [w \in Flow |-> "none"]
    /\ listed = FALSE /\ unsaved = FALSE /\ chunk = FALSE /\ started = FALSE /\ observing = FALSE
    /\ status = "PASS"

(***************************************************************************)
(* An exception that no handler of evaluate_role catches.  The page is     *)
(* closed and the caller gets no result.                                   *)
(***************************************************************************)
Escape ==
    /\ pc' = "raised"
    /\ UNCHANGED <<config, todo, coverage, menuHost, pages, flows, recording, status>>

\* login: form, submit, two waits.  Its own workflow item is left out: it is PASS
\* whenever there is a result at all.
Login ==
    /\ pc = "login"
    /\ \/ /\ pc' = "discover"
          /\ UNCHANGED <<config, todo, coverage, menuHost, pages, flows, recording, status>>
       \/ Escape

\* discovered_host_page_id: the first of the entries that is a host page.
HostPageOf(menu) ==
    IF \E i \in DOMAIN menu : menu[i] = Hosts /\ \A j \in 1 .. i : menu[j] # HostsNew
    THEN Hosts
    ELSE IF HostsNew \in Range(menu) THEN HostsNew ELSE NoPage

\* discover_menu: the entries of /menu, each page id once.
Discover(menu) ==
    /\ pc = "discover"
    /\ IsInjective(menu)
    /\ visitMenu \/ menu = <<>>
    /\ \/ /\ pc' = "menu"
          /\ todo' = menu
          /\ discovered' = Range(menu)
          /\ menuHost' = HostPageOf(menu)
          /\ UNCHANGED <<config, visited, skipped, failed, pages, flows, recording, status>>
       \/ visitMenu /\ Escape

-----------------------------------------------------------------------------
\* Faulty: an error in the menu gives way to the measurement of the scenario.
FirstMeasurement(p) == ~pages[p].measured

\* store_page_result: the first result of a page is the one that counts.
FirstResult(p) == ~pages[p].known
Stored(p) ==
    IF FirstResult(p) THEN Measured ELSE [pages[p] EXCEPT !.probed = TRUE]

-----------------------------------------------------------------------------
(***************************************************************************)
(* The loop over the menu.                                                 *)
(***************************************************************************)
VisitMenuPage ==
    /\ pc = "menu" /\ todo # <<>>
    /\ todo' = Tail(todo)
    /\ LET p == Head(todo) IN
       \/ /\ p \in skip
          /\ skipped' = skipped \cup {p}
          /\ UNCHANGED <<visited, failed, pages>>
       \/ /\ p \notin skip
          /\ visited' = visited \cup {p}
          /\ pages' = [pages EXCEPT ![p] = Stored(p)]
          /\ UNCHANGED <<skipped, failed>>
       \/ /\ p \notin skip
          /\ failed' = failed \cup {p}
          /\ pages' = [pages EXCEPT ![p] = [@ EXCEPT !.known = TRUE, !.error = TRUE]]
          /\ UNCHANGED <<visited, skipped>>
    /\ UNCHANGED <<config, pc, discovered, menuHost, flows, recording, status>>

MenuDone ==
    /\ pc = "menu" /\ todo = <<>>
    /\ pc' = "scenarios"
    /\ todo' = Scenarios
    /\ UNCHANGED <<config, coverage, menuHost, pages, flows, recording, status>>

(***************************************************************************)
(* The loop over PAGE_SCENARIOS.                                           *)
(***************************************************************************)
ScenarioLeftOut(p) == p \in skip \/ (p \in HostPages /\ p = menuHost)

\* scenario_required, after the host pages were made tentative.
ScenarioRequired(p) ==
    /\ p \in RequiredByDefault
    /\ ~(p \in HostPages /\ menuHost # NoPage)

\* visit_route returned: the page counts as visited when this is its first result.
ScenarioPasses(p) ==
    /\ pages' = [pages EXCEPT ![p] = Stored(p)]
    /\ visited' = IF FirstResult(p) THEN visited \cup {p} ELSE visited
    /\ UNCHANGED <<skipped, failed>>

\* Faulty: the error replaces what the menu visit stored.
ScenarioFailsAfresh(p) ==
    /\ pages' = [pages EXCEPT ![p] = Failed]
    /\ failed' = failed \cup ({p} \cap required)
    /\ UNCHANGED <<visited, skipped>>

\* visit_route raised.
ScenarioFails(p) ==
    /\ UNCHANGED visited
    /\ \/ /\ pages[p].known
          /\ pages' = [pages EXCEPT ![p].probeError = TRUE]
          /\ UNCHANGED <<skipped, failed>>
       \/ /\ ~pages[p].known
          /\ pages' = [pages EXCEPT ![p] = Failed]
          /\ IF p \in required \/ ScenarioRequired(p)
             THEN failed' = failed \cup {p} /\ UNCHANGED skipped
             ELSE skipped' = skipped \cup {p} /\ UNCHANGED failed

RunScenario ==
    /\ pc = "scenarios" /\ todo # <<>>
    /\ todo' = Tail(todo)
    /\ LET p == Head(todo) IN
       \/ ScenarioLeftOut(p) /\ UNCHANGED <<visited, skipped, failed, pages>>
       \/ ~ScenarioLeftOut(p) /\ ScenarioPasses(p)
       \/ ~ScenarioLeftOut(p) /\ ScenarioFails(p)
    /\ UNCHANGED <<config, pc, discovered, menuHost, flows, recording, status>>

ScenariosDone ==
    /\ pc = "scenarios" /\ todo = <<>>
    /\ pc' = "workflows"
    /\ todo' = Flows
    /\ UNCHANGED <<config, coverage, menuHost, pages, flows, recording, status>>

-----------------------------------------------------------------------------
(***************************************************************************)
(* The loop over the requested workflows.  A workflow opens its list page, *)
(* then types a search or follows a link to a detail page.                 *)
(***************************************************************************)
OnHosts(w) == Detail[w].menu \in HostPages /\ menuHost # NoPage

FlowRequired(w) ==
    IF OnHosts(w) THEN Detail[w].menu = menuHost ELSE Detail[w].required

RouteMissing(w) ==
    ~OnHosts(w) /\ visitMenu /\ Detail[w].menu \notin discovered \cup {NoPage}

\* The result of the workflow at the head of todo is stored, the next one follows.
Close(verdict) ==
    /\ flows' = [flows EXCEPT ![Head(todo)] = verdict]
    /\ todo' = Tail(todo)
    /\ pc' = "workflows"
    /\ listed' = FALSE /\ unsaved' = FALSE

StartFlow ==
    /\ pc = "workflows" /\ todo # <<>>
    /\ \/ /\ RouteMissing(Head(todo))
          /\ Close("SKIPPED")
       \/ /\ ~RouteMissing(Head(todo))
          /\ pc' = "list"
          /\ UNCHANGED <<todo, flows, listed, unsaved>>
    /\ UNCHANGED <<config, coverage, menuHost, pages, chunk, started, observing, status>>

OpenList ==
    /\ pc = "list"
    /\ \/ listed' = TRUE /\ pc' = IF Detail[Head(todo)].kind = "search" THEN "search" ELSE "target"
       \/ UNCHANGED listed /\ pc' = "recover"
    /\ UNCHANGED <<config, todo, coverage, menuHost, pages, flows, unsaved, chunk, started,
                   observing, status>>

Search ==
    /\ pc = "search"
    /\ \/ Close("PASS")
       \/ pc' = "recover" /\ UNCHANGED <<todo, flows, listed, unsaved>>
    /\ UNCHANGED <<config, coverage, menuHost, pages, chunk, started, observing, status>>

\* find_drilldown_target, then start_workflow_trace_chunk; either may raise.
FindTarget ==
    /\ pc = "target"
    /\ \/ /\ pc' \in {"activate", "classify"}
          /\ started' = (tracing /\ Head(todo) \in diagnosed)
          /\ chunk' = started'
       \/ pc' = "recover" /\ UNCHANGED <<started, chunk>>
    /\ UNCHANGED <<config, todo, coverage, menuHost, pages, flows, listed, unsaved, observing, status>>

\* stop_workflow_trace_chunk returned, and the flag is reset.
StopChunk == chunk' = FALSE /\ started' = FALSE
\* It raised: only when a chunk was started.
StopChunkRaises == started /\ UNCHANGED <<chunk, started>>

\* No link on the list page: classify_list_state, and the chunk is stopped.
NoTarget ==
    /\ pc = "classify"
    /\ \/ StopChunk /\ Close("SKIPPED")
       \/ /\ pc' = "recover"         \* classify_list_state or the stop raised
          /\ UNCHANGED <<todo, flows, listed, unsaved, chunk, started>>
    /\ UNCHANGED <<config, coverage, menuHost, pages, observing, status>>

\* start_activation_diagnostics, activate_drilldown_target and the waits.
Activate ==
    /\ pc = "activate"
    /\ pc' \in {"leave", "unwind"}
    /\ \/ Head(todo) \in diagnosed /\ observing' = TRUE
       \/ Head(todo) \notin diagnosed /\ observing' = FALSE
       \/ pc' = "unwind" /\ observing' = FALSE      \* the diagnostics did not start
    /\ UNCHANGED <<config, todo, coverage, menuHost, pages, flows, listed, unsaved, chunk,
                   started, status>>

\* Faulty: the chunk is stopped only by the handler of the exception.
FinallyKeepsChunk ==
    /\ pc \in {"leave", "unwind"}
    /\ observing' = FALSE
    /\ \/ pc = "leave" /\ Close("PASS")
       \/ pc = "unwind" /\ pc' = "recover" /\ UNCHANGED <<todo, flows, listed, unsaved>>
    /\ UNCHANGED <<config, coverage, menuHost, pages, chunk, started, status>>

(***************************************************************************)
(* The finally clause: diagnostics end, the chunk is stopped, then the     *)
(* payload is written.  Stop and write may raise.                          *)
(***************************************************************************)
Finally ==
    /\ pc \in {"leave", "unwind"}
    /\ observing' = FALSE
    /\ \/ /\ StopChunk
          /\ \/ pc = "leave" /\ Close("PASS")
             \/ pc = "unwind" /\ pc' = "recover" /\ UNCHANGED <<todo, flows, listed, unsaved>>
             \/ /\ observing
                /\ pc' = "recover" /\ unsaved' = TRUE
                /\ UNCHANGED <<todo, flows, listed>>
       \/ /\ StopChunkRaises
          /\ pc' = "recover" /\ unsaved' = observing
          /\ UNCHANGED <<todo, flows, listed>>
    /\ UNCHANGED <<config, coverage, menuHost, pages, status>>

RecoveredVerdict(w) == IF FlowRequired(w) THEN "FAIL" ELSE "SKIPPED"

(***************************************************************************)
(* The handler of the workflow's exception.  It stops the chunk, writes a  *)
(* payload that is still unsaved and classifies the list page of a         *)
(* workflow that is not required; nothing catches what these raise.        *)
(***************************************************************************)
Recover ==
    /\ pc = "recover"
    /\ \/ /\ StopChunk
          /\ Close(RecoveredVerdict(Head(todo)))
          /\ UNCHANGED <<config, coverage, menuHost, pages, observing, status>>
       \/ /\ started \/ unsaved \/ (listed /\ ~FlowRequired(Head(todo)))
          /\ Escape
-----------------------------------------------------------------------------
RequiredPageMissing(p) ==
    IF p = Hosts THEN HostPages \cap visited = {} ELSE p \notin visited

\* Faulty: pages left out by configuration are not required.
MissingUnlessSkipped == {p \in required \ skip : RequiredPageMissing(p)}

MissingRequired == {p \in required : RequiredPageMissing(p)}

Conclude ==
    /\ pc = "workflows" /\ todo = <<>>
    /\ pc' = "done"
    /\ status' = IF \/ MissingRequired # {}
                    \/ failed # {}
                    \/ \E w \in Flow : flows[w] = "FAIL"
                 THEN "FAIL" ELSE status
    /\ UNCHANGED <<config, todo, coverage, menuHost, pages, flows, recording>>

-----------------------------------------------------------------------------
(***************************************************************************)
(* The contract of the role: build_contract_page_item, build_lane_contract.*)
(***************************************************************************)
Aliases(p) == IF p = Hosts THEN HostPages ELSE {p}

\* resolve_contract_page: hosts before hosts_new; p itself when neither is known.
Source(p) ==
    IF p = Hosts /\ ~pages[Hosts].known THEN HostsNew ELSE p

ContractPageStatus(p) ==
    LET page == pages[Source(p)] IN
    IF page.measured THEN "PASS"
    ELSE IF Aliases(p) \cap failed # {} \/ page.error THEN "FAIL"
    ELSE IF p \in MissingRequired \/ RequiredPageMissing(p) \/ Aliases(p) \cap skipped # {}
         THEN "SKIPPED"
    ELSE IF page.probeError THEN "FAIL" ELSE "SKIPPED"

ContractFlowStatus(w) == IF flows[w] = "none" THEN "SKIPPED" ELSE flows[w]

ContractPages == TracksPages \cap required
ContractFlows == TracksFlows \cap Range(Flows)
-----------------------------------------------------------------------------
Step ==
    \/ Login
    \/ VisitMenuPage \/ MenuDone
    \/ RunScenario \/ ScenariosDone
    \/ StartFlow \/ OpenList \/ Search \/ FindTarget \/ NoTarget \/ Activate
    \/ Finally \/ Recover
    \/ Conclude

Next == Step \/ \E menu \in Seq(Page) : Discover(menu)

Spec == Init /\ [][Next]_vars
=============================================================================
