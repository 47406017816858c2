------------------------------ MODULE MCBrowser ------------------------------
(***************************************************************************)
(* The browser test, a part at a time:                                     *)
(* - "role": six pages, of which the menu may list the legacy hosts page,  *)
(*   the new one, both or none, and three workflows, one on each hosts     *)
(*   page and a search;                                                    *)
(* - "tracker": two request ids, so that one is used again, and eleven     *)
(*   events;                                                               *)
(* - "visit": a poll of one step and a settle time of three, as 250 and    *)
(*   750 ms, and a page that is loading, one with text, and one with a     *)
(*   table.                                                                *)
(***************************************************************************)
EXTENDS RoleEvaluationProps, RequestTrackerProps, ContentReadiness, TLC

AdminScenarios == <<"dashboard", "hosts", "hosts_new", "tasks">>
AdminFlows == <<"hosts_details", "repositories", "hosts_new_details">>

FlowDetail ==
    [w \in Flow |->
        CASE w = "hosts_details" -> [menu |-> "hosts", kind |-> "drilldown", required |-> TRUE]
          [] w = "hosts_new_details" -> [menu |-> "hosts_new", kind |-> "drilldown", required |-> FALSE]
          [] OTHER -> [menu |-> "repositories_page", kind |-> "search", required |-> FALSE]]

Menus ==
    {<<"hosts", "subnets">>,
     <<"tasks", "hosts_new", "repositories_page">>,
     <<"hosts_new", "hosts">>,
     <<>>}

CONSTANTS i1, i2
IdSymmetry == Permutations(Id)

Reading(rows, links, buttons, text) ==
    [rows |-> rows, links |-> links, cards |-> 0, buttons |-> buttons, text |-> text]
MCContents == {Reading(0, 0, 0, 40), Reading(0, 0, 1, 140), Reading(3, 3, 0, 260)}

VARIABLE topic
MCvars == <<topic, vars, trackerVars, visitVars>>

RoleInit ==
    /\ skip \in {{}, {"hosts"}, {"tasks", "subnets"}}
    /\ required \in {{"hosts", "tasks"}, {"dashboard"}, {"dashboard", "hosts"}}
    /\ diagnosed \in {{}, {"hosts_details"}}
    /\ tracing \in {diagnosed # {}}
    /\ Init

MCInit ==
    /\ topic \in {"role", "tracker", "visit"}
    /\ RoleInit
    /\ topic # "role" => skip = {} /\ required = {"dashboard"} /\ ~tracing /\ ~visitMenu
    /\ TrackerInit /\ VisitInit

RoleMoves ==
    /\ topic = "role"
    /\ Step \/ \E menu \in Menus : Discover(menu)
    /\ UNCHANGED <<trackerVars, visitVars>>
TrackerMoves == topic = "tracker" /\ TrackerNext /\ UNCHANGED <<vars, visitVars>>
VisitMoves == topic = "visit" /\ VisitNext /\ UNCHANGED <<vars, trackerVars>>

MCNext == UNCHANGED topic /\ (RoleMoves \/ TrackerMoves \/ VisitMoves)
MCSpec == MCInit /\ [][MCNext]_MCvars
=============================================================================
