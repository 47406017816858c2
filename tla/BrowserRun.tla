----------------------------- MODULE BrowserRun -----------------------------
(***************************************************************************)
(* run() and main() of playbooks/tests/files/ui-browser/runner.py: every   *)
(* role in every browser, one after the other, and the status data file.   *)
(* What one role does is RoleEvaluation; here it passes, fails or raises.  *)
(***************************************************************************)
EXTENDS Naturals, Sequences, FiniteSets, SequencesExt

CONSTANTS
    Browser, Role,
    Browsers,       \* args.browsers, in order
    Roles,          \* build_role_configs, in order
    NoBrowser

\* Assumed by the module that instantiates this one.
RunAssumption ==
    /\ Browsers \in Seq(Browser) /\ Range(Browsers) = Browser
    /\ Roles \in Seq(Role) /\ Range(Roles) = Role /\ IsInjective(Roles)
    /\ NoBrowser \notin Browser

Verdict == {"none", "PASS", "FAIL"}

VARIABLES
    pc,         \* where run() is
    todo,       \* browsers of the outer loop still to launch
    roles,      \* roles of the inner loop still to evaluate
    browser,    \* the browser that is open
    context,    \* a browser context is open
    current,    \* browser_result["roles"] of the open browser
    stored,     \* results.browser.browsers: the browser_result of each browser
    result,     \* result["result"]
    contract,   \* the lanes of results.browser.contract
    completed,  \* results.browser.completed
    written     \* the status data file is there

vars == <<pc, todo, roles, browser, context, current, stored, result, contract,
          completed, written>>

NoResults == [r \in Role |-> "none"]

Init ==
    /\ pc = "browsers" /\ todo = Browsers /\ roles = <<>>
    /\ browser = NoBrowser /\ context = FALSE
    /\ current = NoResults
    /\ stored = [b \in Browser |-> NoResults]
    /\ result = "PASS"
    /\ contract = {}
    /\ completed = FALSE /\ written = FALSE

\* Faulty: the roles evaluated so far are stored on the way out.
FatalErrorStoring ==
    /\ pc' = "write"
    /\ result' = "ERROR"
    /\ completed' = FALSE
    /\ browser' = NoBrowser /\ context' = FALSE
    /\ stored' = [b \in Browser |-> IF b = browser THEN current ELSE stored[b]]
    /\ UNCHANGED <<todo, roles, current, contract, written>>

(***************************************************************************)
(* except Exception: whatever was raised on the way leads here, and the    *)
(* with statement of sync_playwright has ended every browser process.      *)
(***************************************************************************)
FatalError ==
    /\ pc' = "write"
    /\ result' = "ERROR"
    /\ completed' = FALSE
    /\ browser' = NoBrowser /\ context' = FALSE
    /\ UNCHANGED <<todo, roles, current, stored, contract, written>>

LaunchBrowser ==
    /\ pc = "browsers" /\ todo # <<>>
    /\ \/ /\ browser' = Head(todo)
          /\ roles' = Roles
          /\ current' = NoResults
          /\ pc' = "roles"
          /\ UNCHANGED <<todo, context, stored, result, contract, completed, written>>
       \/ FatalError

\* make_context: new_context, the observers, the start of the trace.
MakeContext ==
    /\ pc = "roles" /\ roles # <<>>
    /\ \/ /\ context' = TRUE
          /\ pc' = "evaluate"
          /\ UNCHANGED <<todo, roles, browser, current, stored, result, contract, completed, written>>
       \/ FatalError

\* Faulty: a failed role is recorded with its browser only.
EvaluateQuietly ==
    /\ pc = "evaluate"
    /\ \/ \E verdict \in {"PASS", "FAIL"} :
            /\ current' = [current EXCEPT ![Head(roles)] = verdict]
            /\ pc' = "close"
            /\ UNCHANGED <<todo, roles, browser, context, stored, result, contract, completed, written>>
       \/ FatalError

(***************************************************************************)
(* evaluate_role returns a verdict, or raises: then the finally clauses    *)
(* close context and browser, and nothing of this browser is stored.       *)
(***************************************************************************)
EvaluateRole ==
    /\ pc = "evaluate"
    /\ \/ \E verdict \in {"PASS", "FAIL"} :
            /\ current' = [current EXCEPT ![Head(roles)] = verdict]
            /\ result' = IF verdict = "PASS" THEN result ELSE "FAIL"
            /\ pc' = "close"
            /\ UNCHANGED <<todo, roles, browser, context, stored, contract, completed, written>>
       \/ FatalError

\* The finally clause of the role: the trace is stopped, the context closed.
CloseContext ==
    /\ pc = "close"
    /\ \/ /\ context' = FALSE
          /\ roles' = Tail(roles)
          /\ pc' = "roles"
          /\ UNCHANGED <<todo, browser, current, stored, result, contract, completed, written>>
       \/ FatalError

\* build_browser_comparison, browser.close, and only then the result is stored.
CloseBrowser ==
    /\ pc = "roles" /\ roles = <<>>
    /\ \/ /\ stored' = [stored EXCEPT ![browser] = current]
          /\ browser' = NoBrowser
          /\ todo' = Tail(todo)
          /\ pc' = "browsers"
          /\ UNCHANGED <<roles, context, current, result, contract, completed, written>>
       \/ FatalError

\* build_browser_contract: a lane per stored browser and role.
Lanes == {lane \in Browser \X Role : stored[lane[1]][lane[2]] # "none"}

BuildContract ==
    /\ pc = "browsers" /\ todo = <<>>
    /\ \/ /\ contract' = Lanes
          /\ completed' = TRUE
          /\ pc' = "write"
          /\ UNCHANGED <<todo, roles, browser, context, current, stored, result, written>>
       \/ FatalError

\* main: the status data file is written whatever the result, exit code 0.
WriteStatusData ==
    /\ pc = "write"
    /\ written' = TRUE
    /\ pc' = "done"
    /\ UNCHANGED <<todo, roles, browser, context, current, stored, result, contract, completed>>

Next ==
    \/ LaunchBrowser \/ MakeContext \/ EvaluateRole \/ CloseContext \/ CloseBrowser
    \/ BuildContract \/ WriteStatusData

Spec == Init /\ [][Next]_vars
-----------------------------------------------------------------------------
(***************************************************************************)
(* A status data file that says PASS holds a contract with a lane for      *)
(* every browser and role, each of which passed; one that says FAIL is     *)
(* complete too and has a role that failed, so that a run cut short is     *)
(* always told apart as ERROR.                                             *)
(***************************************************************************)
ResultIsEarned ==
    written /\ result # "ERROR" =>
        /\ completed
        /\ contract = Browser \X Role
        /\ result = "PASS" <=> \A b \in Browser, r \in Role : stored[b][r] = "PASS"

(***************************************************************************)
(* A browser is stored with all its roles or not at all, and only after    *)
(* its contexts and the browser itself were closed: a role that raises     *)
(* never leaves half a browser in the results.                             *)
(***************************************************************************)
StoredWhole ==
    \A b \in Browser :
        \/ stored[b] = NoResults
        \/ \A r \in Role : stored[b][r] # "none"
=============================================================================
