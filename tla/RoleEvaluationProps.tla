------------------------ MODULE RoleEvaluationProps ------------------------
(***************************************************************************)
(* What the evaluation of a role promises.                                 *)
(***************************************************************************)
EXTENDS RoleEvaluation

\* Every variable of evaluate_role keeps its type.
TypeOK ==
    /\ skip \subseteq Page /\ required \subseteq Page
    /\ visitMenu \in BOOLEAN /\ tracing \in BOOLEAN /\ diagnosed \subseteq Flow
    /\ pc \in {"login", "discover", "menu", "scenarios", "workflows", "list", "search",
               "target", "classify", "activate", "leave", "unwind", "recover", "done",
               "raised"}
    /\ todo \in Seq(Page) \cup Seq(Flow)
    /\ discovered \subseteq Page /\ visited \subseteq Page
    /\ skipped \subseteq Page /\ failed \subseteq Page
    /\ menuHost \in HostPages \cup {NoPage}
    /\ pages \in [Page -> PageResult]
    /\ flows \in [Flow -> {"none", "PASS", "FAIL", "SKIPPED"}]
    /\ listed \in BOOLEAN /\ unsaved \in BOOLEAN /\ chunk \in BOOLEAN
    /\ started \in BOOLEAN /\ observing \in BOOLEAN
    /\ status \in {"PASS", "FAIL"}

(***************************************************************************)
(* The menu loop and the scenario loop of evaluate_role share the lists of *)
(* the coverage: no page is ever in two of visited, skipped and failed,    *)
(* every page the menu listed ends in one of them, and visited holds       *)
(* exactly the pages whose stored result is a measurement.                 *)
(***************************************************************************)
OneVerdictPerPage ==
    /\ visited \cap skipped = {} /\ visited \cap failed = {} /\ skipped \cap failed = {}
    /\ visited = {p \in Page : pages[p].measured}
    /\ pc # "menu" => discovered \subseteq visited \cup skipped \cup failed

(***************************************************************************)
(* run() takes the result from status, Investigator from the contract: a   *)
(* role that passed has a contract in which every page item passed and no  *)
(* workflow item failed, whichever of the two hosts pages stood for hosts. *)
(***************************************************************************)
ContractFollowsStatus ==
    pc = "done" /\ status = "PASS" =>
        /\ \A p \in ContractPages : ContractPageStatus(p) = "PASS"
        /\ \A w \in ContractFlows : ContractFlowStatus(w) # "FAIL"

(***************************************************************************)
(* A trace chunk or a diagnostic observer of one workflow never reaches    *)
(* into the next, whatever raised in between: the finally clause and the   *)
(* handler of evaluate_role close them before a result is stored.          *)
(***************************************************************************)
NothingLeftRecording ==
    pc \in {"workflows", "list", "done"} => ~chunk /\ ~started /\ ~observing

(***************************************************************************)
(* store_page_result keeps the first result of a page: a later visit adds  *)
(* a probe and neither replaces a measurement nor clears an error.         *)
(***************************************************************************)
FirstResultStands ==
    [][\A p \in Page : pages[p].known =>
            /\ pages'[p].known
            /\ pages'[p].measured = pages[p].measured
            /\ pages'[p].error = pages[p].error]_vars
=============================================================================
