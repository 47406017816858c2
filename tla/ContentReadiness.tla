--------------------------- MODULE ContentReadiness ---------------------------
(***************************************************************************)
(* visit_route and wait_for_dynamic_content of playbooks/tests/files/      *)
(* ui-browser/navigation.py: a page is opened, its shell is waited for,    *)
(* and its content is read every CONTENT_POLL_MS until one signature has   *)
(* stood for CONTENT_SETTLE_MS or the timeout is over.  The page changes   *)
(* as it likes between two reads.  Time is in steps of a poll or less.     *)
(***************************************************************************)
EXTENDS Integers, Sequences

CONSTANTS
    Contents,   \* what a read may find
    Timeout,    \* timeout_ms
    Settle,     \* CONTENT_SETTLE_MS
    Poll,       \* CONTENT_POLL_MS
    ReadTime    \* bound: how long one read of the page may take

Content == [rows : Nat, links : Nat, cards : Nat, buttons : Nat, text : Nat]

ASSUME ReadinessAssumption ==
    /\ Contents \subseteq Content
    /\ Timeout \in Nat /\ Settle \in Nat \ {0} /\ Poll \in Nat \ {0} /\ ReadTime \in Nat

VARIABLES
    visit,      \* where visit_route is
    clock,      \* monotonic()
    waitStart,  \* started of wait_for_dynamic_content
    signature,  \* previous_signature, as a sequence: <<>> before the first
    since,      \* stable_since
    reads,      \* history: every read of the loop, and when it was done
    shellReady, contentReady, stable    \* the result

result == <<shellReady, contentReady, stable>>
visitVars == <<visit, clock, waitStart, signature, since, reads, result>>

NotSet == -1       \* not set

VisitInit ==
    /\ visit = "goto"
    /\ clock = 0 /\ waitStart = 0
    /\ signature = <<>> /\ since = NotSet
    /\ reads = <<>>
    /\ shellReady = NotSet /\ contentReady = NotSet /\ stable = FALSE

\* A wait of the browser ends in time, or raises when the timeout is over.
WaitThen(next) ==
    \/ \E t \in 0 .. Timeout : clock' = clock + t /\ visit' = next
    \/ clock' = clock + Timeout /\ visit' = "raised"

Goto ==
    /\ visit = "goto"
    /\ WaitThen("networkidle")
    /\ UNCHANGED <<waitStart, signature, since, reads, result>>

NetworkIdle ==
    /\ visit = "networkidle"
    /\ WaitThen("selector")
    /\ waitStart' = clock'
    /\ UNCHANGED <<signature, since, reads, result>>

\* wait_for_page_ready: each of its two waits has the whole timeout.
ReadySelector ==
    /\ visit = "selector"
    /\ WaitThen("text")
    /\ UNCHANGED <<waitStart, signature, since, reads, result>>

ReadyText ==
    /\ visit = "text"
    /\ WaitThen("first")
    /\ shellReady' = clock' - waitStart
    /\ UNCHANGED <<waitStart, signature, since, reads, contentReady, stable>>

\* The read before the loop only takes its time.
FirstRead ==
    /\ visit = "first"
    /\ \E t \in 0 .. ReadTime : clock' = clock + t
    /\ visit' = "loop"
    /\ UNCHANGED <<waitStart, signature, since, reads, result>>

-----------------------------------------------------------------------------
\* readinessMode of inspect_content_state.
Mode(content) ==
    CASE content.rows > 0 /\ content.links > 0  -> "table-links"
      [] content.rows > 0 /\ content.links = 0  -> "table-rows"
      [] content.rows = 0 /\ content.cards > 0 /\ content.links > 0 -> "card-links"
      [] content.rows = 0 /\ content.cards > 0 /\ content.links = 0 -> "cards"
      [] content.rows = 0 /\ content.cards = 0 /\ content.text >= 200 /\ content.buttons > 0
            -> "text-buttons"
      [] content.rows = 0 /\ content.cards = 0 /\ content.text >= 120
            /\ ~(content.text >= 200 /\ content.buttons > 0) -> "text"
      [] OTHER -> "none"

\* signature: the length of the text only in steps of 50.
Signature(content) == [content EXCEPT !.text = @ \div 50]

\* Faulty: the timeout starts again when the shell is there.
LateDeadline == waitStart + shellReady + Timeout

Deadline == waitStart + Timeout

\* Faulty: the moment the signature was first seen is kept when it changes.
KeepSince(content, t) == IF since = NotSet THEN t ELSE since

\* stable_since: when the signature was first read in a row, empty pages left out.
SinceAfter(content, t) ==
    IF signature = <<Signature(content)>> THEN since ELSE t

Read ==
    /\ visit = "loop"
    /\ clock < Deadline
    /\ \E content \in Contents, t \in 0 .. ReadTime :
         /\ clock' = clock + t
         /\ reads' = Append(reads, [at |-> clock', content |-> content])
         /\ IF Mode(content) = "none"
            THEN UNCHANGED <<signature, since>>
            ELSE /\ since' = SinceAfter(content, clock')
                 /\ signature' = <<Signature(content)>>
         /\ IF Mode(content) # "none" /\ clock' - since' >= Settle
            THEN visit' = "done" /\ stable' = TRUE /\ contentReady' = clock' - waitStart
            ELSE visit' = "pause" /\ UNCHANGED <<stable, contentReady>>
    /\ UNCHANGED <<waitStart, shellReady>>

Pause ==
    /\ visit = "pause"
    /\ clock' = clock + Poll
    /\ visit' = "loop"
    /\ UNCHANGED <<waitStart, signature, since, reads, result>>

GiveUp ==
    /\ visit = "loop"
    /\ clock >= Deadline
    /\ visit' = "done"
    /\ stable' = FALSE
    /\ contentReady' = clock - waitStart
    /\ UNCHANGED <<clock, waitStart, signature, since, reads, shellReady>>

VisitNext ==
    Goto \/ NetworkIdle \/ ReadySelector \/ ReadyText \/ FirstRead \/ Read \/ Pause \/ GiveUp

VisitSpec == VisitInit /\ [][VisitNext]_visitVars

-----------------------------------------------------------------------------
(***************************************************************************)
(* What the readiness figures of a page stand for.                         *)
(***************************************************************************)
LastRead == Len(reads)
Usable(i) == Mode(reads[i].content) # "none"
Same(i, j) == Signature(reads[i].content) = Signature(reads[j].content)

(***************************************************************************)
(* A page reported as stable was read with one signature at both ends of a *)
(* window of CONTENT_SETTLE_MS, and with no other signature in between:    *)
(* what was read there is that content or a page without usable content.   *)
(***************************************************************************)
StableWindow ==
    visit = "done" /\ stable =>
        \E i \in 1 .. LastRead :
            /\ Usable(i) /\ Usable(LastRead)
            /\ reads[LastRead].at - reads[i].at >= Settle
            /\ \A j \in i .. LastRead : Usable(j) => Same(j, LastRead)

(***************************************************************************)
(* wait_for_dynamic_content returns soon after its timeout even on a page  *)
(* that never settles: the two waits for the shell may use up their own    *)
(* timeouts, the loop adds at most a poll and a read to the deadline.      *)
(***************************************************************************)
ReturnsInTime ==
    visit = "done" =>
        contentReady <= (IF shellReady > Timeout THEN shellReady ELSE Timeout)
                        + ReadTime + Poll

\* What wait_for_dynamic_content promises of the page it leaves: it waits for a
\* content that stands, but no longer than its deadline allows.
WaitIsHonest == StableWindow /\ ReturnsInTime
=============================================================================
