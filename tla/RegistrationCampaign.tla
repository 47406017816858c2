-------------------------- MODULE RegistrationCampaign --------------------------
(***************************************************************************)
(* The experiment the registration reports are about: the batch loop of    *)
(* experiment/lib/hammer.sh registers more containers at once from batch   *)
(* to batch, and writes what reg-average.py found in the log of the batch  *)
(* to measurement.log.  Beside it are kept what the satellite logs of each *)
(* POST /rhsm/consumers, what the capsules log of /register, and the       *)
(* samples of the monitor.  The level of a batch is the number of its      *)
(* containers.  All clocks agree.                                          *)
(***************************************************************************)
EXTENDS Integers, Sequences, FiniteSets, SequencesExt, FiniteSetsExt

CONSTANTS
    Client,         \* the containers
    RouteOf,        \* [Client -> the host that answers its requests]
    BatchPlans,     \* ways to cut the containers into batches, 0 for none
    Threads,        \* requests Puma works on at a time
    LastSecond      \* bound: the experiment is over in this second

ASSUME CampaignAssumption ==
    /\ IsFiniteSet(Client) /\ BatchPlans \subseteq [Client -> Nat]
    /\ Threads \in Nat /\ LastSecond \in Nat

VARIABLES
    batchOf,    \* which container is in which batch
    batch,      \* the batch under way, or the last one
    phase,      \* "idle", "first tries", "retries", or "over"
    second,
    client,     \* the registration of each container, as its log has it
    sessions,   \* production.log: POST /rhsm/consumers in the order of their starts
    rows        \* measurement.log, in the order of writing

campaignVars == <<batchOf, batch, phase, second, client, sessions, rows>>

Never == -1

CampaignInit ==
    /\ batchOf \in BatchPlans
    /\ batch = 0 /\ phase = "idle" /\ second = 0
    /\ client = [c \in Client |-> [state |-> "new", start |-> Never, end |-> Never]]
    /\ sessions = <<>> /\ rows = <<>>

InBatch(b) == {c \in Client : batchOf[c] = b}

\* The clocks are finer than the seconds of the model: what follows a batch
\* comes later than the end of its last registration.
FirstTriesAreBefore == \A c \in Client : client[c].end < second
AllIsBefore == FirstTriesAreBefore /\ \A s \in Range(sessions) : s.at < second

StartBatch ==
    /\ phase = "idle" /\ InBatch(batch + 1) # {} /\ AllIsBefore
    /\ batch' = batch + 1 /\ phase' = "first tries"
    /\ UNCHANGED <<batchOf, second, client, sessions, rows>>

\* The script is fetched with the first request.
StartClient(c) ==
    /\ phase = "first tries" /\ batchOf[c] = batch /\ client[c].state = "new"
    /\ client' = [client EXCEPT ![c].state = "script", ![c].start = second]
    /\ UNCHANGED <<batchOf, batch, phase, second, sessions, rows>>

NewSession(c, first) == [client |-> c, at |-> second, status |-> 0, ms |-> 0, first |-> first]

Create(c) ==
    /\ client[c].state = "script"
    /\ client' = [client EXCEPT ![c].state = "creating"]
    /\ sessions' = Append(sessions, NewSession(c, TRUE))
    /\ UNCHANGED <<batchOf, batch, phase, second, rows>>

\* The server answers, also when the client is no longer there.
Created(i) ==
    /\ phase # "over" /\ sessions[i].status = 0
    /\ \E status \in {201, 500} :
         sessions' = [sessions EXCEPT ![i].status = status, ![i].ms = second - sessions[i].at]
    /\ UNCHANGED <<batchOf, batch, phase, second, client, rows>>

Mine(c) == CHOOSE s \in Range(sessions) : s.client = c /\ s.first

\* The calls after the creation, up to the end of POST /register.
Pass(c) ==
    /\ client[c].state = "creating"
    /\ Mine(c).status = 201 /\ Mine(c).at < second
    /\ client' = [client EXCEPT ![c].state = "passed", ![c].end = second]
    /\ UNCHANGED <<batchOf, batch, phase, second, sessions, rows>>

\* An error, or a timeout of the client while the server still works.
Fail(c) ==
    /\ client[c].state = "creating" /\ client[c].start < second
    /\ client' = [client EXCEPT ![c].state = "failed", ![c].end = second]
    /\ UNCHANGED <<batchOf, batch, phase, second, sessions, rows>>

\* reg-average.py: the lines of the clients that passed, from the first start to
\* the last end.
RegAverage(passed) ==
    [level |-> Cardinality(InBatch(batch)), passed |-> Cardinality(passed),
     since |-> Min({client[c].start : c \in passed}),
     until |-> Max({client[c].end : c \in passed}),
     total |-> SumFunction([c \in passed |-> client[c].end - client[c].start])]

\* Without a line reg-average.py fails and no row is written.
EndFirstTries ==
    /\ phase = "first tries"
    /\ \A c \in InBatch(batch) : client[c].state \in {"passed", "failed"}
    /\ phase' = "retries"
    /\ LET passed == {c \in InBatch(batch) : client[c].state = "passed"}
       IN rows' = IF passed = {} THEN rows ELSE Append(rows, RegAverage(passed))
    /\ UNCHANGED <<batchOf, batch, second, client, sessions>>

\* What failed is tried again, in a log of its own that is not examined.
Retry(c) ==
    /\ phase = "retries" /\ batchOf[c] = batch /\ client[c].state = "failed"
    /\ FirstTriesAreBefore
    /\ client' = [client EXCEPT ![c].state = "retried"]
    /\ sessions' = Append(sessions, [NewSession(c, FALSE) EXCEPT !.status = 201])
    /\ UNCHANGED <<batchOf, batch, phase, second, rows>>

EndBatch ==
    /\ phase = "retries"
    /\ phase' = "idle"
    /\ UNCHANGED <<batchOf, batch, second, client, sessions, rows>>

\* The sosreports are taken when the loop is over.
EndCampaign ==
    /\ phase = "idle" /\ InBatch(batch + 1) = {}
    /\ phase' = "over"
    /\ UNCHANGED <<batchOf, batch, second, client, sessions, rows>>

CampaignSecond ==
    /\ phase # "over" /\ second < LastSecond
    /\ second' = second + 1
    /\ UNCHANGED <<batchOf, batch, phase, client, sessions, rows>>

CampaignNext ==
    \/ StartBatch \/ EndFirstTries \/ EndBatch \/ EndCampaign \/ CampaignSecond
    \/ \E c \in Client : StartClient(c) \/ Create(c) \/ Pass(c) \/ Fail(c) \/ Retry(c)
    \/ \E i \in DOMAIN sessions : Created(i)

CampaignSpec == CampaignInit /\ [][CampaignNext]_campaignVars

-----------------------------------------------------------------------------
\* proxy.log: the capsule of a client sees its GET /register, and the POST,
\* which ends with the registration.
ProxyOf(capsule) ==
    LET mine == {c \in Client : RouteOf[c] = capsule /\ client[c].start # Never}
    IN {[method |-> "GET", client |-> c, at |-> client[c].start, took |-> 0] : c \in mine}
       \cup {[method |-> "POST", client |-> c, at |-> Mine(c).at + Mine(c).ms,
              took |-> client[c].end - Mine(c).at - Mine(c).ms] :
                c \in {d \in mine : client[d].state = "passed"}}

\* puma.log: at the end of a second, the requests that wait and the ones done.
Answered(s) == s.status # 0
Done(t) == {i \in DOMAIN sessions : Answered(sessions[i]) /\ sessions[i].at + sessions[i].ms <= t}
Waiting(t) == Cardinality({i \in DOMAIN sessions : sessions[i].at <= t} \ Done(t)) - Threads
PumaLog == [t \in 1..second |->
    [at |-> t - 1, backlog |-> Max({0, Waiting(t - 1)}), requests |-> Cardinality(Done(t - 1))]]
=============================================================================
