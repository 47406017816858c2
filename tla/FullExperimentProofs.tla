------------------------ MODULE FullExperimentProofs ------------------------
(***************************************************************************)
(* The whole experiment, for any products, releases and failures, any      *)
(* browsers and any roles.                                                 *)
(***************************************************************************)
EXTENDS FullExperiment, TLAPS

Place == {"lces", "manifest", "products", "sync", "views", "publish", "composites",
          "publish_composites", "promote", "push", "last_wait", "keys", "bench",
          "incremental", "done", "cleanup", "cv-delete", "product-delete", "clean"}
Loop == {"lces", "manifest", "products", "sync", "views", "publish", "composites",
         "publish_composites", "promote", "push"}
\* Before the views of this round are published, and where the content is taken away.
Unpublished == {"lces", "manifest", "products", "sync", "views", "publish"}
Removal == {"cv-delete", "product-delete", "clean"}

Version == (SUBSET View) \cup {NoVersion}

PipelineTypeOK ==
    /\ capsules \in BOOLEAN
    /\ pc \in Place
    /\ round \in Round
    /\ lces \in BOOLEAN /\ manifest \in BOOLEAN
    /\ repos \subseteq View /\ synced \subseteq View
    /\ views \subseteq View \cup BenchView
    /\ published \in [View \cup BenchView -> {"none", "hollow", "filled"}]
    /\ components \in [Rel -> SUBSET View]
    /\ version \in [Rel -> Version]
    /\ promoted \in [Rel -> Version]
    /\ capsule \in [Rel -> Version]
    /\ push \in [Round -> {"none", "running", "ok", "failed"}]
    /\ pending \in Nat
    /\ forked \in [Round -> [Rel -> Version]]
    /\ carried \in [Round -> [Rel -> Version]]
    /\ keys \subseteq Rel
    /\ incremental \in BOOLEAN
    /\ left \subseteq Composite \cup View \cup BenchView
    /\ failures \in Nat
    /\ flawed \in BOOLEAN

\* The rounds run one after the other, and each push is forked by its own.
RoundsInOrder ==
    /\ pc \in {"lces", "manifest"} => round = 1
    /\ pc \notin Loop => round = N
    /\ pending = IF ~capsules THEN 0 ELSE IF pc \in Loop THEN round - 1 ELSE N
    /\ ~capsules => \A k \in Round : push[k] = "none"
    /\ pc \in Loop => \A k \in Round : round <= k => push[k] = "none"
    /\ \A k \in Round : push[k] = "running" => k = pending /\ pc \in Loop \cup {"last_wait"}
    /\ \A k \in Round : push[k] = "none" => forked[k] = Nothing /\ carried[k] = Nothing

\* No view is published before its round.
PublishedInRound ==
    \A j \in Round : \A v \in Views(j) :
        published[v] # "none" => j < round \/ (j = round /\ pc \notin Unpublished)

\* What is further along the pipeline was there before: a composite holds views
\* so far, its versions what was filled of them, and so on to the forks.
Flow ==
    /\ \A r \in Rel : components[r] \subseteq Components(round, r)
    /\ pc \notin Removal =>
         \A r \in Rel : version[r] # NoVersion => version[r] \subseteq Contents(r)
    /\ \A r \in Rel : promoted[r] # NoVersion =>
         version[r] # NoVersion /\ promoted[r] \subseteq version[r]
    /\ \A r \in Rel : capsule[r] # NoVersion => promoted[r] # NoVersion
    /\ \A k \in Round, r \in Rel : forked[k][r] # NoVersion =>
         promoted[r] # NoVersion /\ forked[k][r] \subseteq promoted[r]

FilledSoFar(r) == {v \in Components(round, r) : published[v] = "filled"}

\* Where a round without a flaw is.
RoundIsWhole ==
    ~flawed => \A r \in Composites(round) :
        /\ pc \in {"publish_composites", "promote"} => components[r] = Components(round, r)
        /\ pc = "promote" => version[r] = FilledSoFar(r)
        /\ pc \in {"push", "last_wait", "keys", "bench"} => promoted[r] = FilledSoFar(r)

\* What the last push has to bring.
LastPush ==
    /\ \A k \in Round : push[k] = "ok" =>
         \A r \in Rel : forked[k][r] # NoVersion => carried[k][r] # NoVersion
    /\ pc \notin Loop /\ capsules =>
         /\ forked[N] = promoted
         /\ \A r \in Rel : carried[N][r] # NoVersion => capsule[r] = promoted[r]

\* A cleanup that nothing failed in so far.
NothingLeftOut ==
    failures = 0 =>
      /\ pc \in Removal => keys = {}
      /\ pc = "cv-delete" =>
           /\ views \subseteq left
           /\ \A r \in Rel : components[r] # {} => <<"CCV", r>> \in left
      /\ pc \in {"product-delete", "clean"} => views = {} /\ \A r \in Rel : components[r] = {}
      /\ pc = "clean" /\ ~incremental => repos = {}

PipelineInv ==
    /\ PipelineTypeOK /\ RoundsInOrder /\ PublishedInRound /\ Flow /\ PushCarries
    /\ RoundIsWhole /\ LastPush /\ NothingLeftOut

-----------------------------------------------------------------------------
(***************************************************************************)
(* The views of the rounds.                                                *)
(***************************************************************************)
LEMMA RoundFacts ==
    /\ N \in Nat /\ N > 0 /\ Round = 1 .. N /\ N \in Round /\ 1 \in Round
    /\ \A i \in Round : Products[i] # "Bench" /\ Products[i] # "CCV"
    /\ \A i, j \in Round : i # j => Products[i] # Products[j]
  <1>1. N \in Nat /\ N > 0 /\ Round = 1 .. N
    BY ContentAssumption DEF N, Round
  <1> QED
    BY <1>1, ContentAssumption

\* Every view belongs to one round, and is no view of create_bench_cvs_fam.
LEMMA ViewsOfRounds ==
    /\ \A j \in Round : Views(j) \subseteq View
    /\ \A i, j \in Round : \A v \in Views(i) \cap Views(j) : i = j
    /\ View \cap BenchView = {} /\ Composite \cap (View \cup BenchView) = {}
  <1>1. \A j \in Round : \A v \in Views(j) : v[1] = Products[j]
    BY DEF Views, ViewOf
  <1>2. \A v \in View : \E j \in Round : v \in Views(j)
    BY DEF View
  <1>3. \A v \in View : v[1] # "Bench" /\ v[1] # "CCV"
    BY <1>1, <1>2, RoundFacts
  <1>4. \A v \in BenchView : v[1] = "Bench"
    BY DEF BenchView
  <1>5. \A v \in Composite : v[1] = "CCV"
    BY DEF Composite
  <1>6. \A j \in Round : Views(j) \subseteq View
    BY DEF View
  <1>7. \A i, j \in Round : \A v \in Views(i) \cap Views(j) : i = j
    BY <1>1, RoundFacts
  <1>8. View \cap BenchView = {} /\ Composite \cap (View \cup BenchView) = {}
    BY <1>3, <1>4, <1>5
  <1> QED
    BY <1>6, <1>7, <1>8

\* The components of a composite grow with the rounds.
LEMMA ComponentsGrow ==
    ASSUME NEW k \in Round, NEW r \in Rel
    PROVE  /\ Components(k, r) \subseteq View
           /\ \A j \in Round : k <= j => Components(k, r) \subseteq Components(j, r)
           /\ \A v \in Components(k, r) : \E i \in Round : i <= k /\ v \in Views(i)
  <1>1. \A v \in Components(k, r) : \E i \in Round : i <= k /\ v \in Views(i)
    <2> TAKE v \in Components(k, r)
    <2>1. PICK i \in 1 .. k : Covers(Products[i], r) /\ v = ViewOf(Products[i], r)
      BY DEF Components
    <2>2. i \in Round /\ i <= k
      BY RoundFacts
    <2> QED
      BY <2>1, <2>2 DEF Views
  <1>2. \A j \in Round : k <= j => 1 .. k \subseteq 1 .. j
    BY RoundFacts
  <1>3. \A j \in Round : k <= j => Components(k, r) \subseteq Components(j, r)
    BY <1>2 DEF Components
  <1> QED
    BY <1>1, <1>3, ViewsOfRounds
-----------------------------------------------------------------------------
(***************************************************************************)
(* A step of the shell or of a push, the browser left aside.               *)
(***************************************************************************)
PipelineStep == Provide \/ Cleanup \/ StartCleanup

LEMMA PlayFails == ASSUME failures \in Nat, NEW able, NEW done, Play(able, done)
                   PROVE  /\ done \subseteq able /\ failures' \in Nat
                          /\ failures' = 0 => failures = 0 /\ done = able
  BY DEF Play

LEMMA PipelineInitType == Init => PipelineTypeOK
  <1> SUFFICES ASSUME Init PROVE PipelineTypeOK
    OBVIOUS
  <1>1. Nothing \in [Rel -> Version]
    <2>1. NoVersion \in Version
      BY DEF Version
    <2> QED
      BY <2>1 DEF Nothing
  <1>2. /\ version \in [Rel -> Version] /\ promoted \in [Rel -> Version] /\ capsule \in [Rel -> Version]
        /\ forked \in [Round -> [Rel -> Version]] /\ carried \in [Round -> [Rel -> Version]]
    BY <1>1 DEF Init
  <1>3. /\ published \in [View \cup BenchView -> {"none", "hollow", "filled"}]
        /\ components \in [Rel -> SUBSET View]
        /\ push \in [Round -> {"none", "running", "ok", "failed"}]
    BY DEF Init
  <1>4. pc \in Place /\ round \in Round /\ pending \in Nat /\ failures \in Nat
    BY RoundFacts DEF Init, Place
  <1> QED
    BY <1>2, <1>3, <1>4 DEF Init, PipelineTypeOK

\* The plays that bring content, one after the other, keep the types.
LEMMA ProvideType ==
    ASSUME PipelineTypeOK,
           \/ CreateLces \/ PrepareRhContent \/ FetchProduct
           \/ CcvCreate \/ CcvPublish \/ CcvPromote
    PROVE  PipelineTypeOK'
  <1> USE DEF PipelineTypeOK, Place, Moves, setup, content, pushes, rest
  <1>1. CASE CreateLces
    BY <1>1, PlayFails DEF CreateLces
  <1>2. CASE PrepareRhContent
    BY <1>2, PlayFails DEF PrepareRhContent
  <1>3. CASE ProductCreate
    <2> DEFINE able == IF Products[round] = Rhel /\ ~manifest THEN {} ELSE Views(round)
    <2>1. PICK done \in SUBSET able : Play(able, done) /\ repos' = repos \cup done
      BY <1>3 DEF ProductCreate
    <2>2. able \subseteq View
      BY ViewsOfRounds
    <2>3. failures' \in Nat
      BY <2>1, PlayFails
    <2>4. repos' \subseteq View
      BY <2>1, <2>2
    <2> QED
      BY <1>3, <2>3, <2>4 DEF ProductCreate
  <1>4. CASE ProductSync
    BY <1>4, PlayFails DEF ProductSync
  <1>5. CASE CvCreate
    BY <1>5, PlayFails, ViewsOfRounds DEF CvCreate
  <1>6. CASE CvPublish
    BY <1>6, PlayFails DEF CvPublish
  <1>7. CASE CcvCreate
    BY <1>7, PlayFails, ComponentsGrow DEF CcvCreate
  <1>8. CASE CcvPublish
    <2>1. \A r \in Rel : Contents(r) \in Version
      BY DEF Contents, Version
    <2> QED
      BY <1>8, <2>1, PlayFails DEF CcvPublish
  <1>9. CASE CcvPromote
    BY <1>9, PlayFails DEF CcvPromote
  <1> QED
    BY <1>1, <1>2, <1>3, <1>4, <1>5, <1>6, <1>7, <1>8, <1>9 DEF FetchProduct

LEMMA PushType ==
    ASSUME PipelineTypeOK,
           PushProduct \/ NoPush \/ LastWait \/ AkCreate \/ Background
    PROVE  PipelineTypeOK'
  <1> USE DEF PipelineTypeOK, Place, Moves, setup, content, pushes, rest
  <1>1. ASSUME EndRound PROVE round' \in Round /\ pc' \in Place
    BY <1>1, RoundFacts DEF EndRound
  <1>2. CASE PushProduct
    BY <1>1, <1>2, RoundFacts DEF PushProduct
  <1>3. CASE NoPush
    BY <1>1, <1>3 DEF NoPush
  <1>4. CASE LastWait
    BY <1>4 DEF LastWait
  <1>5. CASE AkCreate
    BY <1>5, PlayFails DEF AkCreate, Composites
  <1>6. ASSUME NEW k \in Round, PushEnds(k) PROVE PipelineTypeOK'
    <2>1. PICK ending \in {"ok", "failed"} : push' = [push EXCEPT ![k] = ending]
      BY <1>6 DEF PushEnds
    <2>2. failures' = failures \/ failures' = failures + 1
      BY <1>6 DEF PushEnds
    <2>3. push' \in [Round -> {"none", "running", "ok", "failed"}] /\ failures' \in Nat
      BY <2>1, <2>2
    <2> QED
      BY <1>6, <2>3 DEF PushEnds
  <1>7. ASSUME NEW k \in Round, NEW r \in Rel, SyncCapsule(k, r) PROVE PipelineTypeOK'
    BY <1>7 DEF SyncCapsule
  <1> QED
    BY <1>2, <1>3, <1>4, <1>5, <1>6, <1>7 DEF Background

LEMMA RemovalType ==
    ASSUME PipelineTypeOK,
           CreateBenchCvs \/ IncrementalCvUpdates \/ StartCleanup \/ Cleanup \/ UNCHANGED vars
    PROVE  PipelineTypeOK'
  <1> USE DEF PipelineTypeOK, Place, Moves, setup, content, pushes, rest
  <1>1. CASE CreateBenchCvs
    BY <1>1, PlayFails DEF CreateBenchCvs
  <1>2. CASE IncrementalCvUpdates
    BY <1>2 DEF IncrementalCvUpdates
  <1>3. CASE StartCleanup
    BY <1>3 DEF StartCleanup
  <1>4. CASE AkDelete
    BY <1>4, PlayFails DEF AkDelete, Composites, Composite
  <1>5. CASE CvDelete
    BY <1>5 DEF CvDelete, Deleted
  <1>6. CASE CvsDeleted
    BY <1>6 DEF CvsDeleted
  <1>7. CASE ProductDelete
    BY <1>7, PlayFails DEF ProductDelete
  <1>8. CASE UNCHANGED vars
    BY <1>8 DEF vars
  <1> QED
    BY <1>1, <1>2, <1>3, <1>4, <1>5, <1>6, <1>7, <1>8 DEF Cleanup

LEMMA StepType == ASSUME PipelineTypeOK, PipelineStep \/ UNCHANGED vars PROVE PipelineTypeOK'
  BY ProvideType, PushType, RemovalType DEF PipelineStep, Provide, GetBaseContent
-----------------------------------------------------------------------------
(***************************************************************************)
(* The rounds and their pushes.                                            *)
(***************************************************************************)

\* Where the shell moves on within the loop, or behind it.
LEMMA OrderKept ==
    ASSUME RoundsInOrder,
           UNCHANGED <<round, capsules, push, pending, forked, carried>>,
           pc' \in Loop <=> pc \in Loop,
           pc' \in {"lces", "manifest"} => pc \in {"lces", "manifest"},
           \A k \in Round : push[k] = "running" => pc' \in Loop \cup {"last_wait"}
    PROVE  RoundsInOrder'
  BY DEF RoundsInOrder

LEMMA StepOrder ==
    ASSUME PipelineTypeOK, RoundsInOrder, PipelineStep PROVE RoundsInOrder'
  <1> USE DEF Loop, Moves, setup, content, pushes, rest
  <1>1. CASE \/ CreateLces \/ PrepareRhContent \/ ProductCreate \/ ProductSync \/ CvCreate
             \/ CvPublish \/ CcvCreate \/ CcvPublish \/ CcvPromote
    BY <1>1, OrderKept
    DEF CreateLces, PrepareRhContent, ProductCreate, ProductSync, CvCreate, CvPublish,
        CcvCreate, CcvPublish, CcvPromote
  <1>2. CASE LastWait
    <2>1. \A k \in Round : push[k] # "running"
      BY <1>2, RoundFacts DEF LastWait, PushOver, RoundsInOrder, PipelineTypeOK
    <2> QED
      BY <1>2, <2>1, OrderKept DEF LastWait
  <1>3. CASE \/ AkCreate \/ CreateBenchCvs \/ IncrementalCvUpdates \/ StartCleanup
             \/ AkDelete \/ CvDelete \/ CvsDeleted \/ ProductDelete
    <2>1. \A k \in Round : push[k] # "running"
      BY <1>3
      DEF RoundsInOrder, AkCreate, CreateBenchCvs, IncrementalCvUpdates, StartCleanup,
          AkDelete, CvDelete, CvsDeleted, ProductDelete
    <2> QED
      BY <1>3, <2>1, OrderKept
      DEF AkCreate, CreateBenchCvs, IncrementalCvUpdates, StartCleanup,
          AkDelete, CvDelete, CvsDeleted, ProductDelete
  <1>4. CASE PushProduct
    <2>1. /\ pc = "push" /\ capsules /\ capsules' = capsules
          /\ push' = [push EXCEPT ![round] = "running"] /\ pending' = round
          /\ forked' = [forked EXCEPT ![round] = promoted] /\ carried' = carried
          /\ \/ round < N /\ round' = round + 1 /\ pc' = "products"
             \/ round = N /\ round' = round /\ pc' = "last_wait"
      BY <1>4, RoundFacts DEF PushProduct, EndRound, PipelineTypeOK
    <2>2. \A k \in Round : push[k] # "running"
      BY <1>4, RoundFacts DEF PushProduct, PushOver, RoundsInOrder, PipelineTypeOK
    <2>3. round \in Round /\ push[round] = "none" /\ push'[round] = "running"
          /\ \A k \in Round \ {round} : push'[k] = push[k] /\ forked'[k] = forked[k]
      BY <2>1, RoundFacts DEF RoundsInOrder, PipelineTypeOK
    <2>4. \A k \in Round : round' <= k /\ pc' \in Loop => push'[k] = "none"
      BY <2>1, <2>3, RoundFacts DEF RoundsInOrder, PipelineTypeOK
    <2>5. /\ pc' \notin Loop => round' = N
          /\ pending' = IF ~capsules' THEN 0 ELSE IF pc' \in Loop THEN round' - 1 ELSE N
      BY <2>1, <2>3, RoundFacts
    <2>6. \A k \in Round : push'[k] = "running" => k = pending' /\ pc' \in Loop \cup {"last_wait"}
      BY <2>1, <2>2, <2>3
    <2>7. \A k \in Round : push'[k] = "none" => forked'[k] = Nothing /\ carried'[k] = Nothing
      BY <2>1, <2>3 DEF RoundsInOrder
    <2> QED
      BY <2>1, <2>4, <2>5, <2>6, <2>7 DEF RoundsInOrder, Nothing
  <1>5. CASE NoPush
    <2>1. /\ pc = "push" /\ ~capsules /\ UNCHANGED <<capsules, push, pending, forked, carried>>
          /\ \/ round < N /\ round' = round + 1 /\ pc' = "products"
             \/ round = N /\ round' = round /\ pc' = "last_wait"
      BY <1>5, RoundFacts DEF NoPush, EndRound, PipelineTypeOK
    <2> QED
      BY <2>1 DEF RoundsInOrder, Nothing
  <1>6. ASSUME NEW k \in Round, PushEnds(k) PROVE RoundsInOrder'
    <2>1. PICK ending \in {"ok", "failed"} : push' = [push EXCEPT ![k] = ending]
      BY <1>6 DEF PushEnds
    <2>2. /\ UNCHANGED <<pc, round, capsules, pending, forked, carried>> /\ push[k] = "running"
      BY <1>6 DEF PushEnds
    <2>3. push'[k] = ending /\ \A j \in Round \ {k} : push'[j] = push[j]
      BY <2>1 DEF PipelineTypeOK
    <2>4. capsules /\ pc \in Loop => k < round
      BY <2>2, RoundFacts DEF RoundsInOrder, PipelineTypeOK
    <2> QED
      BY <2>2, <2>3, <2>4 DEF RoundsInOrder, Nothing
  <1>7. ASSUME NEW k \in Round, NEW r \in Rel, SyncCapsule(k, r) PROVE RoundsInOrder'
    <2>1. /\ UNCHANGED <<pc, round, capsules, push, pending, forked>> /\ push[k] = "running"
          /\ \A j \in Round \ {k} : carried'[j] = carried[j]
      BY <1>7 DEF SyncCapsule, PipelineTypeOK
    <2> QED
      BY <2>1 DEF RoundsInOrder, Nothing
  <1> QED
    BY <1>1, <1>2, <1>3, <1>4, <1>5, <1>6, <1>7
    DEF PipelineStep, Provide, GetBaseContent, FetchProduct, Background, Cleanup

-----------------------------------------------------------------------------
(***************************************************************************)
(* What is published, and how it flows.                                    *)
(***************************************************************************)
LEMMA StepPublished ==
    ASSUME PipelineTypeOK, RoundsInOrder, PublishedInRound, PipelineStep
    PROVE  PublishedInRound'
  <1> USE DEF Unpublished, Moves, setup, content, pushes, rest
  <1>1. ASSUME UNCHANGED <<published, round>>, pc' \in Unpublished => pc \in Unpublished
        PROVE  PublishedInRound'
    BY <1>1 DEF PublishedInRound
  <1>2. CASE \/ CreateLces \/ PrepareRhContent \/ ProductCreate \/ ProductSync \/ CvCreate
             \/ CcvCreate \/ CcvPublish \/ CcvPromote \/ LastWait \/ AkCreate
             \/ IncrementalCvUpdates \/ StartCleanup \/ AkDelete \/ CvsDeleted \/ ProductDelete
    BY <1>1, <1>2
    DEF CreateLces, PrepareRhContent, ProductCreate, ProductSync, CvCreate,
        CcvCreate, CcvPublish, CcvPromote, LastWait, AkCreate, IncrementalCvUpdates, StartCleanup,
        AkDelete, CvsDeleted, ProductDelete
  <1>3. CASE CvDelete
    BY <1>1, <1>3 DEF CvDelete
  <1>4. CASE Background
    BY <1>1, <1>4 DEF Background, PushEnds, SyncCapsule
  <1>5. CASE CvPublish
    <2>1. /\ pc = "publish" /\ pc' = "composites" /\ round' = round
          /\ \A v \in View : published'[v] # published[v] => v \in Views(round)
      BY <1>5 DEF CvPublish, PipelineTypeOK
    <2> QED
      BY <2>1, ViewsOfRounds DEF PublishedInRound, PipelineTypeOK
  <1>6. CASE PushProduct \/ NoPush
    <2>1. /\ pc = "push" /\ UNCHANGED published
          /\ (round' > round) \/ (round' = round /\ pc' = "last_wait")
      BY <1>6, RoundFacts DEF PushProduct, NoPush, EndRound, PipelineTypeOK
    <2>2. \A j \in Round : (j <= round /\ round' > round) => j < round'
      BY RoundFacts, StepType DEF PipelineTypeOK
    <2> QED
      BY <2>1, <2>2, RoundFacts DEF PublishedInRound, PipelineTypeOK
  <1>7. CASE CreateBenchCvs
    <2>1. /\ pc = "bench" /\ pc' = "incremental" /\ round' = round
          /\ \A v \in View : published'[v] = published[v]
      BY <1>7, ViewsOfRounds DEF CreateBenchCvs, PipelineTypeOK
    <2> QED
      BY <2>1, ViewsOfRounds DEF PublishedInRound
  <1> QED
    BY <1>2, <1>3, <1>4, <1>5, <1>6, <1>7
    DEF PipelineStep, Provide, GetBaseContent, FetchProduct, Cleanup

\* What is published of a composite, where only these change.
LEMMA ContentsGrow ==
    ASSUME UNCHANGED components,
           \A v \in View : published[v] = "filled" => published'[v] = "filled",
           PipelineTypeOK, NEW r \in Rel
    PROVE  Contents(r) \subseteq Contents(r)'
  BY DEF Contents, PipelineTypeOK

LEMMA ContentsAreNoMark ==
    ASSUME PipelineTypeOK, NEW r \in Rel
    PROVE  Contents(r) # NoVersion /\ Contents(r) \subseteq View
  <1>1. Contents(r) \in SUBSET View
    BY DEF Contents, PipelineTypeOK
  <1> QED
    BY <1>1, NoVersionAssumption

\* Filled is final, for the views of the products.
LEMMA FilledStays ==
    ASSUME PipelineTypeOK, RoundsInOrder, PublishedInRound, PipelineStep
    PROVE  \A v \in View : published[v] = "filled" => published'[v] = "filled"
  <1> USE DEF Moves, setup, content, pushes, rest
  <1>1. CASE CvPublish
    <2>1. \A v \in Views(round) : published[v] = "none"
      BY <1>1, RoundFacts DEF CvPublish, PublishedInRound, Unpublished, PipelineTypeOK
    <2>2. \A v \in View : published'[v] # published[v] => v \in Views(round)
      BY <1>1 DEF CvPublish, PipelineTypeOK
    <2> QED
      BY <2>1, <2>2
  <1>2. CASE CreateBenchCvs
    BY <1>2, ViewsOfRounds DEF CreateBenchCvs, PipelineTypeOK
  <1>3. CASE ~CvPublish /\ ~CreateBenchCvs
    <2>1. UNCHANGED published
      BY <1>3
      DEF PipelineStep, Provide, GetBaseContent, FetchProduct, Background, Cleanup,
          CreateLces, PrepareRhContent, ProductCreate, ProductSync, CvCreate, CcvCreate,
          CcvPublish, CcvPromote, PushProduct, NoPush, LastWait, AkCreate, PushEnds, SyncCapsule,
          IncrementalCvUpdates, StartCleanup, AkDelete, CvDelete, CvsDeleted, ProductDelete
    <2> QED
      BY <2>1
  <1> QED
    BY <1>1, <1>2, <1>3

LEMMA StepFlow ==
    ASSUME PipelineTypeOK, RoundsInOrder, PublishedInRound, Flow, PipelineStep
    PROVE  Flow'
  <1> USE DEF Moves, setup, content, pushes, rest, Removal
  \* Nothing of the flow itself changes.
  <1>1. ASSUME UNCHANGED <<components, version, promoted, capsule, forked>>,
               round' \in Round /\ round <= round', pc \in Removal => pc' \in Removal
        PROVE  Flow'
    <2>1. \A r \in Rel : components[r] \subseteq Components(round', r)
      BY <1>1, ComponentsGrow DEF Flow, PipelineTypeOK
    <2>2. \A r \in Rel : Contents(r) \subseteq Contents(r)'
      BY <1>1, FilledStays, ContentsGrow
    <2>3. \A r \in Rel : (components[r] \subseteq Components(round, r))'
      BY <1>1, <2>1 DEF Components
    <2>4. pc' \notin Removal => \A r \in Rel : version[r] # NoVersion => version[r] \subseteq Contents(r)'
      BY <1>1, <2>2 DEF Flow
    <2> QED
      BY <1>1, <2>3, <2>4 DEF Flow
  <1>2. round' \in Round
    BY StepType DEF PipelineTypeOK
  <1>3. CASE \/ CreateLces \/ PrepareRhContent \/ ProductCreate \/ ProductSync \/ CvCreate \/ CvPublish
             \/ LastWait \/ AkCreate \/ CreateBenchCvs \/ IncrementalCvUpdates \/ StartCleanup
             \/ AkDelete \/ CvsDeleted \/ ProductDelete
    <2>1. UNCHANGED round
      BY <1>3
      DEF CreateLces, PrepareRhContent, ProductCreate, ProductSync, CvCreate, CvPublish,
          LastWait, AkCreate, CreateBenchCvs, IncrementalCvUpdates, StartCleanup,
          AkDelete, CvsDeleted, ProductDelete
    <2>2. UNCHANGED <<components, version, promoted, capsule, forked>> /\ (pc \in Removal => pc' \in Removal)
      BY <1>3
      DEF CreateLces, PrepareRhContent, ProductCreate, ProductSync, CvCreate, CvPublish,
          LastWait, AkCreate, CreateBenchCvs, IncrementalCvUpdates, StartCleanup,
          AkDelete, CvsDeleted, ProductDelete
    <2>3. round <= round
      BY RoundFacts DEF PipelineTypeOK
    <2> QED
      BY <1>1, <1>2, <2>1, <2>2, <2>3
  <1>4. CASE NoPush
    BY <1>1, <1>2, <1>4, RoundFacts DEF NoPush, EndRound, PipelineTypeOK
  <1>5. ASSUME NEW k \in Round, PushEnds(k) PROVE Flow'
    BY <1>1, <1>2, <1>5, RoundFacts DEF PushEnds, PipelineTypeOK
  <1>6. CASE CcvCreate
    <2>1. /\ UNCHANGED <<round, published, version, promoted, capsule, forked>> /\ pc' \notin Removal
          /\ pc \notin Removal
          /\ \A r \in Rel : components'[r] = components[r] \/ components'[r] = Components(round, r)
      BY <1>6 DEF CcvCreate
    <2>2. \A r \in Rel : components[r] \subseteq components'[r] /\ components'[r] \subseteq Components(round, r)
      BY <2>1 DEF Flow
    <2>3. \A r \in Rel : Contents(r) \subseteq Contents(r)'
      BY <2>1, <2>2 DEF Contents
    <2>4. \A r \in Rel : (components[r] \subseteq Components(round, r))'
      BY <2>1, <2>2 DEF Components
    <2>5. \A r \in Rel : version[r] # NoVersion => version[r] \subseteq Contents(r)'
      BY <2>1, <2>3 DEF Flow
    <2> QED
      BY <2>1, <2>4, <2>5 DEF Flow
  <1>7. CASE CcvPublish
    <2>1. /\ UNCHANGED <<round, published, components, promoted, capsule, forked>> /\ pc' \notin Removal
          /\ pc \notin Removal
          /\ \A r \in Rel : version'[r] = version[r] \/ version'[r] = Contents(r)
      BY <1>7 DEF CcvPublish
    <2>2. \A r \in Rel : Contents(r)' = Contents(r)
      BY <2>1 DEF Contents
    <2>3. \A r \in Rel : (version[r] # NoVersion => version[r] \subseteq Contents(r))'
      BY <2>1, <2>2 DEF Flow
    <2>4. \A r \in Rel : promoted[r] # NoVersion => version'[r] # NoVersion /\ promoted[r] \subseteq version'[r]
      BY <2>1, ContentsAreNoMark DEF Flow
    <2>5. \A r \in Rel : (components[r] \subseteq Components(round, r))'
      BY <2>1 DEF Flow, Components
    <2> QED
      BY <2>1, <2>3, <2>4, <2>5 DEF Flow
  <1>8. CASE CcvPromote
    <2>1. /\ UNCHANGED <<round, published, components, version, capsule, forked>> /\ pc' \notin Removal
          /\ pc \notin Removal
          /\ \A r \in Rel : promoted'[r] = promoted[r] \/ (promoted'[r] = version[r] /\ version[r] # NoVersion)
      BY <1>8 DEF CcvPromote
    <2>2. \A r \in Rel : promoted'[r] # NoVersion => version[r] # NoVersion /\ promoted'[r] \subseteq version[r]
      BY <2>1 DEF Flow
    <2>3. \A r \in Rel : promoted[r] # NoVersion => promoted'[r] # NoVersion /\ promoted[r] \subseteq promoted'[r]
      BY <2>1 DEF Flow
    <2>4. \A r \in Rel : (components[r] \subseteq Components(round, r))'
      BY <2>1 DEF Flow, Components
    <2>5. \A r \in Rel : (version[r] # NoVersion => version[r] \subseteq Contents(r))'
      BY <2>1 DEF Flow, Contents
    <2>6. \A k \in Round, r \in Rel : forked[k][r] # NoVersion =>
            promoted'[r] # NoVersion /\ forked[k][r] \subseteq promoted'[r]
      BY <2>3 DEF Flow
    <2> QED
      BY <2>1, <2>2, <2>3, <2>4, <2>5, <2>6 DEF Flow
  <1>9. CASE PushProduct
    <2>1. /\ UNCHANGED <<published, components, version, promoted, capsule>> /\ pc' \notin Removal
          /\ pc \notin Removal /\ round <= round'
          /\ \A k \in Round : forked'[k] = forked[k] \/ forked'[k] = promoted
      BY <1>9, RoundFacts DEF PushProduct, EndRound, PipelineTypeOK
    <2>2. \A r \in Rel : components[r] \subseteq Components(round', r)
      BY <2>1, <1>2, ComponentsGrow DEF Flow, PipelineTypeOK
    <2>3. \A r \in Rel : (components[r] \subseteq Components(round, r))'
      BY <2>1, <2>2 DEF Components
    <2>4. \A r \in Rel : (version[r] # NoVersion => version[r] \subseteq Contents(r))'
      BY <2>1 DEF Flow, Contents
    <2>5. \A k \in Round, r \in Rel : forked'[k][r] # NoVersion =>
            promoted[r] # NoVersion /\ forked'[k][r] \subseteq promoted[r]
      BY <2>1 DEF Flow
    <2> QED
      BY <2>1, <2>3, <2>4, <2>5 DEF Flow
  <1>10. ASSUME NEW k \in Round, NEW r \in Rel, SyncCapsule(k, r) PROVE Flow'
    <2>1. /\ UNCHANGED <<pc, round, published, components, version, promoted, forked>>
          /\ \A s \in Rel : capsule'[s] = capsule[s] \/ (capsule'[s] = promoted[s] /\ promoted[s] # NoVersion)
      BY <1>10 DEF SyncCapsule, PipelineTypeOK
    <2> QED
      BY <2>1 DEF Flow, Contents, Components
  <1>11. CASE CvDelete
    <2>1. /\ UNCHANGED <<round, version, promoted, capsule, forked>> /\ pc' \in Removal
          /\ \A r \in Rel : components'[r] = components[r] \/ components'[r] = {}
      BY <1>11 DEF CvDelete, Deleted, PipelineTypeOK
    <2>2. \A r \in Rel : (components[r] \subseteq Components(round, r))'
      BY <2>1 DEF Flow, Components
    <2> QED
      BY <2>1, <2>2 DEF Flow
  <1> QED
    BY <1>3, <1>4, <1>5, <1>6, <1>7, <1>8, <1>9, <1>10, <1>11
    DEF PipelineStep, Provide, GetBaseContent, FetchProduct, Background, Cleanup

-----------------------------------------------------------------------------
(***************************************************************************)
(* What a push carries.                                                    *)
(***************************************************************************)

\* What is promoted is of the rounds so far.
LEMMA PromotedSoFar ==
    ASSUME PipelineTypeOK, Flow, pc \notin Removal, NEW r \in Rel, promoted[r] # NoVersion
    PROVE  promoted[r] \subseteq Components(round, r)
  BY DEF Flow, Contents, PipelineTypeOK

LEMMA StepCarries ==
    ASSUME PipelineTypeOK, RoundsInOrder, Flow, PushCarries, PipelineStep
    PROVE  PushCarries'
  <1> USE DEF Moves, setup, content, pushes, rest, Removal
  <1>1. ASSUME UNCHANGED <<forked, carried>> PROVE PushCarries'
    BY <1>1 DEF PushCarries, Components
  <1>2. CASE PushProduct
    <2>1. /\ UNCHANGED carried /\ \A k \in Round \ {round} : forked'[k] = forked[k]
          /\ round \in Round /\ pc = "push"
      BY <1>2 DEF PushProduct, PipelineTypeOK
    <2>2. push[round] = "none"
      BY <2>1, RoundFacts DEF RoundsInOrder, Loop
    <2>3. \A r \in Rel : carried[round][r] = NoVersion
      BY <2>1, <2>2 DEF RoundsInOrder, Nothing
    <2> QED
      BY <2>1, <2>3 DEF PushCarries, Components
  <1>3. ASSUME NEW k \in Round, NEW r \in Rel, SyncCapsule(k, r) PROVE PushCarries'
    <2> DEFINE last == IF k < N THEN k + 1 ELSE N
    <2>1. /\ UNCHANGED forked /\ push[k] = "running" /\ promoted[r] # NoVersion
          /\ carried'[k][r] = promoted[r]
          /\ \A i \in Round, q \in Rel : <<i, q>> # <<k, r>> => carried'[i][q] = carried[i][q]
      BY <1>3 DEF SyncCapsule, PipelineTypeOK
    <2>2. k = pending /\ pc \in Loop \cup {"last_wait"} /\ capsules
      BY <2>1 DEF RoundsInOrder
    <2>3. pc \notin Removal /\ round \in Round
      BY <2>2 DEF Loop, PipelineTypeOK
    <2>4. last \in Round /\ round <= last
      BY <2>2, <2>3, RoundFacts DEF RoundsInOrder, Loop
    <2>5. promoted[r] \subseteq Components(last, r)
      <3>1. promoted[r] \subseteq Components(round, r)
        BY <2>1, <2>3, PromotedSoFar
      <3>2. Components(round, r) \subseteq Components(last, r)
        BY <2>3, <2>4, ComponentsGrow
      <3> QED
        BY <3>1, <3>2
    <2>6. forked[k][r] # NoVersion => forked[k][r] \subseteq promoted[r]
      BY DEF Flow
    <2>7. \A i \in Round, q \in Rel : carried'[i][q] # NoVersion =>
            /\ carried'[i][q] \subseteq Components(IF i < N THEN i + 1 ELSE N, q)
            /\ forked[i][q] # NoVersion => forked[i][q] \subseteq carried'[i][q]
      BY <2>1, <2>5, <2>6 DEF PushCarries
    <2> QED
      BY <2>1, <2>7 DEF PushCarries, Components
  <1>4. CASE ~PushProduct /\ ~\E k \in Round, r \in Rel : SyncCapsule(k, r)
    <2>1. UNCHANGED <<forked, carried>>
      BY <1>4
      DEF PipelineStep, Provide, GetBaseContent, FetchProduct, Background, Cleanup,
          CreateLces, PrepareRhContent, ProductCreate, ProductSync, CvCreate, CvPublish, CcvCreate,
          CcvPublish, CcvPromote, NoPush, LastWait, AkCreate, PushEnds, CreateBenchCvs,
          IncrementalCvUpdates, StartCleanup, AkDelete, CvDelete, CvsDeleted, ProductDelete
    <2> QED
      BY <1>1, <2>1
  <1> QED
    BY <1>2, <1>3, <1>4

-----------------------------------------------------------------------------
(***************************************************************************)
(* What arrives.                                                           *)
(***************************************************************************)
LEMMA StepWhole ==
    ASSUME PipelineTypeOK, RoundsInOrder, RoundIsWhole, PipelineStep
    PROVE  RoundIsWhole'
  <1> USE DEF Moves, setup, content, pushes, rest
  \* Where the composites do not change, and the shell does not move up.
  <1>1. ASSUME UNCHANGED <<components, version, promoted, round, flawed>>,
               \A v \in View : published'[v] = published[v],
               \/ pc' = pc
               \/ pc' \notin {"publish_composites", "promote", "push", "last_wait", "keys", "bench"}
               \/ {pc, pc'} \subseteq {"push", "last_wait", "keys", "bench"}
        PROVE  RoundIsWhole'
    <2>1. \A r \in Rel : FilledSoFar(r)' = FilledSoFar(r)
      BY <1>1, ComponentsGrow DEF FilledSoFar, Components, PipelineTypeOK
    <2>2. Composites(round)' = Composites(round) /\ Composites(round) \subseteq Rel
      BY <1>1 DEF Composites, Components
    <2>3. \A r \in Rel : Components(round, r)' = Components(round, r)
      BY <1>1 DEF Components
    <2> QED
      BY <1>1, <2>1, <2>2, <2>3 DEF RoundIsWhole
  <1>2. ASSUME pc' \notin {"publish_composites", "promote", "push", "last_wait", "keys", "bench"}
        PROVE  RoundIsWhole'
    BY <1>2 DEF RoundIsWhole
  <1>3. CASE \/ CreateLces \/ PrepareRhContent \/ ProductCreate \/ ProductSync \/ CvCreate \/ CvPublish
             \/ CreateBenchCvs \/ IncrementalCvUpdates \/ StartCleanup
             \/ AkDelete \/ CvsDeleted \/ ProductDelete \/ CvDelete
    BY <1>2, <1>3
    DEF CreateLces, PrepareRhContent, ProductCreate, ProductSync, CvCreate, CvPublish,
        CreateBenchCvs, IncrementalCvUpdates, StartCleanup, AkDelete, CvsDeleted, ProductDelete, CvDelete
  <1>4. CASE LastWait \/ AkCreate
    BY <1>1, <1>4 DEF LastWait, AkCreate
  <1>5. CASE Background
    BY <1>1, <1>5 DEF Background, PushEnds, SyncCapsule
  <1>6. CASE PushProduct \/ NoPush
    <2>1. \/ pc' = "products"
          \/ /\ pc = "push" /\ pc' = "last_wait"
             /\ UNCHANGED <<components, version, promoted, round, flawed, published>>
      BY <1>6 DEF PushProduct, NoPush, EndRound
    <2> QED
      BY <1>1, <1>2, <2>1
  <1>7. CASE CcvCreate
    <2>1. /\ pc' = "publish_composites" /\ round' = round
          /\ ~flawed' => \A r \in Composites(round) : components'[r] = Components(round, r)
      BY <1>7 DEF CcvCreate, Composites
    <2>2. Composites(round)' = Composites(round) /\ Composites(round) \subseteq Rel
      BY <2>1 DEF Composites, Components
    <2>3. \A r \in Rel : Components(round, r)' = Components(round, r)
      BY <2>1 DEF Components
    <2> QED
      BY <2>1, <2>2, <2>3 DEF RoundIsWhole
  <1>8. CASE CcvPublish
    <2>1. /\ pc = "publish_composites" /\ pc' = "promote" /\ UNCHANGED <<round, components, published>>
          /\ ~flawed' => /\ ~flawed
                         /\ \A r \in Composites(round) : version'[r] = Contents(r)
      BY <1>8 DEF CcvPublish, Composites
    <2>2. Composites(round)' = Composites(round) /\ Composites(round) \subseteq Rel
      BY <2>1 DEF Composites, Components
    <2>3. \A r \in Rel : Components(round, r)' = Components(round, r) /\ FilledSoFar(r)' = FilledSoFar(r)
      BY <2>1 DEF Components, FilledSoFar
    <2>4. \A r \in Rel : components[r] = Components(round, r) => Contents(r) = FilledSoFar(r)
      BY DEF Contents, FilledSoFar
    <2> QED
      BY <2>1, <2>2, <2>3, <2>4 DEF RoundIsWhole
  <1>9. CASE CcvPromote
    <2>1. /\ pc = "promote" /\ pc' = "push" /\ UNCHANGED <<round, published>>
          /\ ~flawed' => /\ ~flawed
                         /\ \A r \in Composites(round) : promoted'[r] = version[r]
      BY <1>9 DEF CcvPromote, Composites
    <2>2. Composites(round)' = Composites(round)
      BY <2>1 DEF Composites, Components
    <2>3. \A r \in Rel : FilledSoFar(r)' = FilledSoFar(r)
      BY <2>1 DEF Components, FilledSoFar
    <2> QED
      BY <2>1, <2>2, <2>3 DEF RoundIsWhole, Composites
  <1> QED
    BY <1>3, <1>4, <1>5, <1>6, <1>7, <1>8, <1>9
    DEF PipelineStep, Provide, GetBaseContent, FetchProduct, Cleanup

LEMMA StepLastPush ==
    ASSUME PipelineTypeOK, RoundsInOrder, Flow, LastPush, PipelineStep
    PROVE  LastPush'
  <1> USE DEF Moves, setup, content, pushes, rest, Loop
  <1>1. ASSUME UNCHANGED <<push, forked, carried, capsule, promoted, capsules>>,
               pc' \notin Loop /\ capsules => pc \notin Loop
        PROVE  LastPush'
    BY <1>1 DEF LastPush
  <1>2. CASE \/ CreateLces \/ PrepareRhContent \/ ProductCreate \/ ProductSync \/ CvCreate \/ CvPublish
             \/ CcvCreate \/ CcvPublish \/ NoPush
    BY <1>1, <1>2
    DEF CreateLces, PrepareRhContent, ProductCreate, ProductSync, CvCreate, CvPublish,
        CcvCreate, CcvPublish, NoPush
  <1>3. CASE \/ LastWait \/ AkCreate \/ CreateBenchCvs \/ IncrementalCvUpdates \/ StartCleanup
             \/ AkDelete \/ CvsDeleted \/ ProductDelete \/ CvDelete
    BY <1>1, <1>3
    DEF LastWait, AkCreate, CreateBenchCvs, IncrementalCvUpdates, StartCleanup,
        AkDelete, CvsDeleted, ProductDelete, CvDelete
  <1>4. CASE CcvPromote
    BY <1>4 DEF CcvPromote, LastPush
  <1>5. CASE PushProduct
    <2>1. /\ UNCHANGED <<carried, capsule, promoted, capsules>> /\ pc = "push" /\ round \in Round
          /\ push'[round] = "running" /\ forked'[round] = promoted
          /\ \A k \in Round \ {round} : push'[k] = push[k] /\ forked'[k] = forked[k]
          /\ pc' \notin Loop => round = N
      BY <1>5, RoundFacts DEF PushProduct, EndRound, PipelineTypeOK
    <2>2. push[round] = "none"
      BY <2>1, RoundFacts DEF RoundsInOrder
    <2>3. \A r \in Rel : carried[round][r] = NoVersion
      BY <2>1, <2>2 DEF RoundsInOrder, Nothing
    <2> QED
      BY <2>1, <2>3 DEF LastPush
  <1>6. ASSUME NEW k \in Round, PushEnds(k) PROVE LastPush'
    <2>1. /\ UNCHANGED <<forked, carried, capsule, promoted, capsules, pc>>
          /\ \A j \in Round \ {k} : push'[j] = push[j]
          /\ push'[k] = "ok" => \A r \in Rel : forked[k][r] # NoVersion => carried[k][r] # NoVersion
      BY <1>6 DEF PushEnds, PipelineTypeOK
    <2> QED
      BY <2>1 DEF LastPush
  <1>7. ASSUME NEW k \in Round, NEW r \in Rel, SyncCapsule(k, r) PROVE LastPush'
    <2>1. /\ UNCHANGED <<push, forked, promoted, capsules, pc>>
          /\ push[k] = "running" /\ promoted[r] # NoVersion
          /\ carried'[k][r] = promoted[r] /\ capsule'[r] = promoted[r]
          /\ \A q \in Rel \ {r} : capsule'[q] = capsule[q]
          /\ \A i \in Round, q \in Rel : <<i, q>> # <<k, r>> => carried'[i][q] = carried[i][q]
      BY <1>7 DEF SyncCapsule, PipelineTypeOK
    <2>2. \A i \in Round : push'[i] = "ok" =>
            \A q \in Rel : forked'[i][q] # NoVersion => carried'[i][q] # NoVersion
      BY <2>1 DEF LastPush
    <2>3. pc' \notin Loop /\ capsules => \A q \in Rel : carried'[N][q] # NoVersion => capsule'[q] = promoted[q]
      BY <2>1, RoundFacts DEF LastPush
    <2> QED
      BY <2>1, <2>2, <2>3 DEF LastPush
  <1> QED
    BY <1>2, <1>3, <1>4, <1>5, <1>6, <1>7
    DEF PipelineStep, Provide, GetBaseContent, FetchProduct, Background, Cleanup

-----------------------------------------------------------------------------
(***************************************************************************)
(* What a cleanup leaves.                                                  *)
(***************************************************************************)
LEMMA CompositesOf ==
    ASSUME PipelineTypeOK, RoundsInOrder, Flow, pc \notin Loop, NEW r \in Rel, components[r] # {}
    PROVE  r \in Composites(N)
  <1>1. components[r] \subseteq Components(N, r)
    BY DEF Flow, RoundsInOrder
  <1> QED
    BY <1>1 DEF Composites

\* One entry of content_views, composites first.
LEMMA EntryDeleted ==
    ASSUME PipelineTypeOK, NothingLeftOut, CvDelete, failures' = 0
    PROVE  NothingLeftOut'
  <1>1. PICK entry \in left :
          /\ \A other \in left : Rank(entry) <= Rank(other)
          /\ \/ ~InUse(entry) /\ Deleted(entry) /\ left' = left \ {entry} /\ pc' = pc /\ failures' = failures
             \/ InUse(entry) /\ failures' = failures
             \/ failures' = failures + 1
    BY DEF CvDelete
  <1>2. failures = 0 /\ failures' = failures
    BY <1>1 DEF PipelineTypeOK
  <1>3. /\ keys = {} /\ views \subseteq left
        /\ \A r \in Rel : components[r] # {} => <<"CCV", r>> \in left
        /\ pc = "cv-delete" /\ UNCHANGED keys
    BY <1>2 DEF NothingLeftOut, CvDelete, Removal
  \* With the keys gone, and the composites before the views, nothing is in use.
  <1>4. ~InUse(entry)
    <2>1. CASE entry \in Composite
      BY <1>3, <2>1 DEF InUse
    <2>2. CASE entry \notin Composite
      <3>1. \A other \in left : other \notin Composite
        BY <1>1, <2>2 DEF Rank
      <3>2. \A r \in Rel : <<"CCV", r>> \in Composite
        BY DEF Composite
      <3>3. \A r \in Rel : components[r] = {}
        BY <1>3, <3>1, <3>2
      <3> QED
        BY <2>2, <3>3 DEF InUse
    <2> QED
      BY <2>1, <2>2
  <1>5. Deleted(entry) /\ left' = left \ {entry} /\ pc' = "cv-delete"
    BY <1>1, <1>2, <1>3, <1>4 DEF PipelineTypeOK
  <1>6. CASE entry \in Composite
    <2>1. PICK q \in Rel : entry = <<"CCV", q>>
      BY <1>6 DEF Composite
    <2>2. components' = [components EXCEPT ![q] = {}] /\ UNCHANGED views
      BY <1>5, <1>6, <2>1 DEF Deleted
    <2>3. entry \notin views
      BY <1>6, ViewsOfRounds DEF PipelineTypeOK
    <2>4. \A r \in Rel : components'[r] # {} => r # q /\ components[r] # {}
      BY <2>2 DEF PipelineTypeOK
    <2>5. \A r \in Rel : components'[r] # {} => <<"CCV", r>> \in left'
      BY <1>3, <1>5, <2>1, <2>4
    <2> QED
      BY <1>3, <1>5, <2>2, <2>3, <2>5 DEF NothingLeftOut, Removal
  <1>7. CASE entry \notin Composite
    <2>1. views' = views \ {entry} /\ UNCHANGED components
      BY <1>5, <1>7 DEF Deleted
    <2>2. \A r \in Rel : <<"CCV", r>> # entry
      BY <1>7 DEF Composite
    <2> QED
      BY <1>3, <1>5, <2>1, <2>2 DEF NothingLeftOut, Removal
  <1> QED
    BY <1>6, <1>7

LEMMA StepLeaves ==
    ASSUME PipelineTypeOK, RoundsInOrder, Flow, NothingLeftOut, PipelineStep
    PROVE  NothingLeftOut'
  <1> USE DEF Moves, setup, content, pushes, rest, Removal
  <1>1. ASSUME pc' \notin Removal PROVE NothingLeftOut'
    BY <1>1 DEF NothingLeftOut
  <1>2. CASE \/ CreateLces \/ PrepareRhContent \/ ProductCreate \/ ProductSync \/ CvCreate \/ CvPublish
             \/ CcvCreate \/ CcvPublish \/ CcvPromote \/ PushProduct \/ NoPush \/ LastWait \/ AkCreate
             \/ CreateBenchCvs \/ IncrementalCvUpdates \/ StartCleanup
    BY <1>1, <1>2
    DEF CreateLces, PrepareRhContent, ProductCreate, ProductSync, CvCreate, CvPublish,
        CcvCreate, CcvPublish, CcvPromote, PushProduct, NoPush, EndRound, LastWait, AkCreate,
        CreateBenchCvs, IncrementalCvUpdates, StartCleanup
  <1>3. CASE Background
    <2>1. pc \in Loop \cup {"last_wait"} /\ pc' = pc
      BY <1>3 DEF Background, PushEnds, SyncCapsule, RoundsInOrder
    <2> QED
      BY <1>1, <2>1 DEF Loop
  <1>4. CASE AkDelete
    <2>1. PICK done \in SUBSET keys : Play(keys, done) /\ keys' = keys \ done
      BY <1>4 DEF AkDelete
    <2>2. failures' = 0 => keys' = {}
      BY <2>1, PlayFails DEF PipelineTypeOK
    <2>3. pc = "cleanup" /\ pc' = "cv-delete" /\ UNCHANGED <<views, components>>
          /\ left' = (({"CCV"} \X Composites(N)) \cup View) \cup BenchView
      BY <1>4 DEF AkDelete
    <2>4. views \subseteq left'
      BY <2>3 DEF PipelineTypeOK
    <2>5. \A r \in Rel : components[r] # {} => <<"CCV", r>> \in left'
      BY <2>3, CompositesOf DEF Loop
    <2> QED
      BY <2>2, <2>3, <2>4, <2>5 DEF NothingLeftOut
  <1>5. CASE CvDelete
    <2>1. CASE failures' = 0
      BY <1>5, <2>1, EntryDeleted
    <2>2. CASE failures' # 0
      BY <2>2 DEF NothingLeftOut
    <2> QED
      BY <2>1, <2>2
  <1>6. CASE CvsDeleted
    BY <1>6 DEF CvsDeleted, NothingLeftOut
  <1>7. CASE ProductDelete
    <2>1. PICK done \in SUBSET {k \in Round : ~UsesProduct(k)} :
            /\ Play({k \in Round : ~UsesProduct(k)}, done)
            /\ repos' = repos \ UNION {Views(k) : k \in done}
      BY <1>7 DEF ProductDelete
    <2>2. pc = "product-delete" /\ pc' = "clean" /\ UNCHANGED <<keys, views, components, incremental>>
      BY <1>7 DEF ProductDelete
    <2>3. SUFFICES ASSUME failures' = 0 PROVE NothingLeftOut'
      BY DEF NothingLeftOut
    <2>4. failures = 0 /\ done = {k \in Round : ~UsesProduct(k)}
      BY <2>1, <2>3, PlayFails DEF PipelineTypeOK
    <2>5. keys = {} /\ views = {} /\ \A r \in Rel : components[r] = {}
      BY <2>2, <2>4 DEF NothingLeftOut
    <2>6. ~incremental => done = Round
      BY <2>4, <2>5 DEF UsesProduct
    <2>7. ~incremental => repos' = {}
      BY <2>1, <2>6 DEF PipelineTypeOK, View
    <2> QED
      BY <2>2, <2>5, <2>7 DEF NothingLeftOut
  <1> QED
    BY <1>2, <1>3, <1>4, <1>5, <1>6, <1>7
    DEF PipelineStep, Provide, GetBaseContent, FetchProduct, Cleanup
-----------------------------------------------------------------------------
LEMMA PipelineBegins == Init => PipelineInv
  <1> SUFFICES ASSUME Init PROVE PipelineInv
    OBVIOUS
  <1>1. PipelineTypeOK
    BY PipelineInitType
  <1>2. RoundsInOrder
    BY RoundFacts DEF Init, RoundsInOrder, Loop
  <1>3. PublishedInRound
    BY ViewsOfRounds DEF Init, PublishedInRound
  <1>4. Flow /\ PushCarries
    BY DEF Init, Flow, PushCarries, Nothing
  <1>5. RoundIsWhole /\ LastPush /\ NothingLeftOut
    BY DEF Init, RoundIsWhole, LastPush, NothingLeftOut, Loop, Removal
  <1> QED
    BY <1>1, <1>2, <1>3, <1>4, <1>5 DEF PipelineInv

LEMMA PipelineStays == PipelineInv /\ [FullNext]_<<vars, ui>> => PipelineInv'
  <1> SUFFICES ASSUME PipelineInv, [FullNext]_<<vars, ui>> PROVE PipelineInv'
    OBVIOUS
  <1>1. CASE PipelineStep
    <2>1. PipelineTypeOK' /\ RoundsInOrder' /\ PublishedInRound' /\ Flow' /\ PushCarries'
      BY <1>1, StepType, StepOrder, StepPublished, StepFlow, StepCarries DEF PipelineInv
    <2>2. RoundIsWhole' /\ LastPush' /\ NothingLeftOut'
      BY <1>1, StepWhole, StepLastPush, StepLeaves DEF PipelineInv
    <2> QED
      BY <2>1, <2>2 DEF PipelineInv
  <1>2. CASE UNCHANGED vars
    <2> USE <1>2 DEF vars, setup, content, pushes, rest
    <2>1. PipelineTypeOK' /\ RoundsInOrder' /\ PublishedInRound'
      BY DEF PipelineInv, PipelineTypeOK, RoundsInOrder, PublishedInRound, Nothing
    <2>2. Flow' /\ PushCarries'
      BY DEF PipelineInv, Flow, PushCarries, Components, Contents
    <2>3. RoundIsWhole'
      BY DEF PipelineInv, RoundIsWhole, Components, Composites, FilledSoFar
    <2>4. LastPush' /\ NothingLeftOut'
      BY DEF PipelineInv, LastPush, NothingLeftOut
    <2> QED
      BY <2>1, <2>2, <2>3, <2>4 DEF PipelineInv
  <1> QED
    BY <1>1, <1>2 DEF FullNext, RunBrowser, PipelineStep

THEOREM FullPipelineInv == FullSpec => []PipelineInv
  <1>1. FullInit => PipelineInv
    BY PipelineBegins DEF FullInit
  <1> QED
    BY <1>1, PipelineStays, PTL DEF FullSpec

\* push_product_fam in the background: content of the next product at most, and
\* at least what was promoted when it was started.
THEOREM FullPushCarries == FullSpec => []PushCarries
  <1>1. PipelineInv => PushCarries
    BY DEF PipelineInv
  <1> QED
    BY <1>1, FullPipelineInv, PTL

\* get_base_content_fam, whatever failed in earlier rounds.
THEOREM FullContentArrives == FullSpec => []ContentArrives
  <1>1. PipelineInv => ContentArrives
    <2> SUFFICES ASSUME PipelineInv, pc = "bench"
                 PROVE  /\ \A k \in Round : push[k] # "running"
                        /\ ~flawed => \A r \in Rel : Components(N, r) # {} =>
                             promoted[r] = {v \in Components(N, r) : published[v] = "filled"}
                        /\ push[N] = "ok" => capsule = promoted
      BY DEF ContentArrives
    <2>1. round = N /\ \A k \in Round : push[k] # "running"
      BY DEF PipelineInv, RoundsInOrder, Loop
    <2>2. ~flawed => \A r \in Rel : Components(N, r) # {} =>
                       promoted[r] = {v \in Components(N, r) : published[v] = "filled"}
      BY <2>1 DEF PipelineInv, RoundIsWhole, FilledSoFar, Composites
    <2>3. ASSUME push[N] = "ok" PROVE capsule = promoted
      <3>1. capsules
        BY <2>3, RoundFacts DEF PipelineInv, RoundsInOrder
      <3>2. \A r \in Rel : promoted[r] # NoVersion => capsule[r] = promoted[r]
        BY <2>3, <3>1, RoundFacts DEF PipelineInv, LastPush, Loop
      <3>3. \A r \in Rel : capsule[r] = promoted[r]
        BY <3>2 DEF PipelineInv, Flow
      <3> QED
        BY <3>3 DEF PipelineInv, PipelineTypeOK
    <2> QED
      BY <2>1, <2>2, <2>3
  <1> QED
    BY <1>1, FullPipelineInv, PTL

\* cleanup_fam, when nothing failed by itself.
THEOREM FullCleanupIsComplete == FullSpec => []CleanupIsComplete
  <1>1. PipelineInv => CleanupIsComplete
    BY DEF PipelineInv, NothingLeftOut, CleanupIsComplete, Removal
  <1> QED
    BY <1>1, FullPipelineInv, PTL

-----------------------------------------------------------------------------
(***************************************************************************)
(* The browser: BrowserRun, in the phase it is run in.                     *)
(***************************************************************************)
Items(s) == {s[i] : i \in 1 .. Len(s)}
Once(s) == \A i, j \in 1 .. Len(s) : s[i] = s[j] => i = j

LEMMA OneTaken ==
    ASSUME NEW S, NEW s \in Seq(S), Once(s), s # <<>>
    PROVE  /\ Head(s) \in S /\ Head(s) \in Items(s)
           /\ Tail(s) \in Seq(S) /\ Once(Tail(s))
           /\ Items(Tail(s)) = Items(s) \ {Head(s)}
  <1>1. Len(s) \in Nat /\ Len(s) >= 1 /\ Head(s) = s[1] /\ \A i \in 1 .. Len(s) : s[i] \in S
    OBVIOUS
  <1>2. Tail(s) \in Seq(S) /\ Len(Tail(s)) = Len(s) - 1
    OBVIOUS
  <1>3. \A i \in 1 .. Len(Tail(s)) : Tail(s)[i] = s[i + 1]
    OBVIOUS
  <1>4. Once(Tail(s))
    BY <1>1, <1>2, <1>3 DEF Once
  <1>5. \A x \in Items(Tail(s)) : x \in Items(s) /\ x # Head(s)
    <2> TAKE x \in Items(Tail(s))
    <2>1. PICK i \in 1 .. Len(Tail(s)) : x = Tail(s)[i]
      BY DEF Items
    <2>2. i + 1 \in 1 .. Len(s) /\ i + 1 # 1 /\ 1 \in 1 .. Len(s)
      BY <1>1, <1>2
    <2>3. x = s[i + 1]
      BY <1>3, <2>1
    <2> QED
      BY <1>1, <2>2, <2>3 DEF Items, Once
  <1>6. \A x \in Items(s) : x # Head(s) => x \in Items(Tail(s))
    <2> TAKE x \in Items(s)
    <2> HAVE x # Head(s)
    <2>1. PICK i \in 1 .. Len(s) : x = s[i]
      BY DEF Items
    <2>2. i - 1 \in 1 .. Len(Tail(s)) /\ (i - 1) + 1 = i
      BY <1>1, <1>2, <2>1
    <2>3. Tail(s)[i - 1] = x
      BY <1>3, <2>1, <2>2
    <2> QED
      BY <2>2, <2>3 DEF Items
  <1>7. Head(s) \in Items(s)
    BY <1>1 DEF Items
  <1> QED
    BY <1>1, <1>2, <1>4, <1>5, <1>6, <1>7

Open == step \in {"roles", "evaluate", "close"}
Ended == step \in {"write", "done"}
\* The roles of the open browser that have no verdict yet.
Untried == IF step = "close" THEN Items(roles) \ {Head(roles)} ELSE Items(roles)

RunTypeOK ==
    /\ step \in {"browsers", "roles", "evaluate", "close", "write", "done"}
    /\ todo \in Seq(Browser) /\ roles \in Seq(Role)
    /\ current \in [Role -> {"none", "PASS", "FAIL"}]
    /\ stored \in [Browser -> [Role -> {"none", "PASS", "FAIL"}]]
    /\ result \in {"PASS", "FAIL", "ERROR"}

\* A browser is stored with all its roles when it is done, and not before.
StoredSoFar ==
    \A b \in Browser :
        IF b \in Items(todo) THEN stored[b] = UI!NoResults
        ELSE \A r \in Role : stored[b][r] # "none"

OpenBrowser ==
    /\ Open => /\ todo # <<>> /\ browser = Head(todo)
               /\ \A r \in Role : current[r] = "none" <=> r \in Untried
    /\ step \in {"evaluate", "close"} => roles # <<>>

FailedSoFar ==
    \/ \E b \in Browser, r \in Role : stored[b][r] = "FAIL"
    \/ Open /\ \E r \in Role : current[r] = "FAIL"

ResultSoFar ==
    IF result = "ERROR" THEN Ended
    ELSE /\ result = "FAIL" <=> FailedSoFar
         /\ Ended => todo = <<>> /\ contract = UI!Lanes /\ completed

RunInv ==
    /\ RunTypeOK /\ Once(todo) /\ Once(roles)
    /\ StoredSoFar /\ OpenBrowser /\ ResultSoFar
    /\ written => step = "done"

LEMMA RunFacts ==
    /\ Browsers \in Seq(Browser) /\ Items(Browsers) = Browser
    /\ Roles \in Seq(Role) /\ Items(Roles) = Role /\ Once(Roles)
  <1>1. /\ Browsers \in Seq(Browser) /\ UI!Range(Browsers) = Browser
        /\ Roles \in Seq(Role) /\ UI!Range(Roles) = Role /\ UI!IsInjective(Roles)
    BY ExperimentAssumption DEF UI!RunAssumption
  <1>2. DOMAIN Browsers = 1 .. Len(Browsers) /\ DOMAIN Roles = 1 .. Len(Roles)
    BY <1>1
  <1> QED
    BY <1>1, <1>2 DEF UI!Range, UI!IsInjective, Items, Once

LEMMA RunBegins == ASSUME Once(Browsers), UI!Init PROVE RunInv
  <1>1. RunTypeOK /\ Once(todo) /\ Once(roles)
    BY RunFacts DEF UI!Init, UI!NoResults, RunTypeOK, Once
  <1>2. StoredSoFar /\ OpenBrowser
    BY RunFacts DEF UI!Init, UI!NoResults, StoredSoFar, OpenBrowser, Open
  <1>3. ResultSoFar /\ ~written
    BY DEF UI!Init, UI!NoResults, ResultSoFar, FailedSoFar, Open, Ended
  <1> QED
    BY <1>1, <1>2, <1>3 DEF RunInv

\* Whatever was raised: the result says so, and nothing more is stored.
LEMMA ErrorSaid == ASSUME RunInv, UI!FatalError, ~Ended PROVE RunInv'
  <1>1. /\ UNCHANGED <<todo, roles, current, stored, contract, written>>
        /\ step' = "write" /\ result' = "ERROR"
    BY DEF UI!FatalError
  <1>2. RunTypeOK' /\ Once(todo)' /\ Once(roles)'
    BY <1>1 DEF RunInv, RunTypeOK, Once
  <1>3. StoredSoFar' /\ OpenBrowser' /\ ResultSoFar'
    BY <1>1 DEF RunInv, StoredSoFar, Items, UI!NoResults, OpenBrowser, Open, ResultSoFar, Ended
  <1>4. ~written
    BY DEF RunInv, Ended
  <1> QED
    BY <1>1, <1>2, <1>3, <1>4 DEF RunInv

LEMMA RunStays == ASSUME RunInv, UI!Next PROVE RunInv'
  <1> USE DEF Open, Ended
  <1>1. CASE UI!LaunchBrowser
    <2>1. CASE UI!FatalError
      BY <1>1, <2>1, ErrorSaid DEF UI!LaunchBrowser
    <2>2. CASE ~UI!FatalError
      <3>1. /\ step = "browsers" /\ step' = "roles" /\ todo # <<>> /\ browser' = Head(todo)
            /\ roles' = Roles /\ current' = UI!NoResults
            /\ UNCHANGED <<todo, stored, result, written>>
        BY <1>1, <2>2 DEF UI!LaunchBrowser
      <3>2. RunTypeOK' /\ Once(todo)' /\ Once(roles)'
        BY <3>1, RunFacts DEF RunInv, RunTypeOK, UI!NoResults, Once
      <3>3. StoredSoFar' /\ ~written'
        BY <3>1 DEF RunInv, StoredSoFar, Items, UI!NoResults
      <3>4. OpenBrowser'
        BY <3>1, RunFacts DEF OpenBrowser, Untried, Items, UI!NoResults
      <3>5. ResultSoFar'
        BY <3>1 DEF RunInv, ResultSoFar, FailedSoFar, UI!NoResults
      <3> QED
        BY <3>2, <3>3, <3>4, <3>5 DEF RunInv
    <2> QED
      BY <2>1, <2>2
  <1>2. CASE UI!MakeContext
    <2>1. CASE UI!FatalError
      BY <1>2, <2>1, ErrorSaid DEF UI!MakeContext
    <2>2. CASE ~UI!FatalError
      <3>1. /\ step = "roles" /\ step' = "evaluate" /\ roles # <<>>
            /\ UNCHANGED <<todo, roles, browser, current, stored, result, written>>
        BY <1>2, <2>2 DEF UI!MakeContext
      <3>2. RunTypeOK' /\ Once(todo)' /\ Once(roles)'
        BY <3>1 DEF RunInv, RunTypeOK, Once
      <3>3. StoredSoFar' /\ ~written'
        BY <3>1 DEF RunInv, StoredSoFar, Items, UI!NoResults
      <3>4. OpenBrowser'
        BY <3>1 DEF RunInv, OpenBrowser, Untried, Items
      <3>5. ResultSoFar'
        BY <3>1 DEF RunInv, ResultSoFar, FailedSoFar
      <3> QED
        BY <3>2, <3>3, <3>4, <3>5 DEF RunInv
    <2> QED
      BY <2>1, <2>2
  <1>3. CASE UI!EvaluateRole
    <2>1. CASE UI!FatalError
      BY <1>3, <2>1, ErrorSaid DEF UI!EvaluateRole
    <2>2. CASE ~UI!FatalError
      <3>1. PICK verdict \in {"PASS", "FAIL"} :
              /\ current' = [current EXCEPT ![Head(roles)] = verdict]
              /\ result' = IF verdict = "PASS" THEN result ELSE "FAIL"
              /\ step = "evaluate" /\ step' = "close"
              /\ UNCHANGED <<todo, roles, browser, stored, written>>
        BY <1>3, <2>2 DEF UI!EvaluateRole
      <3>2. roles # <<>> /\ roles \in Seq(Role) /\ Once(roles) /\ result # "ERROR"
        BY <3>1 DEF RunInv, OpenBrowser, RunTypeOK, ResultSoFar
      <3>3. Head(roles) \in Role /\ Head(roles) \in Items(roles)
        BY <3>2, OneTaken
      <3>4. \A r \in Role : current'[r] = IF r = Head(roles) THEN verdict ELSE current[r]
        BY <3>1 DEF RunInv, RunTypeOK
      <3>5. RunTypeOK' /\ Once(todo)' /\ Once(roles)'
        BY <3>1, <3>2 DEF RunInv, RunTypeOK, Once
      <3>6. StoredSoFar' /\ ~written'
        BY <3>1 DEF RunInv, StoredSoFar, Items, UI!NoResults
      <3>7. OpenBrowser'
        BY <3>1, <3>2, <3>3, <3>4 DEF RunInv, OpenBrowser, Untried, Items
      <3>8. current[Head(roles)] = "none"
        BY <3>1, <3>3 DEF RunInv, OpenBrowser, Untried
      <3>9. FailedSoFar' <=> FailedSoFar \/ verdict = "FAIL"
        BY <3>1, <3>3, <3>4, <3>8 DEF FailedSoFar
      <3>10. ResultSoFar'
        BY <3>1, <3>2, <3>9 DEF RunInv, RunTypeOK, ResultSoFar
      <3> QED
        BY <3>5, <3>6, <3>7, <3>10 DEF RunInv
    <2> QED
      BY <2>1, <2>2
  <1>4. CASE UI!CloseContext
    <2>1. CASE UI!FatalError
      BY <1>4, <2>1, ErrorSaid DEF UI!CloseContext
    <2>2. CASE ~UI!FatalError
      <3>1. /\ step = "close" /\ step' = "roles" /\ roles' = Tail(roles)
            /\ UNCHANGED <<todo, browser, current, stored, result, written>>
        BY <1>4, <2>2 DEF UI!CloseContext
      <3>2. roles # <<>> /\ roles \in Seq(Role) /\ Once(roles)
        BY <3>1 DEF RunInv, OpenBrowser, RunTypeOK
      <3>3. Tail(roles) \in Seq(Role) /\ Once(Tail(roles)) /\ Items(Tail(roles)) = Items(roles) \ {Head(roles)}
        BY <3>2, OneTaken
      <3>4. RunTypeOK' /\ Once(todo)' /\ Once(roles)'
        BY <3>1, <3>3 DEF RunInv, RunTypeOK, Once
      <3>5. StoredSoFar' /\ ~written'
        BY <3>1 DEF RunInv, StoredSoFar, Items, UI!NoResults
      <3>6. Untried' = Untried
        BY <3>1, <3>3 DEF Untried, Items
      <3>7. OpenBrowser'
        BY <3>1, <3>6 DEF RunInv, OpenBrowser
      <3>8. ResultSoFar'
        BY <3>1 DEF RunInv, ResultSoFar, FailedSoFar
      <3> QED
        BY <3>4, <3>5, <3>7, <3>8 DEF RunInv
    <2> QED
      BY <2>1, <2>2
  <1>5. CASE UI!CloseBrowser
    <2>1. CASE UI!FatalError
      BY <1>5, <2>1, ErrorSaid DEF UI!CloseBrowser
    <2>2. CASE ~UI!FatalError
      <3>1. /\ step = "roles" /\ step' = "browsers" /\ roles = <<>>
            /\ stored' = [stored EXCEPT ![browser] = current] /\ todo' = Tail(todo)
            /\ UNCHANGED <<roles, current, result, written>>
        BY <1>5, <2>2 DEF UI!CloseBrowser
      <3>2. todo # <<>> /\ todo \in Seq(Browser) /\ Once(todo) /\ browser = Head(todo) /\ result # "ERROR"
        BY <3>1 DEF RunInv, OpenBrowser, RunTypeOK, ResultSoFar
      <3>3. /\ browser \in Browser /\ browser \in Items(todo)
            /\ Tail(todo) \in Seq(Browser) /\ Once(Tail(todo)) /\ Items(Tail(todo)) = Items(todo) \ {browser}
        BY <3>2, OneTaken
      <3>4. \A r \in Role : current[r] # "none"
        BY <3>1 DEF RunInv, OpenBrowser, Untried, Items
      <3>5. \A b \in Browser : stored'[b] = IF b = browser THEN current ELSE stored[b]
        BY <3>1 DEF RunInv, RunTypeOK
      <3>6. RunTypeOK' /\ Once(todo)' /\ Once(roles)'
        BY <3>1, <3>3 DEF RunInv, RunTypeOK, Once
      <3>7. Items(todo)' = Items(todo) \ {browser}
        BY <3>1, <3>3 DEF Items
      <3>8. StoredSoFar'
        BY <3>4, <3>5, <3>7 DEF RunInv, StoredSoFar, UI!NoResults
      <3>9. OpenBrowser' /\ ~written'
        BY <3>1 DEF RunInv, OpenBrowser
      <3>10. \A r \in Role : stored[browser][r] = "none"
        BY <3>3 DEF RunInv, StoredSoFar, UI!NoResults
      <3>11. FailedSoFar' <=> FailedSoFar
        BY <3>1, <3>3, <3>5, <3>10 DEF FailedSoFar
      <3>12. ResultSoFar'
        BY <3>1, <3>2, <3>11 DEF RunInv, ResultSoFar
      <3> QED
        BY <3>6, <3>8, <3>9, <3>12 DEF RunInv
    <2> QED
      BY <2>1, <2>2
  <1>6. CASE UI!BuildContract
    <2>1. CASE UI!FatalError
      BY <1>6, <2>1, ErrorSaid DEF UI!BuildContract
    <2>2. CASE ~UI!FatalError
      <3>1. /\ step = "browsers" /\ step' = "write" /\ todo = <<>>
            /\ contract' = UI!Lanes /\ completed' = TRUE
            /\ UNCHANGED <<todo, roles, current, stored, result, written>>
        BY <1>6, <2>2 DEF UI!BuildContract
      <3>2. RunTypeOK' /\ Once(todo)' /\ Once(roles)'
        BY <3>1 DEF RunInv, RunTypeOK, Once
      <3>3. StoredSoFar' /\ OpenBrowser' /\ ~written'
        BY <3>1 DEF RunInv, StoredSoFar, OpenBrowser, Items, UI!NoResults
      <3>4. ResultSoFar'
        BY <3>1 DEF RunInv, ResultSoFar, FailedSoFar, UI!Lanes
      <3> QED
        BY <3>2, <3>3, <3>4 DEF RunInv
    <2> QED
      BY <2>1, <2>2
  <1>7. CASE UI!WriteStatusData
    <2>1. /\ step = "write" /\ step' = "done"
          /\ UNCHANGED <<todo, roles, current, stored, result, contract, completed>>
      BY <1>7 DEF UI!WriteStatusData
    <2>2. RunTypeOK' /\ Once(todo)' /\ Once(roles)'
      BY <2>1 DEF RunInv, RunTypeOK, Once
    <2>3. StoredSoFar' /\ OpenBrowser'
      BY <2>1 DEF RunInv, StoredSoFar, OpenBrowser, Items, UI!NoResults
    <2>4. ResultSoFar'
      BY <2>1 DEF RunInv, ResultSoFar, FailedSoFar, UI!Lanes
    <2> QED
      BY <2>1, <2>2, <2>3, <2>4 DEF RunInv
  <1> QED
    BY <1>1, <1>2, <1>3, <1>4, <1>5, <1>6, <1>7 DEF UI!Next

\* The result and the contract of the status data file, for browsers that are
\* listed once: a browser listed twice is stored again, over what it failed before.
THEOREM FullResultIsEarned ==
    ASSUME Once(Browsers)
    PROVE  FullSpec => []ResultIsEarned
  <1>1. FullInit => RunInv
    BY RunBegins DEF FullInit
  <1>2. RunInv /\ [FullNext]_<<vars, ui>> => RunInv'
    <2> SUFFICES ASSUME RunInv, [FullNext]_<<vars, ui>> PROVE RunInv'
      OBVIOUS
    <2>1. CASE UI!Next
      BY <2>1, RunStays
    <2>2. CASE UNCHANGED ui
      BY <2>2
      DEF ui, RunInv, RunTypeOK, Once, StoredSoFar, OpenBrowser, ResultSoFar, FailedSoFar, Open, Ended,
          Untried, Items, UI!NoResults, UI!Lanes
    <2> QED
      BY <2>1, <2>2 DEF FullNext, RunBrowser, StartCleanup
  <1>3. RunInv => ResultIsEarned
    <2> SUFFICES ASSUME RunInv PROVE UI!ResultIsEarned /\ UI!StoredWhole
      BY DEF ResultIsEarned
    <2>1. UI!StoredWhole
      BY DEF RunInv, StoredSoFar, UI!StoredWhole
    <2>2. ASSUME written, result # "ERROR"
          PROVE  /\ completed /\ contract = Browser \X Role
                 /\ result = "PASS" <=> \A b \in Browser, r \in Role : stored[b][r] = "PASS"
      <3>1. step = "done" /\ todo = <<>> /\ completed /\ contract = UI!Lanes /\ (result = "FAIL" <=> FailedSoFar)
        BY <2>2 DEF RunInv, ResultSoFar, Ended
      <3>2. \A b \in Browser, r \in Role : stored[b][r] \in {"PASS", "FAIL"}
        BY <3>1 DEF RunInv, RunTypeOK, StoredSoFar, Items
      <3>3. UI!Lanes = Browser \X Role
        BY <3>2 DEF UI!Lanes
      <3>4. FailedSoFar <=> \E b \in Browser, r \in Role : stored[b][r] = "FAIL"
        BY <3>1 DEF FailedSoFar, Open
      <3>5. result \in {"PASS", "FAIL"}
        BY <2>2 DEF RunInv, RunTypeOK
      <3> QED
        BY <3>1, <3>2, <3>3, <3>4, <3>5
    <2> QED
      BY <2>1, <2>2 DEF UI!ResultIsEarned
  <1> QED
    BY <1>1, <1>2, <1>3, PTL DEF FullSpec
=============================================================================
