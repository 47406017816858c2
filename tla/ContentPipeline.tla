--------------------------- MODULE ContentPipeline ---------------------------
(***************************************************************************)
(* The content of an experiment, as the *_fam functions of                 *)
(* experiment/lib/fam.sh bring it to a Satellite and take it away again:   *)
(* product by product the repositories, their content views, the composite *)
(* views of the releases, and a push to the capsules that runs beside the  *)
(* next product.  The shell goes on when a play fails (set +e), so every   *)
(* play may leave out some of its items.  What the server refuses, and     *)
(* what a capsule sync copies, is external: an item needs what it refers   *)
(* to, and nothing in use is deleted.                                      *)
(***************************************************************************)
EXTENDS Naturals, Sequences

CONSTANTS
    Products,       \* tested_products, in order
    Rel,            \* rels
    Rhel, Rhosp, Flatpak,
    NoFlatpakFor,   \* releases the flatpak product skips
    NoVersion,
    MaxFailures     \* bound: plays that fail by themselves

N == Len(Products)
Round == 1 .. N

ASSUME ContentAssumption ==
    /\ Products \in Seq(STRING) /\ N > 0
    /\ \A i, j \in Round : i # j => Products[i] # Products[j]
    /\ {"Bench", "CCV"} \cap {Products[i] : i \in Round} = {}
    /\ NoFlatpakFor \subseteq Rel
    /\ MaxFailures \in Nat

Covers(p, r) == ~(p = Flatpak /\ r \in NoFlatpakFor)

\* One view per product and release; RHOSP has a single one for all.
ViewOf(p, r) == IF p = Rhosp THEN <<p, "all">> ELSE <<p, r>>
Views(k) == {ViewOf(Products[k], r) : r \in {r \in Rel : Covers(Products[k], r)}}
View == UNION {Views(k) : k \in Round}
BenchView == {<<"Bench", "big">>, <<"Bench", "filtered">>}
Composite == {"CCV"} \X Rel

\* Even an empty version is one.
ASSUME NoVersionAssumption == \A vs \in SUBSET View : vs # NoVersion

(***************************************************************************)
(* The list content_views grows with every product: the components of the  *)
(* composite view of a release after k products.                           *)
(***************************************************************************)
Components(k, r) == {ViewOf(Products[i], r) : i \in {i \in 1 .. k : Covers(Products[i], r)}}

\* Faulty: only the composites the product of this round belongs to.
TouchedComposites(k) == {r \in Rel : Covers(Products[k], r)}

Composites(k) == {r \in Rel : Components(k, r) # {}}

VARIABLES
    capsules,   \* num_capsules > 0
    pc, round,  \* where the main shell is
    lces, manifest,
    repos, synced,  \* views whose repositories exist, and were synced
    views,      \* content views on the server
    published,  \* the version of each: "none", "hollow" (nothing synced) or "filled"
    components, \* components of the composites, {} before there is one
    version, promoted,  \* contents of the latest version, and of the one in the LCEs
    capsule,    \* contents on the capsules
    push,       \* the push of each product: "none", "running", "ok", "failed"
    pending,    \* _pending_push_pid
    forked, carried,    \* what was promoted at the fork of a push, and what it copied
    keys,       \* releases with activation keys
    incremental,\* CV_IncrementalBench exists
    left,       \* entries of content_views cv-delete has not come to
    failures,   \* plays that failed by themselves
    flawed      \* a play on composites left something out in this round

setup == <<capsules, lces, manifest>>
content == <<repos, synced, views, published, components, version, promoted>>
pushes == <<capsule, push, pending, forked, carried>>
rest == <<keys, incremental, left>>
vars == <<pc, round, setup, content, pushes, rest, failures, flawed>>

Nothing == [r \in Rel |-> NoVersion]

Init ==
    /\ capsules \in BOOLEAN
    /\ pc = "lces" /\ round = 1
    /\ lces = FALSE /\ manifest = FALSE
    /\ repos = {} /\ synced = {} /\ views = {}
    /\ published = [v \in View \cup BenchView |-> "none"]
    /\ components = [r \in Rel |-> {}]
    /\ version = Nothing /\ promoted = Nothing /\ capsule = Nothing
    /\ push = [k \in Round |-> "none"] /\ pending = 0
    /\ forked = [k \in Round |-> Nothing] /\ carried = [k \in Round |-> Nothing]
    /\ keys = {} /\ incremental = FALSE /\ left = {}
    /\ failures = 0 /\ flawed = FALSE

(***************************************************************************)
(* A play over items: those the server can do, unless the play fails.      *)
(***************************************************************************)
Play(able, done) ==
    /\ done \subseteq able
    /\ failures' = IF done = able THEN failures ELSE failures + 1
    /\ failures' <= MaxFailures

Moves(from, to) == pc = from /\ pc' = to
-----------------------------------------------------------------------------
CreateLces ==
    /\ Moves("lces", "manifest")
    /\ \E done \in SUBSET {"lces"} : Play({"lces"}, done) /\ lces' = (done # {})
    /\ UNCHANGED <<round, capsules, manifest, content, pushes, rest, flawed>>

PrepareRhContent ==
    /\ Moves("manifest", "products")
    /\ \E done \in SUBSET {"manifest"} : Play({"manifest"}, done) /\ manifest' = (done # {})
    /\ UNCHANGED <<round, capsules, lces, content, pushes, rest, flawed>>

(***************************************************************************)
(* fetch_product_fam.                                                      *)
(***************************************************************************)
ProductCreate ==
    /\ Moves("products", "sync")
    /\ LET able == IF Products[round] = Rhel /\ ~manifest THEN {} ELSE Views(round) IN
       \E done \in SUBSET able : Play(able, done) /\ repos' = repos \cup done
    /\ flawed' = FALSE
    /\ UNCHANGED <<round, setup, synced, views, published, components, version, promoted,
                   pushes, rest>>

ProductSync ==
    /\ Moves("sync", "views")
    /\ LET able == Views(round) \cap repos IN
       \E done \in SUBSET able : Play(able, done) /\ synced' = synced \cup done
    /\ UNCHANGED <<round, setup, repos, views, published, components, version, promoted,
                   pushes, rest, flawed>>

CvCreate ==
    /\ Moves("views", "publish")
    /\ LET able == Views(round) \cap repos IN
       \E done \in SUBSET able : Play(able, done) /\ views' = views \cup done
    /\ UNCHANGED <<round, setup, repos, synced, published, components, version, promoted,
                   pushes, rest, flawed>>

CvPublish ==
    /\ Moves("publish", "composites")
    /\ LET able == Views(round) \cap views IN
       \E done \in SUBSET able :
         /\ Play(able, done)
         /\ published' = [v \in DOMAIN published |->
                            IF v \notin done THEN published[v]
                            ELSE IF v \in synced THEN "filled" ELSE "hollow"]
    /\ UNCHANGED <<round, setup, repos, synced, views, components, version, promoted,
                   pushes, rest, flawed>>

-----------------------------------------------------------------------------
(***************************************************************************)
(* The rest of the round, in get_base_content_fam: the plays get the list  *)
(* of every composite so far.                                              *)
(***************************************************************************)
CcvCreate ==
    /\ Moves("composites", "publish_composites")
    /\ LET able == {r \in Composites(round) : Components(round, r) \subseteq views} IN
       \E done \in SUBSET able :
         /\ Play(able, done)
         /\ components' = [r \in Rel |-> IF r \in done THEN Components(round, r) ELSE components[r]]
         /\ flawed' = (done # Composites(round))
    /\ UNCHANGED <<round, setup, repos, synced, views, published, version, promoted, pushes, rest>>

Contents(r) == {v \in components[r] : published[v] = "filled"}

CcvPublish ==
    /\ Moves("publish_composites", "promote")
    /\ LET able == {r \in Composites(round) :
                      components[r] # {} /\ \A v \in components[r] : published[v] # "none"} IN
       \E done \in SUBSET able :
         /\ Play(able, done)
         /\ version' = [r \in Rel |-> IF r \in done THEN Contents(r) ELSE version[r]]
         /\ flawed' = (flawed \/ done # Composites(round))
    /\ UNCHANGED <<round, setup, repos, synced, views, published, components, promoted,
                   pushes, rest>>

\* The latest version of every composite, to all LCEs in one call.
CcvPromote ==
    /\ Moves("promote", "push")
    /\ LET able == {r \in Composites(round) : lces /\ version[r] # NoVersion} IN
       \E done \in SUBSET able :
         /\ Play(able, done)
         /\ promoted' = [r \in Rel |-> IF r \in done THEN version[r] ELSE promoted[r]]
         /\ flawed' = (flawed \/ done # Composites(round))
    /\ UNCHANGED <<round, setup, repos, synced, views, published, components, version,
                   pushes, rest>>

EndRound ==
    IF round < N THEN round' = round + 1 /\ pc' = "products"
    ELSE round' = round /\ pc' = "last_wait"

\* Faulty: the push of the product before is not waited for.
PushProductAtOnce ==
    /\ pc = "push" /\ capsules
    /\ push' = [push EXCEPT ![round] = "running"]
    /\ pending' = round
    /\ forked' = [forked EXCEPT ![round] = promoted]
    /\ EndRound
    /\ UNCHANGED <<setup, content, capsule, carried, rest, failures, flawed>>

\* _wait_push: there is no push, or it ended, well or not.
PushOver == pending # 0 => push[pending] # "running"

\* _wait_push, and push_product_fam in the background.
PushProduct ==
    /\ pc = "push" /\ capsules
    /\ PushOver
    /\ push' = [push EXCEPT ![round] = "running"]
    /\ pending' = round
    /\ forked' = [forked EXCEPT ![round] = promoted]
    /\ EndRound
    /\ UNCHANGED <<setup, content, capsule, carried, rest, failures, flawed>>

NoPush ==
    /\ pc = "push" /\ ~capsules
    /\ EndRound
    /\ UNCHANGED <<setup, content, pushes, rest, failures, flawed>>

\* The same wait after the loop.
LastWait ==
    /\ Moves("last_wait", "keys")
    /\ PushOver
    /\ UNCHANGED <<round, setup, content, pushes, rest, failures, flawed>>

AkCreate ==
    /\ Moves("keys", "bench")
    /\ LET able == {r \in Composites(N) : promoted[r] # NoVersion} IN
       \E done \in SUBSET able : Play(able, done) /\ keys' = done
    /\ UNCHANGED <<round, setup, content, pushes, incremental, left, flawed>>

(***************************************************************************)
(* The background shell of a push: capsule_sync.yaml starts one task and   *)
(* waits for it, the task copies release by release, and a second attempt  *)
(* may copy again.                                                         *)
(***************************************************************************)
SyncCapsule(k, r) ==
    /\ push[k] = "running" /\ promoted[r] # NoVersion
    /\ capsule' = [capsule EXCEPT ![r] = promoted[r]]
    /\ carried' = [carried EXCEPT ![k][r] = promoted[r]]
    /\ UNCHANGED <<pc, round, setup, content, push, pending, forked, rest, failures, flawed>>

PushEnds(k) ==
    /\ push[k] = "running"
    /\ \/ /\ \A r \in Rel : forked[k][r] # NoVersion => carried[k][r] # NoVersion
          /\ push' = [push EXCEPT ![k] = "ok"]
          /\ UNCHANGED failures
       \/ /\ failures < MaxFailures
          /\ failures' = failures + 1
          /\ push' = [push EXCEPT ![k] = "failed"]
    /\ UNCHANGED <<pc, round, setup, content, capsule, pending, forked, carried, rest, flawed>>

-----------------------------------------------------------------------------
RhelRepos == {v \in repos : v[1] = Rhel}

\* create_bench_cvs_fam: both views on the RHEL repositories, published.
CreateBenchCvs ==
    /\ Moves("bench", "incremental")
    /\ LET able == IF RhelRepos # {} THEN BenchView ELSE {} IN
       \E done \in SUBSET able :
         /\ Play(able, done)
         /\ views' = views \cup done
         /\ published' = [v \in DOMAIN published |->
                            IF v \notin done THEN published[v]
                            ELSE IF RhelRepos \cap synced # {} THEN "filled" ELSE "hollow"]
    /\ UNCHANGED <<round, setup, repos, synced, components, version, promoted, pushes, rest, flawed>>

\* incremental_cv_updates_fam: its lists are local, so cleanup never sees its view.
IncrementalCvUpdates ==
    /\ Moves("incremental", "done")
    /\ incremental' \in {FALSE, RhelRepos # {}}
    /\ UNCHANGED <<round, setup, content, pushes, keys, left, failures, flawed>>

-----------------------------------------------------------------------------
(***************************************************************************)
(* cleanup_fam.  The entries of content_views are deleted in the order of  *)
(* jq's sort, which compares the names of their fields first: composites   *)
(* have components, a filtered view has filters.                           *)
(***************************************************************************)
\* Faulty: the order they are created in, sort | reverse.
ReverseRank(entry) == IF entry \in Composite THEN 1 ELSE 0

Rank(entry) == IF entry \in Composite THEN 0 ELSE 1

AkDelete ==
    /\ Moves("cleanup", "cv-delete")
    /\ \E done \in SUBSET keys : Play(keys, done) /\ keys' = keys \ done
    /\ left' = ({"CCV"} \X Composites(N)) \cup View \cup BenchView
    /\ UNCHANGED <<round, setup, content, pushes, incremental, flawed>>

InUse(entry) ==
    IF entry \in Composite THEN entry[2] \in keys
    ELSE \E r \in Rel : entry \in components[r]

Deleted(entry) ==
    IF entry \in Composite
    THEN components' = [components EXCEPT ![entry[2]] = {}] /\ UNCHANGED views
    ELSE views' = views \ {entry} /\ UNCHANGED components

\* The play ends at the first entry that is refused.
CvDelete ==
    /\ pc = "cv-delete" /\ left # {}
    /\ \E entry \in left :
         /\ \A other \in left : Rank(entry) <= Rank(other)
         /\ \/ /\ ~InUse(entry)
               /\ Deleted(entry)
               /\ left' = left \ {entry}
               /\ UNCHANGED <<pc, failures>>
            \/ /\ InUse(entry)
               /\ pc' = "product-delete"
               /\ UNCHANGED <<views, components, left, failures>>
            \/ /\ failures < MaxFailures
               /\ failures' = failures + 1
               /\ pc' = "product-delete"
               /\ UNCHANGED <<views, components, left>>
    /\ UNCHANGED <<round, setup, repos, synced, published, version, promoted, pushes, keys,
                   incremental, flawed>>

CvsDeleted ==
    /\ left = {}
    /\ Moves("cv-delete", "product-delete")
    /\ UNCHANGED <<round, setup, content, pushes, rest, failures, flawed>>

UsesProduct(k) ==
    \/ views \cap Views(k) # {}
    \/ Products[k] = Rhel /\ (incremental \/ views \cap BenchView # {})

\* The LCEs go, or stay with what is in them; then the products.
ProductDelete ==
    /\ Moves("product-delete", "clean")
    /\ lces' \in {FALSE, lces}
    /\ LET able == {k \in Round : ~UsesProduct(k)} IN
       \E done \in SUBSET able :
         /\ Play(able, done)
         /\ repos' = repos \ UNION {Views(k) : k \in done}
    /\ UNCHANGED <<round, capsules, manifest, synced, views, published, components, version,
                   promoted, pushes, rest, flawed>>
-----------------------------------------------------------------------------
FetchProduct == ProductCreate \/ ProductSync \/ CvCreate \/ CvPublish
GetBaseContent ==
    \/ FetchProduct
    \/ CcvCreate \/ CcvPublish \/ CcvPromote \/ PushProduct \/ NoPush
    \/ LastWait \/ AkCreate
Background == \E k \in Round : PushEnds(k) \/ \E r \in Rel : SyncCapsule(k, r)
Provide ==
    \/ CreateLces \/ PrepareRhContent \/ GetBaseContent \/ Background
    \/ CreateBenchCvs \/ IncrementalCvUpdates
Cleanup == AkDelete \/ CvDelete \/ CvsDeleted \/ ProductDelete
=============================================================================
