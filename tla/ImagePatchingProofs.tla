------------------------- MODULE ImagePatchingProofs -------------------------
(***************************************************************************)
(* ImagePatching for any pull requests, units, command lines and runs, and *)
(* ImageBuild for any gems, any pull requests and any number of them in    *)
(* one build.                                                              *)
(***************************************************************************)
EXTENDS ImagePatchingProps, ImageBuild, WellFoundedInduction, TLAPS

Fields ==
    {"tag", "units", "dropin", "prs", "whole", "perFile", "force", "dry", "restart", "root",
     "next", "changed", "rejected", "pending", "mounts", "written"}

RunTypeOK ==
    /\ DOMAIN run = Fields
    /\ run.prs \in Seq(PR)
    /\ run.next \in Nat \ {0}
    /\ DOMAIN dropin = Unit /\ \A u \in Unit : DOMAIN dropin[u] = Dropin

\* The migrations a pull request brings.
MigrationsOf(p) == {<<p, f>> : f \in (Adds[p] \ Excluded) \cap Migration}

\* From the first patch to the drop-ins: the migrations of what was patched so
\* far are kept for later, then one after the other run.
NoneForgotten ==
    /\ pc \in {"collect", "extract"} => run.next = 1
    /\ pc = "apply" /\ run.whole =>
         \A k \in 1 .. Len(run.prs) : k < run.next => MigrationsOf(run.prs[k]) \subseteq run.pending
    /\ pc = "migrate" /\ run.whole =>
         \A p \in ToSet(run.prs) : MigrationsOf(p) \subseteq db \cup run.pending
    /\ pc = "dropins" /\ run.whole => \A p \in ToSet(run.prs) : MigrationsOf(p) \subseteq db

DropinsMigrated ==
    \A u \in Unit, d \in Dropin :
      dropin[u][d].whole => \A p \in ToSet(dropin[u][d].prs) : MigrationsOf(p) \subseteq db

PatchingInv == RunTypeOK /\ NoneForgotten /\ DropinsMigrated

-----------------------------------------------------------------------------
LEMMA NoRunFacts ==
    /\ DOMAIN NoRun = Fields /\ NoRun.prs = <<>> /\ NoRun.prs \in Seq(PR) /\ NoRun.next = 1
  BY DEF NoRun, Fields

LEMMA CalledFacts ==
    ASSUME NEW r \in Request
    PROVE  DOMAIN Called(r) = Fields /\ Called(r).prs \in Seq(PR) /\ Called(r).next = 1
  <1>1. Called(r).prs = r.prs /\ Called(r).next = 1 /\ DOMAIN Called(r) = Fields
    BY NoRunFacts DEF Called, Fields
  <1> QED
    BY <1>1 DEF Request

LEMMA PatchingInitHolds == Init => PatchingInv
  <1> SUFFICES ASSUME Init PROVE PatchingInv
    OBVIOUS
  <1>1. RunTypeOK
    BY NoRunFacts DEF Init, RunTypeOK
  <1>2. NoneForgotten /\ DropinsMigrated
    BY DEF Init, NoneForgotten, DropinsMigrated, NoDropin
  <1> QED
    BY <1>1, <1>2 DEF PatchingInv

\* A run that ends, well or not, leaves drop-ins and database to the next one.
LEMMA FinishKeeps ==
    ASSUME PatchingInv, Finish \/ UNCHANGED <<pc, run>>, UNCHANGED <<dropin, db>>
    PROVE  PatchingInv'
  <1>1. RunTypeOK /\ NoneForgotten /\ DropinsMigrated
    BY DEF PatchingInv
  <1>2. DropinsMigrated'
    BY <1>1 DEF DropinsMigrated
  <1>3. CASE Finish
    <2>1. pc' = "idle" /\ run' = NoRun
      BY <1>3 DEF Finish
    <2>2. DOMAIN run' = Fields /\ run'.prs \in Seq(PR) /\ run'.next = 1
      BY <2>1, NoRunFacts
    <2>3. RunTypeOK'
      BY <1>1, <2>2 DEF RunTypeOK
    <2>4. NoneForgotten'
      BY <2>1 DEF NoneForgotten
    <2> QED
      BY <1>2, <2>3, <2>4 DEF PatchingInv
  <1>4. CASE UNCHANGED <<pc, run>>
    <2>1. RunTypeOK'
      BY <1>1, <1>4 DEF RunTypeOK
    <2>2. NoneForgotten'
      BY <1>1, <1>4 DEF NoneForgotten
    <2> QED
      BY <1>2, <2>1, <2>2 DEF PatchingInv
  <1> QED
    BY <1>3, <1>4

LEMMA BeginStep == ASSUME PatchingInv, NEW r \in Requests, Begin(r) PROVE PatchingInv'
  <1>1. CASE UNCHANGED <<pc, run>>
    BY <1>1, FinishKeeps DEF Begin
  <1>2. CASE pc' = "collect" /\ run' = Called(r)
    <2>1. r \in Request
      BY PatchingAssumption
    <2>2. DOMAIN run' = Fields /\ run'.prs \in Seq(PR) /\ run'.next = 1
      BY <1>2, <2>1, CalledFacts
    <2>3. UNCHANGED <<dropin, db>>
      BY DEF Begin
    <2>4. RunTypeOK'
      BY <2>2, <2>3 DEF PatchingInv, RunTypeOK
    <2>5. NoneForgotten' /\ DropinsMigrated'
      BY <1>2, <2>2, <2>3 DEF PatchingInv, NoneForgotten, DropinsMigrated
    <2> QED
      BY <2>4, <2>5 DEF PatchingInv
  <1> QED
    BY <1>1, <1>2 DEF Begin

LEMMA TreeStep == ASSUME PatchingInv, Collect \/ Extract PROVE PatchingInv'
  <1>1. /\ UNCHANGED <<dropin, db, run>>
        /\ pc \in {"collect", "extract"} /\ pc' \in {"extract", "apply"}
    BY DEF Collect, Extract
  <1>2. RunTypeOK' /\ NoneForgotten' /\ DropinsMigrated'
    BY <1>1 DEF PatchingInv, RunTypeOK, NoneForgotten, DropinsMigrated
  <1> QED
    BY <1>2 DEF PatchingInv

LEMMA ApplyStep == ASSUME PatchingInv, Apply PROVE PatchingInv'
  <1> DEFINE p == run.prs[run.next]
  <1>1. /\ RunTypeOK /\ NoneForgotten /\ DropinsMigrated /\ UNCHANGED <<dropin, db>>
        /\ pc = "apply" /\ run.next <= Len(run.prs)
        /\ IF run.whole THEN WriteWholeFiles(p) ELSE ApplyDiff(p)
    BY DEF PatchingInv, Apply
  <1>2. CASE run.whole
    <2>1. /\ pc' = pc /\ DOMAIN run' = Fields /\ run'.prs = run.prs /\ run'.whole = run.whole
          /\ run'.next = run.next + 1
          /\ run'.pending = run.pending \cup {<<p, f>> : f \in Fetched(p) \cap Migration}
      BY <1>1, <1>2 DEF WriteWholeFiles, RunTypeOK, Fields
    <2>2. MigrationsOf(p) \subseteq run'.pending /\ run.pending \subseteq run'.pending
      BY <2>1 DEF MigrationsOf, Fetched
    <2>3. RunTypeOK'
      BY <1>1, <2>1 DEF RunTypeOK
    <2>4. \A k \in 1 .. Len(run.prs) : k < run'.next =>
            k = run.next \/ MigrationsOf(run.prs[k]) \subseteq run.pending
      BY <1>1, <1>2, <2>1 DEF RunTypeOK, NoneForgotten
    <2>5. NoneForgotten'
      BY <1>1, <1>2, <2>1, <2>2, <2>4 DEF NoneForgotten
    <2>6. DropinsMigrated'
      BY <1>1 DEF DropinsMigrated
    <2> QED
      BY <2>3, <2>5, <2>6 DEF PatchingInv
  <1>3. CASE ~run.whole
    <2>1. CASE Finish
      BY <1>1, <2>1, FinishKeeps
    <2>2. CASE ~Finish
      <3>1. /\ pc' = pc /\ DOMAIN run' = Fields /\ run'.prs = run.prs
            /\ run'.whole = run.whole /\ run'.next = run.next + 1
        BY <1>1, <1>3, <2>2 DEF ApplyDiff, RunTypeOK, Fields
      <3>2. RunTypeOK'
        BY <1>1, <3>1 DEF RunTypeOK
      <3>3. NoneForgotten' /\ DropinsMigrated'
        BY <1>1, <1>3, <3>1 DEF NoneForgotten, DropinsMigrated
      <3> QED
        BY <3>2, <3>3 DEF PatchingInv
    <2> QED
      BY <2>1, <2>2
  <1> QED
    BY <1>2, <1>3

LEMMA ManifestStep == ASSUME PatchingInv, Manifest PROVE PatchingInv'
  <1>1. /\ RunTypeOK /\ NoneForgotten /\ DropinsMigrated /\ UNCHANGED <<dropin, db>>
        /\ pc = "apply" /\ run.next > Len(run.prs)
    BY DEF PatchingInv, Manifest
  <1>2. CASE run.dry
    <2>1. run' = NoRun /\ pc' = "idle"
      BY <1>2 DEF Manifest, NextAfterManifest
    <2> QED
      BY <1>1, <2>1, FinishKeeps DEF Finish
  <1>3. CASE ~run.dry
    <2>1. /\ pc' = "migrate" /\ DOMAIN run' = Fields /\ run'.prs = run.prs /\ run'.next = run.next
          /\ run'.whole = run.whole /\ run'.pending = run.pending
      BY <1>1, <1>3 DEF Manifest, NextAfterManifest, RunTypeOK, Fields
    <2>2. RunTypeOK' /\ DropinsMigrated'
      BY <1>1, <2>1 DEF RunTypeOK, DropinsMigrated
    <2>3. ASSUME run.whole, NEW q \in ToSet(run.prs)
          PROVE  MigrationsOf(q) \subseteq run.pending
      <3>1. PICK k \in DOMAIN run.prs : q = run.prs[k]
        BY <2>3 DEF ToSet
      <3>2. k \in 1 .. Len(run.prs) /\ k < run.next
        BY <1>1, <3>1 DEF RunTypeOK
      <3> QED
        BY <1>1, <2>3, <3>1, <3>2 DEF NoneForgotten
    <2>4. NoneForgotten'
      BY <2>1, <2>3 DEF NoneForgotten
    <2> QED
      BY <2>2, <2>4 DEF PatchingInv
  <1> QED
    BY <1>2, <1>3

LEMMA MigrateStep == ASSUME PatchingInv, Migrate PROVE PatchingInv'
  <1>1. /\ RunTypeOK /\ NoneForgotten /\ DropinsMigrated /\ dropin' = dropin /\ pc = "migrate"
    BY DEF PatchingInv, Migrate
  <1>2. CASE run.pending = {}
    <2>1. pc' = "dropins" /\ run' = run /\ db' = db
      BY <1>2 DEF Migrate
    <2>2. RunTypeOK' /\ NoneForgotten' /\ DropinsMigrated'
      BY <1>1, <1>2, <2>1 DEF RunTypeOK, NoneForgotten, DropinsMigrated
    <2> QED
      BY <2>2 DEF PatchingInv
  <1>3. CASE run.pending # {}
    <2>1. PICK m \in run.pending :
            db' = db \cup {m} /\ run' = [run EXCEPT !.pending = run.pending \ {m}] /\ pc' = pc
      BY <1>3 DEF Migrate
    <2>2. /\ DOMAIN run' = Fields /\ run'.prs = run.prs /\ run'.next = run.next
          /\ run'.whole = run.whole /\ run'.pending = run.pending \ {m}
      BY <1>1, <2>1 DEF RunTypeOK, Fields
    <2>3. db \cup run.pending = db' \cup run'.pending /\ db \subseteq db'
      BY <2>1, <2>2
    <2>4. RunTypeOK' /\ NoneForgotten' /\ DropinsMigrated'
      BY <1>1, <2>1, <2>2, <2>3 DEF RunTypeOK, NoneForgotten, DropinsMigrated
    <2> QED
      BY <2>4 DEF PatchingInv
  <1> QED
    BY <1>2, <1>3

LEMMA WriteDropinStep == ASSUME PatchingInv, WriteDropin PROVE PatchingInv'
  <1>1. /\ RunTypeOK /\ NoneForgotten /\ DropinsMigrated /\ db' = db /\ pc' = pc /\ pc = "dropins"
    BY DEF PatchingInv, WriteDropin
  <1> DEFINE new == [mounts |-> run.mounts, prs |-> run.prs, whole |-> run.whole]
  <1>2. PICK u \in run.units \ run.written :
          /\ dropin' = [dropin EXCEPT ![u][run.dropin] = new]
          /\ run' = [run EXCEPT !.written = run.written \cup {u}]
    BY DEF WriteDropin
  <1>3. /\ DOMAIN run' = Fields /\ run'.prs = run.prs /\ run'.next = run.next
        /\ run'.whole = run.whole /\ run'.pending = run.pending
    BY <1>1, <1>2 DEF RunTypeOK, Fields
  <1>4. new.whole => \A p \in ToSet(new.prs) : MigrationsOf(p) \subseteq db
    BY <1>1 DEF NoneForgotten
  <1> HIDE DEF new
  <1>5. /\ DOMAIN dropin' = Unit /\ \A v \in Unit : DOMAIN dropin'[v] = Dropin
        /\ \A v \in Unit, d \in Dropin : dropin'[v][d] \in {new, dropin[v][d]}
    BY <1>1, <1>2 DEF RunTypeOK
  <1>6. RunTypeOK' /\ NoneForgotten'
    BY <1>1, <1>3, <1>5 DEF RunTypeOK, NoneForgotten
  <1>7. DropinsMigrated'
    BY <1>1, <1>4, <1>5 DEF DropinsMigrated
  <1> QED
    BY <1>6, <1>7 DEF PatchingInv

LEMMA PatchingInvInductive == PatchingInv /\ [Next]_vars => PatchingInv'
  <1> SUFFICES ASSUME PatchingInv, [Next]_vars PROVE PatchingInv'
    OBVIOUS
  <1>1. CASE UNCHANGED vars
    BY <1>1, FinishKeeps DEF vars
  <1>2. CASE Restart \/ Exit
    BY <1>2, FinishKeeps DEF Restart, Exit
  <1>3. CASE Next /\ ~(Restart \/ Exit)
    BY <1>3, BeginStep, TreeStep, ApplyStep, ManifestStep, MigrateStep, WriteDropinStep
    DEF Next, Step
  <1> QED
    BY <1>1, <1>2, <1>3

(***************************************************************************)
(* Whatever is patched, stopped halfway, forced over an earlier patch root *)
(* or given to several units: no drop-in mounts whole files before every   *)
(* migration among them has run.                                           *)
(***************************************************************************)
THEOREM SpecMigratedBeforeMounted == Spec => []MigratedBeforeMounted
  <1>1. PatchingInv => MigratedBeforeMounted
    BY DEF PatchingInv, DropinsMigrated, MigratedBeforeMounted, MigrationsOf
  <1> QED
    BY <1>1, PatchingInitHolds, PatchingInvInductive, PTL DEF Spec
-----------------------------------------------------------------------------
(***************************************************************************)
(* What a run that came to a good end promises.                            *)
(***************************************************************************)
TreeFields == {"root", "gen", "bases", "files", "in", "manifest"}
TreeTypeOK == DOMAIN tree = Tag /\ \A t \in Tag : DOMAIN tree[t] = TreeFields

\* A file a pull request brings, and those its run's pull requests remove.
Brought(p) == Adds[p] \ (Excluded \cup Dangling)
Gone(prs) == UNION {Removes[q] : q \in ToSet(prs)}

\* What is patched so far, by a run r in a patch root t.
DiffsLaid(r, t) ==
    \A k \in 1 .. Len(r.prs) : k < r.next =>
      \A f \in Brought(r.prs[k]) \ r.rejected :
        f \in r.changed /\ r.prs[k] \in t.in[f] /\ (f \notin Gone(r.prs) => f \in t.files)

WholeLaid(r, t) ==
    \A k \in 1 .. Len(r.prs) : k < r.next =>
      \A f \in Brought(r.prs[k]) :
        /\ f \in r.changed /\ f \in t.files
        /\ (\A j \in 1 .. Len(r.prs) : j < r.next /\ f \in Adds[r.prs[j]] => j <= k)
             => t.in[f] = {r.prs[k]}

Laid(r, t) ==
    /\ IF r.whole THEN WholeLaid(r, t) ELSE DiffsLaid(r, t)
    /\ r.whole \/ ~r.perFile => r.rejected = {}
    /\ {BaseOf[p] : p \in ToSet(r.prs)} \subseteq t.bases

\* The mounts are those of what was patched.
MountsFit(r, t) ==
    /\ r.mounts = t.manifest
    /\ \A m \in r.mounts :
         m.tag = r.tag /\ m.path[1] \in t.bases /\ (Len(m.path) = 2 => m.path[2] \in t.files)
    /\ IF r.perFile
       THEN \A b \in t.bases : \A f \in r.changed \cap t.files \cap FilesIn[b] :
              [tag |-> r.tag, path |-> <<b, f>>] \in r.mounts
       ELSE \A b \in t.bases : [tag |-> r.tag, path |-> <<b>>] \in r.mounts

\* A run has its tag to itself: nothing is promised of it.
Running ==
    pc # "idle" =>
      /\ run.tag \in Tag /\ run.dropin \in Dropin /\ run.units \subseteq Unit
      /\ tree[run.tag].root
      /\ \A p \in promised : p.tag # run.tag
      /\ pc \in {"collect", "extract"} => run.next = 1 /\ run.rejected = {} /\ run.written = {}
      /\ pc \in {"apply", "migrate", "dropins"} => Laid(run, tree[run.tag])
      /\ pc \in {"apply", "migrate"} => run.written = {}
      /\ pc \in {"migrate", "dropins"} => run.next > Len(run.prs) /\ MountsFit(run, tree[run.tag])
      /\ pc = "dropins" =>
           \A u \in run.units \cap run.written :
             /\ dropin[u][run.dropin].mounts = run.mounts
             /\ \A p \in promised : p.unit # u \/ p.dropin # run.dropin

\* The mounts of a drop-in, as a container started now has them.
OwnMounts(p) == dropin[p.unit][p.dropin].mounts
OwnMounted(p) == {[mount |-> m, gen |-> tree[p.tag].gen] : m \in OwnMounts(p)}

Delivered(p, k, f) ==
    /\ \E m \in OwnMounts(p) : m.path \in {<<BaseOf[p.prs[k]]>>, <<BaseOf[p.prs[k]], f>>}
    /\ f \in tree[p.tag].files
    /\ Kept(p, f) \ (IF p.perFile THEN {q \in PR : f \in p.rejected} ELSE {}) \subseteq tree[p.tag].in[f]

Stays(p) ==
    /\ p.unit \in Unit /\ p.dropin \in Dropin /\ p.tag \in Tag /\ tree[p.tag].root
    /\ \A m \in OwnMounts(p) : m.tag = p.tag /\ HostPathExists(m)
    /\ OwnMounts(p) = tree[p.tag].manifest
    /\ p.live => OwnMounted(p) \subseteq running[p.unit]
    /\ \A k \in 1 .. Len(p.prs) : \A f \in Shown(p, k) : Delivered(p, k, f)

RunningTypeOK == DOMAIN running = Unit

AppliedInv ==
    /\ PatchingInv /\ TreeTypeOK /\ RunningTypeOK
    /\ Running /\ \A p \in promised : Stays(p)

LEMMA FilesOfRequests ==
    /\ \A p \in PR : BaseOf[p] \in Base /\ Brought(p) \subseteq File /\ Brought(p) \subseteq FilesIn[BaseOf[p]]
  BY PatchingAssumption DEF Brought

LEMMA MembersOf == ASSUME NEW S, NEW s \in Seq(S), NEW k \in 1 .. Len(s)
                   PROVE  s[k] \in S /\ s[k] \in ToSet(s)
  BY DEF ToSet

LEMMA NewRootFacts ==
    ASSUME NEW gen
    PROVE  /\ DOMAIN [NoRoot(gen) EXCEPT !.root = TRUE] = TreeFields
           /\ [NoRoot(gen) EXCEPT !.root = TRUE].root = TRUE
  BY DEF NoRoot, TreeFields

LEMMA CalledRun ==
    ASSUME NEW r \in Request
    PROVE  /\ Called(r).tag = r.tag /\ Called(r).dropin = r.dropin /\ Called(r).units = r.units
           /\ Called(r).next = 1 /\ Called(r).rejected = {} /\ Called(r).written = {}
  BY DEF Called, NoRun

-----------------------------------------------------------------------------
(***************************************************************************)
(* A promise is kept where its patch root, drop-in and container are left  *)
(* alone, and by a start of its unit.                                      *)
(***************************************************************************)
LEMMA StaysKept ==
    ASSUME NEW p, Stays(p), tree'[p.tag] = tree[p.tag],
           dropin'[p.unit][p.dropin] = dropin[p.unit][p.dropin],
           \/ running'[p.unit] = running[p.unit]
           \/ running'[p.unit] = Mounted(p.unit)
    PROVE  Stays(p)'
  <1>1. OwnMounts(p)' = OwnMounts(p)
    BY DEF OwnMounts
  <1>2. \A m \in OwnMounts(p) : m.tag = p.tag /\ HostPathExists(m)'
    BY DEF Stays, HostPathExists
  <1>3. OwnMounted(p)' = OwnMounted(p)
    BY <1>1 DEF OwnMounted
  <1>4. \A x \in OwnMounted(p) : x \in Mounted(p.unit)
    <2> TAKE x \in OwnMounted(p)
    <2>1. PICK m \in OwnMounts(p) : x = [mount |-> m, gen |-> tree[p.tag].gen]
      BY DEF OwnMounted
    <2>2. m \in MountsOf(p.unit) /\ m.tag = p.tag
      BY <2>1 DEF Stays, OwnMounts, MountsOf
    <2> QED
      BY <2>1, <2>2 DEF Mounted
  <1>5. p.live => OwnMounted(p) \subseteq running'[p.unit]
    BY <1>4 DEF Stays
  <1>6. \A k \in 1 .. Len(p.prs) : \A f \in Shown(p, k) : Delivered(p, k, f)'
    BY <1>1 DEF Stays, Delivered
  <1> QED
    BY <1>1, <1>2, <1>3, <1>5, <1>6 DEF Stays

\* A run patches only the root of its own tag.
LEMMA OthersKept ==
    ASSUME AppliedInv, pc # "idle", NEW new, tree' = [tree EXCEPT ![run.tag] = new],
           DOMAIN new = TreeFields, UNCHANGED <<dropin, running, promised>>
    PROVE  /\ TreeTypeOK' /\ RunningTypeOK' /\ \A p \in promised' : Stays(p)'
           /\ run.tag \in Tag /\ tree'[run.tag] = new
  <1>1. run.tag \in Tag /\ \A p \in promised : p.tag # run.tag
    BY DEF AppliedInv, Running
  <1>2. tree'[run.tag] = new /\ \A t \in Tag \ {run.tag} : tree'[t] = tree[t]
    BY <1>1 DEF AppliedInv, TreeTypeOK
  <1>3. TreeTypeOK' /\ RunningTypeOK'
    BY <1>1, <1>2 DEF AppliedInv, TreeTypeOK, RunningTypeOK
  <1>4. ASSUME NEW p \in promised PROVE Stays(p)'
    <2>1. Stays(p)
      BY <1>4 DEF AppliedInv
    <2>2. p.tag \in Tag /\ p.tag # run.tag
      BY <1>1, <2>1 DEF Stays
    <2> QED
      BY <1>2, <2>1, <2>2, StaysKept
  <1> QED
    BY <1>1, <1>2, <1>3, <1>4

LEMMA AllKept ==
    ASSUME AppliedInv, UNCHANGED <<tree, dropin, running>>, promised' \subseteq promised
    PROVE  TreeTypeOK' /\ RunningTypeOK' /\ \A p \in promised' : Stays(p)'
  <1>1. TreeTypeOK' /\ RunningTypeOK'
    BY DEF AppliedInv, TreeTypeOK, RunningTypeOK
  <1>2. \A p \in promised' : Stays(p)
    BY DEF AppliedInv
  <1> QED
    BY <1>1, <1>2, StaysKept

-----------------------------------------------------------------------------
LEMMA BeginApplied == ASSUME AppliedInv, NEW r \in Requests, Begin(r), PatchingInv' PROVE AppliedInv'
  <1> USE DEF AppliedInv
  <1>1. r \in Request /\ r.tag \in Tag /\ r.dropin \in Dropin /\ r.units \subseteq Unit
    BY PatchingAssumption DEF Request
  <1>2. CASE ~MayUseRoot(r)
    <2>1. UNCHANGED <<tree, dropin, running, promised, pc, run>> /\ pc = "idle"
      BY <1>2 DEF Begin
    <2> QED
      BY <2>1, AllKept DEF Running
  <1>3. CASE MayUseRoot(r)
    <2>1. /\ pc = "idle" /\ UNCHANGED <<dropin, running>>
          /\ promised' = {p \in promised : p.tag # r.tag \/ ~r.force}
          /\ \/ pc' = "collect" /\ run' = Called(r)
             \/ UNCHANGED <<pc, run>>
      BY <1>3 DEF Begin
    <2>2. PICK gen : tree' = [tree EXCEPT ![r.tag] = [NoRoot(gen) EXCEPT !.root = TRUE]]
      BY <1>3 DEF Begin
    <2>3. /\ tree'[r.tag].root /\ DOMAIN tree'[r.tag] = TreeFields
          /\ \A t \in Tag \ {r.tag} : tree'[t] = tree[t]
      BY <1>1, <2>2, NewRootFacts DEF TreeTypeOK
    <2>4. TreeTypeOK' /\ RunningTypeOK'
      BY <2>1, <2>2, <2>3 DEF TreeTypeOK, RunningTypeOK
    <2>5. \A p \in promised' : p \in promised /\ Stays(p) /\ p.tag # r.tag
      BY <1>3, <2>1 DEF Stays, MayUseRoot
    <2>6. ASSUME NEW p \in promised' PROVE Stays(p)'
      <3>1. Stays(p) /\ p.tag \in Tag /\ p.tag # r.tag
        BY <2>5, <2>6 DEF Stays
      <3> QED
        BY <2>1, <2>3, <3>1, StaysKept
    <2>7. Running'
      <3>1. CASE UNCHANGED <<pc, run>>
        BY <2>1, <3>1 DEF Running
      <3>2. CASE pc' = "collect" /\ run' = Called(r)
        <4>1. /\ run'.tag = r.tag /\ run'.dropin = r.dropin /\ run'.units = r.units
              /\ run'.next = 1 /\ run'.rejected = {} /\ run'.written = {}
          BY <1>1, <3>2, CalledRun
        <4> QED
          BY <1>1, <2>3, <2>5, <3>2, <4>1 DEF Running
      <3> QED
        BY <2>1, <3>1, <3>2
    <2> QED
      BY <2>4, <2>6, <2>7
  <1> QED
    BY <1>2, <1>3

LEMMA CollectApplied == ASSUME AppliedInv, Collect, PatchingInv' PROVE AppliedInv'
  <1>1. UNCHANGED <<tree, dropin, running, run, promised>> /\ pc = "collect" /\ pc' = "extract"
    BY DEF Collect
  <1>2. Running'
    BY <1>1 DEF AppliedInv, Running
  <1> QED
    BY <1>1, <1>2, AllKept DEF AppliedInv

LEMMA ExtractApplied == ASSUME AppliedInv, Extract, PatchingInv' PROVE AppliedInv'
  <1>1. UNCHANGED <<dropin, running, run, promised>> /\ pc = "extract"
    BY DEF Extract
  <1>2. Running /\ RunTypeOK
    BY DEF AppliedInv, PatchingInv
  <1>3. CASE BaseDirs \subseteq Root.bases
    <2>1. pc' = "apply" /\ UNCHANGED tree
      BY <1>3 DEF Extract
    <2>2. Laid(run, tree[run.tag])
      BY <1>1, <1>2, <1>3 DEF Running, RunTypeOK, Laid, WholeLaid, DiffsLaid, BaseDirs, Root
    <2>3. Running'
      BY <1>1, <1>2, <2>1, <2>2 DEF Running
    <2> QED
      BY <1>1, <2>1, <2>3, AllKept DEF AppliedInv
  <1>4. CASE ~(BaseDirs \subseteq Root.bases)
    <2>1. PICK b \in BaseDirs \ Root.bases : SetRoot(Extracted(b)) /\ pc' = pc
      BY <1>4 DEF Extract
    <2>2. run.tag \in Tag /\ DOMAIN Root = TreeFields
      BY <1>1, <1>2 DEF AppliedInv, TreeTypeOK, Running, Root
    <2>3. DOMAIN Extracted(b) = TreeFields /\ Extracted(b).root = Root.root
      BY <2>2 DEF Extracted, TreeFields
    <2>4. /\ TreeTypeOK' /\ RunningTypeOK' /\ \A p \in promised' : Stays(p)'
          /\ tree'[run.tag] = Extracted(b)
      BY <1>1, <2>1, <2>3, OthersKept DEF SetRoot
    <2>5. Running'
      BY <1>1, <1>2, <2>1, <2>3, <2>4 DEF Running, Root
    <2> QED
      BY <2>4, <2>5 DEF AppliedInv
  <1> QED
    BY <1>3, <1>4

-----------------------------------------------------------------------------
(***************************************************************************)
(* One pull request is laid over what is there.                            *)
(***************************************************************************)
\* A run r and its patch root t, when p was laid over run and Root.
WholeOver(p, r, t) ==
    /\ p = run.prs[run.next] /\ run.next <= Len(run.prs) /\ run.whole
    /\ r.prs = run.prs /\ r.next = run.next + 1 /\ r.whole /\ r.rejected = run.rejected
    /\ r.changed = run.changed \cup Brought(p)
    /\ t.bases = Root.bases /\ t.files = Root.files \cup Brought(p)
    /\ \A f \in File : t.in[f] = IF f \in Brought(p) THEN {p} ELSE Root.in[f]

DiffOver(p, cut, rejected, part, r, t) ==
    /\ p = run.prs[run.next] /\ run.next <= Len(run.prs) /\ ~run.whole
    /\ cut = (Adds[p] \cup Removes[p]) \ (Excluded \cup Dangling)
    /\ rejected \subseteq cut /\ (rejected = {} \/ run.perFile)
    /\ r.prs = run.prs /\ r.next = run.next + 1 /\ ~r.whole /\ r.perFile = run.perFile
    /\ r.rejected = run.rejected \cup rejected
    /\ r.changed = (run.changed \cup part) \cup (cut \ rejected)
    /\ t.bases = Root.bases
    /\ t.files = (Root.files \cup (Adds[p] \cap (cut \ rejected))) \ (Removes[p] \cap (cut \ rejected))
    /\ \A f \in File : t.in[f] = IF f \in cut \ rejected THEN Root.in[f] \cup {p} ELSE Root.in[f]

LEMMA LayWhole ==
    ASSUME RunTypeOK, Laid(run, Root), NEW p, NEW t, NEW r, WholeOver(p, r, t)
    PROVE  Laid(r, t)
  <1> USE DEF WholeOver
  <1>1. run.prs \in Seq(PR) /\ run.next \in 1 .. Len(run.prs)
    BY DEF RunTypeOK
  <1>2. p \in PR /\ Brought(p) \subseteq File
    BY <1>1, FilesOfRequests
  <1>3. ASSUME NEW k \in 1 .. Len(run.prs), k < run.next + 1, NEW f \in Brought(run.prs[k])
        PROVE  /\ f \in r.changed /\ f \in t.files
               /\ (\A j \in 1 .. Len(run.prs) : j < run.next + 1 /\ f \in Adds[run.prs[j]] => j <= k)
                    => t.in[f] = {run.prs[k]}
    <2>1. CASE k = run.next
      BY <1>2, <1>3, <2>1
    <2>2. CASE k < run.next
      <3>1. /\ f \in run.changed /\ f \in Root.files
            /\ (\A j \in 1 .. Len(run.prs) : j < run.next /\ f \in Adds[run.prs[j]] => j <= k)
                 => Root.in[f] = {run.prs[k]}
        BY <1>3, <2>2 DEF Laid, WholeLaid
      <3>2. ASSUME \A j \in 1 .. Len(run.prs) : j < run.next + 1 /\ f \in Adds[run.prs[j]] => j <= k
            PROVE  t.in[f] = {run.prs[k]}
        <4>1. f \notin Brought(p)
          BY <1>1, <2>2, <3>2 DEF Brought
        <4>2. \A j \in 1 .. Len(run.prs) : j < run.next /\ f \in Adds[run.prs[j]] => j <= k
          BY <1>1, <3>2
        <4>3. f \in File
          BY <1>1, <1>3, FilesOfRequests
        <4> QED
          BY <3>1, <4>1, <4>2, <4>3
      <3> QED
        BY <3>1, <3>2
    <2> QED
      BY <1>1, <1>3, <2>1, <2>2
  <1>4. WholeLaid(r, t)
    BY <1>3 DEF WholeLaid
  <1> QED
    BY <1>4 DEF Laid

LEMMA LayDiff ==
    ASSUME RunTypeOK, Laid(run, Root), NEW p, NEW cut, NEW rejected, NEW part, NEW r, NEW t,
           DiffOver(p, cut, rejected, part, r, t)
    PROVE  Laid(r, t)
  <1> USE DEF DiffOver
  <1>1. run.prs \in Seq(PR) /\ run.next \in 1 .. Len(run.prs)
    BY DEF RunTypeOK
  <1>2. p \in PR /\ p \in ToSet(run.prs) /\ Brought(p) \subseteq cut
    BY <1>1, MembersOf DEF Brought
  <1>3. ASSUME NEW k \in 1 .. Len(run.prs), k < run.next + 1, NEW f \in Brought(run.prs[k]) \ r.rejected
        PROVE  f \in r.changed /\ run.prs[k] \in t.in[f] /\ (f \notin Gone(run.prs) => f \in t.files)
    <2>1. f \in File
      BY <1>1, FilesOfRequests
    <2>2. f \notin Gone(run.prs) => f \notin Removes[p]
      BY <1>2 DEF Gone
    <2>3. CASE k = run.next
      <3>1. f \in cut \ rejected /\ f \in Adds[p] /\ run.prs[k] = p
        BY <1>2, <1>3, <2>3 DEF Brought
      <3>2. p \in t.in[f]
        BY <2>1, <3>1
      <3>3. f \notin Gone(run.prs) => f \in t.files
        BY <2>2, <3>1
      <3> QED
        BY <3>1, <3>2, <3>3
    <2>4. CASE k < run.next
      <3>1. f \in run.changed /\ run.prs[k] \in Root.in[f] /\ (f \notin Gone(run.prs) => f \in Root.files)
        BY <1>3, <2>4 DEF Laid, DiffsLaid
      <3>2. run.prs[k] \in t.in[f]
        BY <2>1, <3>1
      <3>3. f \notin Gone(run.prs) => f \in t.files
        BY <2>2, <3>1
      <3> QED
        BY <3>1, <3>2, <3>3
    <2> QED
      BY <1>1, <1>3, <2>3, <2>4
  <1>4. DiffsLaid(r, t)
    BY <1>3 DEF DiffsLaid
  <1>5. r.whole \/ ~r.perFile => r.rejected = {}
    BY DEF Laid
  <1> QED
    BY <1>4, <1>5 DEF Laid

LEMMA ApplyApplied == ASSUME AppliedInv, Apply, PatchingInv' PROVE AppliedInv'
  <1>1. /\ RunTypeOK /\ Running /\ TreeTypeOK
        /\ pc = "apply" /\ run.next <= Len(run.prs) /\ UNCHANGED <<dropin, db, running, promised>>
    BY DEF AppliedInv, PatchingInv, Apply
  <1>2. PICK p : /\ p = run.prs[run.next]
                 /\ IF run.whole THEN WriteWholeFiles(p) ELSE ApplyDiff(p)
    BY DEF Apply
  <1>3. run.tag \in Tag /\ DOMAIN Root = TreeFields /\ Laid(run, Root) /\ Root.root /\ run.written = {}
    BY <1>1 DEF Running, TreeTypeOK, Root
  <1>4. ASSUME NEW t, SetRoot(t), DOMAIN t = TreeFields, t.root = Root.root,
               \/ Finish
               \/ /\ pc' = pc /\ run'.tag = run.tag /\ run'.dropin = run.dropin /\ run'.units = run.units
                  /\ run'.written = run.written /\ Laid(run', t)
        PROVE  AppliedInv'
    <2>1. /\ TreeTypeOK' /\ RunningTypeOK' /\ \A q \in promised' : Stays(q)'
          /\ tree'[run.tag] = t
      BY <1>1, <1>4, OthersKept DEF SetRoot
    <2>2. Running'
      BY <1>1, <1>3, <1>4, <2>1 DEF Running, Finish
    <2> QED
      BY <2>1, <2>2 DEF AppliedInv
  <1>5. CASE run.whole
    <2> DEFINE t == [Root EXCEPT !.files = Root.files \cup Brought(p),
                                 !.in = [f \in File |-> IF f \in Brought(p) THEN {p} ELSE Root.in[f]]]
    <2>1. Brought(p) = Fetched(p) \ Dangling
      BY DEF Brought, Fetched
    <2>2. /\ SetRoot(t) /\ pc' = pc
          /\ run' = [run EXCEPT !.next = run.next + 1, !.changed = run.changed \cup Brought(p),
                                !.pending = run.pending \cup {<<p, f>> : f \in Fetched(p) \cap Migration}]
      BY <1>2, <1>5, <2>1 DEF WriteWholeFiles
    <2>3. /\ DOMAIN t = TreeFields /\ t.root = Root.root /\ t.bases = Root.bases
          /\ t.files = Root.files \cup Brought(p)
          /\ \A f \in File : t.in[f] = IF f \in Brought(p) THEN {p} ELSE Root.in[f]
      BY <1>3 DEF TreeFields
    <2>4. /\ run'.prs = run.prs /\ run'.next = run.next + 1 /\ run'.whole = run.whole
          /\ run'.rejected = run.rejected /\ run'.changed = run.changed \cup Brought(p)
          /\ run'.tag = run.tag /\ run'.dropin = run.dropin /\ run'.units = run.units
          /\ run'.written = run.written
      BY <1>1, <2>2 DEF RunTypeOK, Fields
    <2> HIDE DEF t
    <2>5. Laid(run', t)
      <3>1. PICK r : r = run'
        OBVIOUS
      <3>2. /\ r.prs = run.prs /\ r.next = run.next + 1 /\ r.whole
            /\ r.rejected = run.rejected /\ r.changed = run.changed \cup Brought(p)
        BY <1>5, <2>4, <3>1
      <3>3. Laid(r, t)
        <4>1. WholeOver(p, r, t)
          BY <1>1, <1>2, <1>5, <2>3, <3>2 DEF WholeOver
        <4> QED
          BY <1>1, <1>3, <4>1, LayWhole
      <3> QED
        BY <3>1, <3>3
    <2> QED
      BY <1>4, <2>2, <2>3, <2>4, <2>5
  <1>6. CASE ~run.whole
    <2> DEFINE cut == (Adds[p] \cup Removes[p]) \ (Excluded \cup Dangling)
    <2>1. PICK rejected \in SUBSET cut, part \in SUBSET cut :
            /\ SetRoot([Root EXCEPT
                  !.files = (Root.files \cup (Adds[p] \cap (cut \ rejected)))
                              \ (Removes[p] \cap (cut \ rejected)),
                  !.in = [f \in File |-> IF f \in cut \ rejected THEN Root.in[f] \cup {p} ELSE Root.in[f]]])
            /\ IF DiffAccepted(rejected)
               THEN /\ run' = [run EXCEPT !.next = run.next + 1,
                                          !.changed = (run.changed \cup part) \cup (cut \ rejected),
                                          !.rejected = run.rejected \cup rejected]
                    /\ UNCHANGED pc
               ELSE Finish
      BY <1>2, <1>6 DEF ApplyDiff
    <2>2. PICK done : done = cut \ rejected
      OBVIOUS
    <2> DEFINE t == [Root EXCEPT
                       !.files = (Root.files \cup (Adds[p] \cap done)) \ (Removes[p] \cap done),
                       !.in = [f \in File |-> IF f \in done THEN Root.in[f] \cup {p} ELSE Root.in[f]]]
    <2> HIDE DEF cut
    <2>3. /\ SetRoot(t)
          /\ IF DiffAccepted(rejected)
             THEN /\ run' = [run EXCEPT !.next = run.next + 1,
                                        !.changed = (run.changed \cup part) \cup done,
                                        !.rejected = run.rejected \cup rejected]
                  /\ UNCHANGED pc
             ELSE Finish
      BY <2>1, <2>2
    <2>5. /\ DOMAIN t = TreeFields /\ t.root = Root.root /\ t.bases = Root.bases
          /\ t.files = (Root.files \cup (Adds[p] \cap done)) \ (Removes[p] \cap done)
          /\ \A f \in File : t.in[f] = IF f \in done THEN Root.in[f] \cup {p} ELSE Root.in[f]
      BY <1>3 DEF TreeFields
    <2> HIDE DEF t
    <2>6. CASE ~DiffAccepted(rejected)
      BY <1>4, <2>3, <2>5, <2>6
    <2>7. CASE DiffAccepted(rejected)
      <3>1. /\ run'.prs = run.prs /\ run'.next = run.next + 1 /\ run'.whole = run.whole
            /\ run'.perFile = run.perFile
            /\ run'.rejected = run.rejected \cup rejected
            /\ run'.changed = (run.changed \cup part) \cup done
            /\ run'.tag = run.tag /\ run'.dropin = run.dropin /\ run'.units = run.units
            /\ run'.written = run.written /\ pc' = pc
        BY <1>1, <2>3, <2>7 DEF RunTypeOK, Fields
      <3>2. PICK r : r = run'
        OBVIOUS
      <3>3. /\ r.prs = run.prs /\ r.next = run.next + 1 /\ ~r.whole /\ r.perFile = run.perFile
            /\ r.rejected = run.rejected \cup rejected /\ r.changed = (run.changed \cup part) \cup (cut \ rejected)
        BY <1>6, <2>2, <3>1, <3>2
      <3>4. /\ t.files = (Root.files \cup (Adds[p] \cap (cut \ rejected))) \ (Removes[p] \cap (cut \ rejected))
            /\ \A f \in File : t.in[f] = IF f \in cut \ rejected THEN Root.in[f] \cup {p} ELSE Root.in[f]
        BY <2>2, <2>5
      <3>5. rejected = {} \/ run.perFile
        BY <2>7 DEF DiffAccepted
      <3>6. cut = (Adds[p] \cup Removes[p]) \ (Excluded \cup Dangling)
        BY DEF cut
      <3>7. Laid(r, t)
        <4>1. DiffOver(p, cut, rejected, part, r, t)
          BY <1>1, <1>2, <1>6, <2>1, <2>5, <3>3, <3>4, <3>5, <3>6 DEF DiffOver
        <4> QED
          BY <1>1, <1>3, <4>1, LayDiff
      <3> QED
        BY <1>4, <2>3, <2>5, <3>1, <3>2, <3>7
    <2> QED
      BY <2>6, <2>7
  <1> QED
    BY <1>5, <1>6

-----------------------------------------------------------------------------
\* A run that ends, well or not, leaves its tag to the next one.
LEMMA EndApplied ==
    ASSUME AppliedInv, PatchingInv', pc' = "idle", UNCHANGED <<tree, dropin, running, promised>>
    PROVE  AppliedInv'
  <1>1. Running'
    BY DEF Running
  <1> QED
    BY <1>1, AllKept DEF AppliedInv

LEMMA ManifestApplied == ASSUME AppliedInv, Manifest, PatchingInv' PROVE AppliedInv'
  <1>1. /\ RunTypeOK /\ Running /\ TreeTypeOK
        /\ pc = "apply" /\ run.next > Len(run.prs) /\ UNCHANGED <<dropin, db, running, promised>>
    BY DEF AppliedInv, PatchingInv, Manifest
  <1>2. run.tag \in Tag /\ DOMAIN Root = TreeFields /\ Laid(run, Root) /\ Root.root /\ run.written = {}
    BY <1>1 DEF Running, TreeTypeOK, Root
  <1> DEFINE t == [Root EXCEPT !.manifest = MountSpecs]
  <1>3. SetRoot(t)
    BY DEF Manifest
  <1>4. /\ DOMAIN t = TreeFields /\ t.root = Root.root /\ t.bases = Root.bases /\ t.files = Root.files
        /\ t.in = Root.in /\ t.manifest = MountSpecs
    BY <1>2 DEF TreeFields
  <1> HIDE DEF t
  <1>5. /\ TreeTypeOK' /\ RunningTypeOK' /\ \A q \in promised' : Stays(q)'
        /\ tree'[run.tag] = t
    BY <1>1, <1>3, <1>4, OthersKept DEF SetRoot
  <1>6. CASE run.dry
    <2>1. pc' = "idle"
      BY <1>6 DEF Manifest, NextAfterManifest
    <2> QED
      BY <1>5, <2>1 DEF AppliedInv, Running
  <1>7. CASE ~run.dry
    <2>1. pc' = "migrate" /\ run' = [run EXCEPT !.mounts = MountSpecs]
      BY <1>7 DEF Manifest, NextAfterManifest
    <2>2. PICK r : r = run'
      OBVIOUS
    <2>3. /\ r.prs = run.prs /\ r.next = run.next /\ r.whole = run.whole /\ r.perFile = run.perFile
          /\ r.rejected = run.rejected /\ r.changed = run.changed /\ r.tag = run.tag
          /\ r.dropin = run.dropin /\ r.units = run.units /\ r.written = run.written /\ r.mounts = MountSpecs
      BY <1>1, <2>1, <2>2 DEF RunTypeOK, Fields
    <2>4. Laid(r, t)
      BY <1>2, <1>4, <2>3 DEF Laid, WholeLaid, DiffsLaid
    <2>5. ASSUME NEW m \in MountSpecs
          PROVE  m.tag = run.tag /\ m.path[1] \in Root.bases /\ (Len(m.path) = 2 => m.path[2] \in Root.files)
      <3>1. CASE run.perFile
        <4>1. PICK b \in Root.bases : m \in {[tag |-> run.tag, path |-> <<b, f>>] : f \in ChangedFiles(b)}
          BY <2>5, <3>1 DEF MountSpecs
        <4>2. PICK f \in ChangedFiles(b) : m = [tag |-> run.tag, path |-> <<b, f>>]
          BY <4>1
        <4> QED
          BY <4>1, <4>2 DEF ChangedFiles
      <3>2. CASE ~run.perFile
        <4>1. PICK b \in Root.bases : m = [tag |-> run.tag, path |-> <<b>>]
          BY <2>5, <3>2 DEF MountSpecs
        <4> QED
          BY <4>1
      <3> QED
        BY <3>1, <3>2
    <2>6. run.perFile => \A b \in Root.bases : \A f \in run.changed \cap Root.files \cap FilesIn[b] :
                           [tag |-> run.tag, path |-> <<b, f>>] \in MountSpecs
      BY DEF MountSpecs, ChangedFiles
    <2>7. ~run.perFile => \A b \in Root.bases : [tag |-> run.tag, path |-> <<b>>] \in MountSpecs
      BY DEF MountSpecs
    <2>8. MountsFit(r, t)
      BY <1>4, <2>3, <2>5, <2>6, <2>7 DEF MountsFit
    <2>9. Running'
      BY <1>1, <1>2, <1>4, <1>5, <2>1, <2>2, <2>3, <2>4, <2>8 DEF Running
    <2> QED
      BY <1>5, <2>9 DEF AppliedInv
  <1> QED
    BY <1>6, <1>7

\* Migrations and drop-ins leave what was laid as it is.
LEMMA LaidKept ==
    ASSUME NEW r, NEW s, NEW t, Laid(r, t), MountsFit(r, t),
           s.prs = r.prs, s.next = r.next, s.whole = r.whole, s.perFile = r.perFile,
           s.rejected = r.rejected, s.changed = r.changed, s.tag = r.tag, s.mounts = r.mounts
    PROVE  Laid(s, t) /\ MountsFit(s, t)
  BY DEF Laid, WholeLaid, DiffsLaid, MountsFit

LEMMA MigrateApplied == ASSUME AppliedInv, Migrate, PatchingInv' PROVE AppliedInv'
  <1>1. /\ RunTypeOK /\ Running /\ pc = "migrate" /\ UNCHANGED <<tree, dropin, running, promised>>
    BY DEF AppliedInv, PatchingInv, Migrate
  <1>2. PICK pending : run' = run \/ run' = [run EXCEPT !.pending = pending]
    BY DEF Migrate
  <1>3. pc' \in {"migrate", "dropins"}
    BY <1>1 DEF Migrate
  <1>4. PICK s : s = run'
    OBVIOUS
  <1>5. /\ s.prs = run.prs /\ s.next = run.next /\ s.whole = run.whole /\ s.perFile = run.perFile
        /\ s.rejected = run.rejected /\ s.changed = run.changed /\ s.tag = run.tag /\ s.mounts = run.mounts
        /\ s.dropin = run.dropin /\ s.units = run.units /\ s.written = run.written
    BY <1>1, <1>2, <1>4 DEF RunTypeOK, Fields
  <1>6. Laid(s, tree[run.tag]) /\ MountsFit(s, tree[run.tag])
    BY <1>1, <1>5, LaidKept DEF Running
  <1>7. Running'
    BY <1>1, <1>3, <1>4, <1>5, <1>6 DEF Running
  <1> QED
    BY <1>1, <1>7, AllKept DEF AppliedInv

LEMMA WriteDropinApplied == ASSUME AppliedInv, WriteDropin, PatchingInv' PROVE AppliedInv'
  <1>1. /\ RunTypeOK /\ Running /\ pc = "dropins" /\ pc' = pc /\ UNCHANGED <<tree, running>>
    BY DEF AppliedInv, PatchingInv, WriteDropin
  <1>2. PICK new : new = [mounts |-> run.mounts, prs |-> run.prs, whole |-> run.whole]
    OBVIOUS
  <1>3. PICK u \in run.units \ run.written :
          /\ dropin' = [dropin EXCEPT ![u][run.dropin] = new]
          /\ promised' = {p \in promised : p.unit # u \/ p.dropin # run.dropin}
          /\ run' = [run EXCEPT !.written = run.written \cup {u}]
    BY <1>2 DEF WriteDropin
  <1>4. u \in Unit /\ run.dropin \in Dropin
    BY <1>1 DEF Running
  <1>5. /\ dropin'[u][run.dropin] = new
        /\ \A v \in Unit, d \in Dropin : <<v, d>> # <<u, run.dropin>> => dropin'[v][d] = dropin[v][d]
    BY <1>1, <1>3, <1>4 DEF RunTypeOK
  <1>6. ASSUME NEW p \in promised' PROVE Stays(p)'
    <2>1. p \in promised /\ Stays(p) /\ <<p.unit, p.dropin>> # <<u, run.dropin>>
      BY <1>3, <1>6 DEF AppliedInv
    <2>2. p.unit \in Unit /\ p.dropin \in Dropin
      BY <2>1 DEF Stays
    <2> QED
      BY <1>1, <1>5, <2>1, <2>2, StaysKept
  <1>7. TreeTypeOK' /\ RunningTypeOK'
    BY <1>1 DEF AppliedInv, TreeTypeOK, RunningTypeOK
  <1>8. PICK s : s = run'
    OBVIOUS
  <1>9. /\ s.prs = run.prs /\ s.next = run.next /\ s.whole = run.whole /\ s.perFile = run.perFile
        /\ s.rejected = run.rejected /\ s.changed = run.changed /\ s.tag = run.tag /\ s.mounts = run.mounts
        /\ s.dropin = run.dropin /\ s.units = run.units /\ s.written = run.written \cup {u}
    BY <1>1, <1>3, <1>8 DEF RunTypeOK, Fields
  <1>10. Laid(s, tree[run.tag]) /\ MountsFit(s, tree[run.tag])
    BY <1>1, <1>9, LaidKept DEF Running
  <1>11. new.mounts = run.mounts
    BY <1>2
  <1>12. \A v \in s.units \cap s.written :
           /\ dropin'[v][s.dropin].mounts = s.mounts
           /\ \A p \in promised' : p.unit # v \/ p.dropin # s.dropin
    BY <1>1, <1>3, <1>4, <1>5, <1>9, <1>11 DEF Running
  <1>13. Running'
    BY <1>1, <1>3, <1>8, <1>9, <1>10, <1>12 DEF Running
  <1> QED
    BY <1>6, <1>7, <1>13 DEF AppliedInv

-----------------------------------------------------------------------------
(***************************************************************************)
(* The run comes to a good end.                                            *)
(***************************************************************************)
LEMMA LargestOf ==
    ASSUME NEW n \in Nat, NEW T, T \subseteq 1 .. n, T # {}
    PROVE  \E k \in T : \A j \in T : j <= k
  <1> DEFINE R == OpToRel(<, Nat)
             Behind == {n - k : k \in T}
  <1>1. IsWellFoundedOn(R, Nat)
    BY NatLessThanWellFounded
  <1>2. \A m, l \in Nat : m < l => <<m, l>> \in R
    BY DEF OpToRel
  <1>3. Behind \subseteq Nat /\ Behind # {}
    <2>1. \A k \in T : n - k \in Nat
      OBVIOUS
    <2>2. PICK k \in T : TRUE
      OBVIOUS
    <2>3. n - k \in Behind
      BY <2>2
    <2> QED
      BY <2>1, <2>3
  <1> HIDE DEF R
  <1>4. PICK x \in Behind : \A y \in Behind : ~ (<<y, x>> \in R)
    BY <1>1, <1>3, WFMin
  <1>5. \A y \in Behind : ~ (y < x)
    BY <1>2, <1>3, <1>4, Zenon
  <1>6. PICK k \in T : x = n - k
    OBVIOUS
  <1>7. \A j \in T : j <= k
    <2> TAKE j \in T
    <2>1. ~ (n - j < n - k)
      BY <1>5, <1>6
    <2> QED
      BY <2>1
  <1> QED
    BY <1>7

\* The record a run leaves of itself.
RunPromise(p, u) ==
    /\ p.unit = u /\ p.dropin = run.dropin /\ p.tag = run.tag /\ p.prs = run.prs
    /\ p.whole = run.whole /\ p.perFile = run.perFile /\ p.rejected = run.rejected

LEMMA PromisedIsThere ==
    ASSUME RunTypeOK, Laid(run, Root), MountsFit(run, Root), run.next > Len(run.prs), run.tag \in Tag,
           NEW u, NEW p, RunPromise(p, u), OwnMounts(p) = run.mounts,
           NEW k \in 1 .. Len(p.prs), NEW f \in Shown(p, k)
    PROVE  Delivered(p, k, f)
  <1> USE DEF RunPromise
  <1>1. run.prs \in Seq(PR) /\ \A j \in 1 .. Len(run.prs) : j < run.next /\ run.prs[j] \in PR
    BY DEF RunTypeOK
  <1>2. f \in Brought(run.prs[k]) /\ f \notin Gone(run.prs) /\ (run.perFile => f \notin run.rejected)
    BY DEF Shown, Brought, Gone
  <1>3. f \in File /\ f \in FilesIn[BaseOf[run.prs[k]]]
    BY <1>1, <1>2, FilesOfRequests
  <1>4. f \notin run.rejected
    BY <1>2 DEF Laid
  <1>5. f \in run.changed /\ f \in Root.files
    <2>1. CASE run.whole
      BY <1>1, <1>2, <2>1 DEF Laid, WholeLaid
    <2>2. CASE ~run.whole
      BY <1>1, <1>2, <1>4, <2>2 DEF Laid, DiffsLaid
    <2> QED
      BY <2>1, <2>2
  <1>6. BaseOf[run.prs[k]] \in Root.bases
    BY <1>1, MembersOf DEF Laid
  <1>7. \E m \in OwnMounts(p) : m.path \in {<<BaseOf[p.prs[k]]>>, <<BaseOf[p.prs[k]], f>>}
    <2>1. CASE run.perFile
      <3>1. [tag |-> run.tag, path |-> <<BaseOf[run.prs[k]], f>>] \in run.mounts
        BY <1>3, <1>5, <1>6, <2>1 DEF MountsFit
      <3> QED
        BY <3>1
    <2>2. CASE ~run.perFile
      <3>1. [tag |-> run.tag, path |-> <<BaseOf[run.prs[k]]>>] \in run.mounts
        BY <1>6, <2>2 DEF MountsFit
      <3> QED
        BY <3>1
    <2> QED
      BY <2>1, <2>2
  <1> DEFINE touching == {j \in 1 .. Len(run.prs) : f \in Adds[run.prs[j]]}
  <1>8. k \in touching /\ \A j \in touching : f \in Brought(run.prs[j])
    BY <1>2 DEF Brought
  <1>9. Kept(p, f) \subseteq Root.in[f]
    <2>1. CASE run.whole
      <3> DEFINE last == CHOOSE i \in touching : \A j \in touching : j <= i
      <3>1. Len(run.prs) \in Nat
        BY <1>1
      <3>2. \E i \in touching : \A j \in touching : j <= i
        BY <1>8, <3>1, LargestOf
      <3>3. last \in touching /\ \A j \in touching : j <= last
        BY <3>2
      <3>4. Kept(p, f) = {run.prs[last]}
        BY <2>1 DEF Kept
      <3> HIDE DEF last
      <3>5. f \in Brought(run.prs[last])
        BY <1>8, <3>3
      <3>6. Root.in[f] = {run.prs[last]}
        BY <1>1, <2>1, <3>3, <3>5 DEF Laid, WholeLaid
      <3> QED
        BY <3>4, <3>6
    <2>2. CASE ~run.whole
      <3>1. Kept(p, f) = {run.prs[j] : j \in touching}
        BY <2>2 DEF Kept
      <3>2. \A j \in touching : run.prs[j] \in Root.in[f]
        BY <1>1, <1>4, <1>8, <2>2 DEF Laid, DiffsLaid
      <3> QED
        BY <3>1, <3>2
    <2> QED
      BY <2>1, <2>2
  <1> QED
    BY <1>5, <1>7, <1>9 DEF Delivered, Root

LEMMA RestartApplied == ASSUME AppliedInv, Restart, PatchingInv' PROVE AppliedInv'
  <1>1. /\ RunTypeOK /\ Running /\ TreeTypeOK /\ RunningTypeOK
        /\ pc = "dropins" /\ run.written = run.units /\ UNCHANGED <<tree, dropin>>
        /\ pc' = "idle"
    BY DEF AppliedInv, PatchingInv, Restart, Finish
  <1>2. /\ run.tag \in Tag /\ run.dropin \in Dropin /\ run.units \subseteq Unit /\ Root.root
        /\ Laid(run, Root) /\ MountsFit(run, Root) /\ run.next > Len(run.prs)
    BY <1>1 DEF Running, Root
  <1>3. DOMAIN running' = Unit /\ \A v \in Unit :
          \/ running'[v] = running[v]
          \/ running'[v] = Mounted(v)
          \/ run.restart /\ v \in run.units /\ ~Starts(v)
    BY <1>1 DEF Restart, RunningTypeOK
  <1>4. ASSUME NEW p \in promised, run.restart /\ p.unit \in run.units => Starts(p.unit)
        PROVE  Stays(p)'
    <2>1. Stays(p) /\ p.unit \in Unit
      BY <1>4 DEF AppliedInv, Stays
    <2> QED
      BY <1>1, <1>3, <1>4, <2>1, StaysKept
  <1>5. ASSUME NEW u \in run.units, NEW p, RunPromise(p, u),
               p.live => run.restart /\ Starts(u)
        PROVE  Stays(p)'
    <2>1. OwnMounts(p) = run.mounts /\ OwnMounts(p)' = OwnMounts(p)
      BY <1>1, <1>5 DEF Running, OwnMounts, RunPromise
    <2>2. p.unit \in Unit /\ p.dropin \in Dropin /\ p.tag \in Tag /\ tree'[p.tag].root
      BY <1>1, <1>2, <1>5 DEF RunPromise, Root
    <2>3. \A m \in OwnMounts(p) : m.tag = p.tag /\ HostPathExists(m)'
      BY <1>1, <1>2, <1>5, <2>1 DEF MountsFit, RunPromise, HostPathExists, Root
    <2>4. OwnMounts(p) = tree[p.tag].manifest
      BY <1>2, <1>5, <2>1 DEF MountsFit, RunPromise, Root
    <2>5. \A k \in 1 .. Len(p.prs) : \A f \in Shown(p, k) : Delivered(p, k, f)
      BY <1>1, <1>2, <1>5, <2>1, PromisedIsThere
    <2>6. \A k \in 1 .. Len(p.prs) : \A f \in Shown(p, k) : Delivered(p, k, f)'
      BY <1>1, <2>1, <2>5 DEF Delivered
    <2>7. ASSUME p.live PROVE \A x \in OwnMounted(p) : x \in running'[p.unit]
      <3>1. running'[u] = Mounted(u)
        BY <1>1, <1>2, <1>5, <2>7 DEF Restart
      <3> TAKE x \in OwnMounted(p)
      <3>2. PICK m \in OwnMounts(p) : x = [mount |-> m, gen |-> tree[p.tag].gen]
        BY DEF OwnMounted
      <3>3. m \in MountsOf(u) /\ m.tag = p.tag
        BY <1>2, <1>5, <2>3, <3>2 DEF OwnMounts, MountsOf, RunPromise
      <3> QED
        BY <1>5, <3>1, <3>2, <3>3 DEF Mounted, RunPromise
    <2>8. OwnMounted(p)' = OwnMounted(p)
      BY <1>1, <2>1 DEF OwnMounted
    <2> QED
      BY <2>1, <2>2, <2>3, <2>4, <2>6, <2>7, <2>8, <1>1 DEF Stays
  <1>6. ASSUME NEW live, NEW p \in Promise(live)
        PROVE  p.live = live /\ \E u \in run.units : RunPromise(p, u)
    BY <1>6 DEF Promise, RunPromise
  <1>7. ASSUME NEW p \in promised' PROVE Stays(p)'
    <2> DEFINE down == {u \in run.units : ~Starts(u)}
    <2>1. CASE run.restart /\ down = {}
      <3>1. promised' = promised \cup Promise(TRUE)
        BY <2>1 DEF Restart
      <3>2. \A u \in run.units : Starts(u)
        BY <2>1
      <3> QED
        BY <1>4, <1>5, <1>6, <1>7, <2>1, <3>1, <3>2
    <2>2. CASE run.restart /\ down # {}
      <3>1. promised' = {q \in promised : q.unit \notin down}
        BY <2>2 DEF Restart
      <3> QED
        BY <1>4, <1>7, <3>1
    <2>3. CASE ~run.restart
      <3>1. promised' = promised \cup Promise(FALSE)
        BY <2>3 DEF Restart
      <3> QED
        BY <1>4, <1>5, <1>6, <1>7, <2>3, <3>1
    <2> QED
      BY <2>1, <2>2, <2>3
  <1>8. TreeTypeOK' /\ RunningTypeOK' /\ Running'
    BY <1>1, <1>3 DEF TreeTypeOK, RunningTypeOK, Running
  <1> QED
    BY <1>7, <1>8 DEF AppliedInv

-----------------------------------------------------------------------------
LEMMA AppliedBegins == Init => AppliedInv
  <1> SUFFICES ASSUME Init PROVE AppliedInv
    OBVIOUS
  <1>1. PatchingInv
    BY PatchingInitHolds
  <1>2. TreeTypeOK /\ RunningTypeOK
    BY DEF Init, TreeTypeOK, RunningTypeOK, NoRoot, TreeFields
  <1>3. Running /\ promised = {}
    BY DEF Init, Running
  <1> QED
    BY <1>1, <1>2, <1>3 DEF AppliedInv

LEMMA AppliedStep == AppliedInv /\ [Next]_vars => AppliedInv'
  <1> SUFFICES ASSUME AppliedInv, [Next]_vars PROVE AppliedInv'
    OBVIOUS
  <1>1. PatchingInv'
    BY PatchingInvInductive DEF AppliedInv
  <1>2. CASE UNCHANGED vars
    <2>1. Running'
      BY <1>2 DEF vars, AppliedInv, Running
    <2> QED
      BY <1>1, <1>2, <2>1, AllKept DEF vars, AppliedInv
  <1>3. CASE Exit
    BY <1>1, <1>3, EndApplied DEF Exit, Finish
  <1>4. CASE Next /\ ~Exit
    BY <1>1, <1>4, BeginApplied, CollectApplied, ExtractApplied, ApplyApplied, ManifestApplied,
       MigrateApplied, WriteDropinApplied, RestartApplied
    DEF Next, Step
  <1> QED
    BY <1>2, <1>3, <1>4

(***************************************************************************)
(* Whatever later runs patch, force, break off or restart: what a run that *)
(* came to a good end delivered stays in its tree and its drop-in.         *)
(***************************************************************************)
THEOREM SpecAppliedStays == Spec => []AppliedStays
  <1>1. AppliedInv => AppliedStays
    <2> SUFFICES ASSUME AppliedInv, NEW p \in promised
                 PROVE  /\ \A m \in dropin[p.unit][p.dropin].mounts : m.tag = p.tag /\ HostPathExists(m)
                        /\ dropin[p.unit][p.dropin].mounts = tree[p.tag].manifest
                        /\ p.live => Mounted(p.unit) \cap {[mount |-> m, gen |-> tree[p.tag].gen] :
                                         m \in dropin[p.unit][p.dropin].mounts} \subseteq running[p.unit]
                        /\ \A k \in 1..Len(p.prs) : \A f \in Shown(p, k) :
                             /\ \E m \in dropin[p.unit][p.dropin].mounts :
                                  m.path \in {<<BaseOf[p.prs[k]]>>, <<BaseOf[p.prs[k]], f>>}
                             /\ f \in tree[p.tag].files
                             /\ Kept(p, f) \ (IF p.perFile THEN {q \in PR : f \in p.rejected} ELSE {})
                                  \subseteq tree[p.tag].in[f]
      BY DEF AppliedStays
    <2>1. Stays(p)
      BY DEF AppliedInv
    <2>2. \A k \in 1 .. Len(p.prs) : \A f \in Shown(p, k) : Delivered(p, k, f)
      BY <2>1 DEF Stays
    <2> QED
      BY <2>1, <2>2 DEF Stays, Delivered, OwnMounts, OwnMounted
  <1> QED
    BY <1>1, AppliedBegins, AppliedStep, PTL DEF Spec

-----------------------------------------------------------------------------
(***************************************************************************)
(* The layers of a patched image.                                          *)
(***************************************************************************)
\* What the first k pull requests make of a dependency.
Touching(k, g) == {j \in 1 .. k : g \in Changed(plan.prs[j])}
Latest(c) == CHOOSE m \in c : \A j \in c : j <= m
After(k, g) ==
    IF Touching(k, g) = {} THEN BaseSpec[g] ELSE New(plan.prs[Latest(Touching(k, g))], g)

BuildTypeOK ==
    /\ step \in {"idle", "fetch", "remove", "install", "patch", "specs", "tag", "done"}
    /\ plan \in [prs : Seq(Pull), keep : BOOLEAN, dry : BOOLEAN]
    /\ at \in Nat
    /\ source \in [Gem -> Nat] /\ spec \in [Gem -> Nat]
    /\ edits \subseteq Nat \X Gem

Built == step \in {"specs", "tag"} \/ tag

\* What each step of the Containerfile finds.
Order ==
    /\ step \in {"idle", "fetch", "remove", "install"} => at = 1 /\ source = BaseSpec /\ spec = BaseSpec /\ warned = {}
    /\ step = "patch" => at \in 1 .. Len(plan.prs) /\ spec = BaseSpec
    /\ step \notin {"idle", "done"} => Len(plan.prs) >= 1
    /\ Built => at = Len(plan.prs) + 1
    /\ tag => step = "done"

BaseGems == {g \in Gem : BaseSpec[g] # None}
Disk ==
    /\ step \in {"idle", "fetch", "remove"} => installed = BaseGems
    /\ step = "install" => installed = BaseGems \ Cut
    /\ step = "patch" \/ Built => installed = (BaseGems \ Cut) \cup AllGems

\* Diffs that all fit build on one another, and the source is what they make of it.
Chained ==
    warned = {} /\ (step = "patch" \/ Built) =>
        /\ \A k \in 1 .. at - 1 : \A g \in Changed(plan.prs[k]) : Old(plan.prs[k], g) = After(k - 1, g)
        /\ \A g \in Gem : source[g] = After(at - 1, g)

SourceStems ==
    warned = {} /\ (step = "patch" \/ Built) =>
        \A g \in Gem :
            \/ Touching(at - 1, g) = {} /\ source[g] = BaseSpec[g]
            \/ \E j \in Touching(at - 1, g) : source[g] = New(plan.prs[j], g)

\* The lines that are edited already are those of the first pull requests.
EditsInOrder ==
    step = "specs" =>
        /\ edits \subseteq SpecPatches
        /\ \A e \in edits, f \in SpecPatches : e[1] < f[1] => f \in edits

AnchorStays == step = "specs" => (spec[Anchor] # None <=> BaseSpec[Anchor] # None)

\* The part of Editable that the plan decides.
PlanEditable ==
    /\ \A p \in Prs : \A g \in Changed(p) : Plain \notin {Old(p, g), New(p, g)}
    /\ AllRemoves \cap (AllGems \cup {Anchor}) = {}
    /\ \A g \in AllRemoves \cup AllGems : Longer[g] = {}

\* A line whose edits are done up to the m-th pull request says what these make of it.
DoneUpTo(g, m) ==
    \A k \in 1 .. Len(plan.prs) : g \in ToInstall(plan.prs[k]) => (<<k, g>> \in edits <=> m < k)

SpecFollows ==
    step = "specs" /\ warned = {} /\ PlanEditable /\ BaseSpec[Anchor] # None =>
        \A g \in Gem \ AllRemoves, m \in 0 .. Len(plan.prs) :
            DoneUpTo(g, m) => spec[g] = After(m, g)

Agreed ==
    (step = "tag" \/ tag) /\ warned = {} /\ Editable =>
        /\ spec = source
        /\ \A g \in Gem : source[g] # None => g \in installed

BuildInv ==
    /\ BuildTypeOK /\ Order /\ Disk /\ Chained /\ SourceStems
    /\ EditsInOrder /\ AnchorStays /\ SpecFollows /\ Agreed

\* The numbers of a change.
LEMMA Changes ==
    ASSUME BuildTypeOK
    PROVE  /\ Len(plan.prs) \in Nat
           /\ \A k \in 1 .. Len(plan.prs) : plan.prs[k] \in Pull /\ plan.prs[k] \in Prs
           /\ \A p \in Prs : p \in Pull /\ \E k \in 1 .. Len(plan.prs) : plan.prs[k] = p
           /\ \A p \in Pull, g \in Gem : Old(p, g) \in Nat /\ New(p, g) \in Nat
  <1>1. plan.prs \in Seq(Pull)
    BY DEF BuildTypeOK
  <1>2. /\ Len(plan.prs) \in Nat /\ DOMAIN plan.prs = 1 .. Len(plan.prs)
        /\ \A k \in 1 .. Len(plan.prs) : plan.prs[k] \in Pull
    BY <1>1
  <1>3. \A p \in Pull, g \in Gem : Change[p][g] \in Nat \X Nat
    BY BuildAssumption DEF Dependency
  <1>4. \A p \in Pull, g \in Gem : Old(p, g) \in Nat /\ New(p, g) \in Nat
    BY <1>3 DEF Old, New
  <1> QED
    BY <1>2, <1>4 DEF Prs, Range

\* A pull request that changes a dependency settles it, the others leave it.
LEMMA AfterChange ==
    ASSUME NEW k \in Nat \ {0}, NEW g \in Gem
    PROVE  /\ g \in Changed(plan.prs[k]) => After(k, g) = New(plan.prs[k], g)
           /\ g \notin Changed(plan.prs[k]) => After(k, g) = After(k - 1, g)
  <1>1. ASSUME g \in Changed(plan.prs[k]) PROVE After(k, g) = New(plan.prs[k], g)
    <2>1. k \in Touching(k, g) /\ \A j \in Touching(k, g) : j \in Nat /\ j <= k
      BY <1>1 DEF Touching
    <2>2. Latest(Touching(k, g)) = k
      BY <2>1 DEF Latest
    <2> QED
      BY <2>1, <2>2 DEF After
  <1>2. ASSUME g \notin Changed(plan.prs[k]) PROVE After(k, g) = After(k - 1, g)
    <2>1. Touching(k, g) = Touching(k - 1, g)
      BY <1>2 DEF Touching
    <2> QED
      BY <2>1 DEF After
  <1> QED
    BY <1>1, <1>2

LEMMA AfterSame ==
    ASSUME NEW k \in Nat, NEW m \in Nat, k <= m, NEW g \in Gem,
           \A j \in 1 .. m : k < j => g \notin Changed(plan.prs[j])
    PROVE  After(m, g) = After(k, g)
  <1>1. Touching(m, g) = Touching(k, g)
    BY DEF Touching
  <1> QED
    BY <1>1 DEF After

LEMMA BuildBegins == BuildInit => BuildInv
  <1> SUFFICES ASSUME BuildInit PROVE BuildInv
    OBVIOUS
  <1>1. BuildTypeOK
    BY BuildAssumption DEF BuildInit, BuildTypeOK, Dependency
  <1>2. Order /\ Disk /\ Chained /\ SourceStems /\ EditsInOrder /\ AnchorStays /\ SpecFollows /\ Agreed
    BY DEF BuildInit, Order, Built, Disk, BaseGems, Chained, SourceStems, EditsInOrder, AnchorStays,
           SpecFollows, Agreed
  <1> QED
    BY <1>1, <1>2 DEF BuildInv

LEMMA BuildType ==
    ASSUME BuildInv, BuildNext PROVE BuildTypeOK'
  <1> USE DEF BuildTypeOK
  <1>0. BuildTypeOK /\ Order /\ EditsInOrder
    BY DEF BuildInv
  <1>1. ASSUME NEW prs \in Plans, NEW keep \in BOOLEAN, NEW dry \in BOOLEAN, BuildBegin(prs, keep, dry)
        PROVE  BuildTypeOK'
    <2>1. prs \in Seq(Pull)
      <3>1. PICK n \in 1 .. MaxPrs : prs \in [1 .. n -> Pull]
        BY DEF Plans
      <3>2. n \in Nat
        BY BuildAssumption
      <3> QED
        BY <3>1, <3>2
    <2> QED
      BY <1>0, <1>1, <2>1 DEF BuildBegin
  <1>2. CASE Fetch
    BY <1>0, <1>2 DEF Fetch, Cleanup
  <1>3. CASE RemoveGems
    BY <1>0, <1>3 DEF RemoveGems
  <1>4. CASE InstallGems
    BY <1>0, <1>4 DEF InstallGems
  <1>5. CASE PatchSource
    <2>1. plan.prs[at] \in Pull
      BY <1>0, <1>5, Changes DEF Order, PatchSource
    <2>2. source' \in [Gem -> Nat]
      BY <1>0, <1>5, <2>1, Changes DEF PatchSource
    <2>3. edits' = edits \/ edits' = SpecPatches
      BY <1>5 DEF PatchSource
    <2>4. edits' \subseteq Nat \X Gem
      BY <1>0, <2>3, Changes DEF SpecPatches
    <2>5. /\ at' = at + 1 /\ UNCHANGED <<plan, spec>>
          /\ step' \in {"patch", "specs"}
      BY <1>5 DEF PatchSource
    <2> QED
      BY <1>0, <2>2, <2>4, <2>5
  <1>6. CASE EditSpec
    <2>1. PICK e \in edits :
             /\ spec' = [spec EXCEPT ![e[2]] =
                            SpecLine(e[2], Old(plan.prs[e[1]], e[2]), New(plan.prs[e[1]], e[2]))]
             /\ edits' = edits \ {e}
      BY <1>6 DEF EditSpec
    <2>2. e[1] \in 1 .. Len(plan.prs) /\ e[2] \in Gem
      BY <1>0, <1>6 DEF EditSpec, EditsInOrder, SpecPatches
    <2>3. New(plan.prs[e[1]], e[2]) \in Nat /\ spec[e[2]] \in Nat
      BY <1>0, <2>2, Changes
    <2>4. SpecLine(e[2], Old(plan.prs[e[1]], e[2]), New(plan.prs[e[1]], e[2])) \in Nat
      BY <2>3 DEF SpecLine
    <2>5. spec' \in [Gem -> Nat]
      BY <1>0, <2>1, <2>4
    <2> QED
      BY <1>0, <1>6, <2>1, <2>5 DEF EditSpec
  <1>7. CASE CutSpec
    BY <1>0, <1>7 DEF CutSpec, None
  <1>8. CASE TagImage \/ BuildFail
    BY <1>0, <1>8 DEF TagImage, BuildFail, Cleanup
  <1> QED
    BY <1>1, <1>2, <1>3, <1>4, <1>5, <1>6, <1>7, <1>8 DEF BuildNext

\* What stays when the plan and the source stay.
LEMMA SamePlan ==
    ASSUME UNCHANGED plan
    PROVE  /\ \A k, g : After(k, g)' = After(k, g) /\ Touching(k, g)' = Touching(k, g)
           /\ Prs' = Prs /\ AllRemoves' = AllRemoves /\ AllGems' = AllGems /\ Cut' = Cut
           /\ (PlanEditable <=> PlanEditable') /\ SpecPatches' = SpecPatches
  <1>1. Prs' = Prs /\ SpecPatches' = SpecPatches
    BY DEF Prs, SpecPatches
  <1>2. AllRemoves' = AllRemoves /\ AllGems' = AllGems
    BY <1>1 DEF AllRemoves, AllGems
  <1>3. Cut' = Cut /\ (PlanEditable <=> PlanEditable')
    BY <1>1, <1>2 DEF Cut, PlanEditable
  <1>4. \A k, g : Touching(k, g)' = Touching(k, g)
    BY DEF Touching
  <1>5. \A k, g : After(k, g)' = After(k, g)
    BY <1>4 DEF After
  <1> QED
    BY <1>1, <1>2, <1>3, <1>4, <1>5

LEMMA BeginBuild ==
    ASSUME BuildInv, BuildTypeOK', NEW prs \in Plans, NEW keep, NEW dry,
           BuildBegin(prs, keep, dry)
    PROVE  BuildInv'
  <1>1. Order /\ Disk
    BY DEF BuildInv
  <1>2. plan'.prs = prs /\ step = "idle" /\ step' = "fetch" /\ ~tag
        /\ UNCHANGED <<installed, at, source, edits, spec, warned, tag>>
    BY <1>1 DEF BuildBegin, Order
  <1>3. Len(plan'.prs) >= 1
    BY <1>2 DEF Plans
  <1> QED
    BY <1>1, <1>2, <1>3
    DEF BuildInv, Order, Built, Disk, BaseGems, Chained, SourceStems, EditsInOrder, AnchorStays,
        SpecFollows, Agreed

LEMMA Prepare ==
    ASSUME BuildInv, BuildTypeOK', Fetch \/ RemoveGems \/ InstallGems
    PROVE  BuildInv'
  <1>1. Order /\ Disk
    BY DEF BuildInv
  <1>2. UNCHANGED <<plan, at, source, edits, spec, warned, tag>> /\ ~tag
        /\ step \in {"fetch", "remove", "install"}
    BY <1>1 DEF Fetch, RemoveGems, InstallGems, Order
  <1>3. /\ at = 1 /\ source = BaseSpec /\ spec = BaseSpec /\ warned = {} /\ Len(plan.prs) >= 1
        /\ Len(plan.prs) \in Nat
    BY <1>1, <1>2, Changes DEF Order, BuildInv
  <1>4. step' \in {"remove", "install", "patch", "done"}
    BY DEF Fetch, RemoveGems, InstallGems, Cleanup
  <1>5. Order'
    BY <1>1, <1>2, <1>3, <1>4 DEF Order, Built
  <1>6. Disk'
    <2>1. CASE Fetch
      BY <1>1, <1>2, <2>1 DEF Fetch, Cleanup, Disk, BaseGems, Built
    <2>2. CASE RemoveGems
      BY <1>1, <1>2, <2>2, SamePlan DEF RemoveGems, Disk, BaseGems, Built
    <2>3. CASE InstallGems
      BY <1>1, <1>2, <2>3, SamePlan DEF InstallGems, Disk, BaseGems, Built
    <2> QED
      BY <2>1, <2>2, <2>3
  <1>7. \A g : Touching(0, g) = {} /\ After(0, g) = BaseSpec[g]
    BY DEF After, Touching
  <1>8. Chained' /\ SourceStems'
    BY <1>2, <1>3, <1>7, SamePlan DEF Chained, SourceStems
  <1> QED
    BY <1>2, <1>4, <1>5, <1>6, <1>8 DEF BuildInv, EditsInOrder, AnchorStays, SpecFollows, Agreed

LEMMA BreakOff ==
    ASSUME BuildInv, BuildTypeOK', BuildFail
    PROVE  BuildInv'
  <1>1. /\ UNCHANGED <<plan, installed, at, source, edits, spec, warned, tag>> /\ ~tag /\ step' = "done"
    BY DEF BuildFail, Cleanup, BuildInv, Order
  <1> QED
    BY <1>1
    DEF BuildInv, Order, Built, Disk, Chained, SourceStems, EditsInOrder, AnchorStays, SpecFollows, Agreed

\* A diff whose hunks all fit changes what the source says of its dependencies.
LEMMA PatchStep ==
    ASSUME BuildInv, BuildTypeOK', PatchSource
    PROVE  BuildInv'
  <1> DEFINE n == Len(plan.prs)
             p == plan.prs[at]
  <1>1. BuildTypeOK /\ Order /\ Disk /\ Chained /\ SourceStems
    BY DEF BuildInv
  <1>2. /\ step = "patch" /\ ~tag /\ UNCHANGED <<plan, installed, spec, buildDir, tag>>
        /\ at' = at + 1 /\ spec = BaseSpec /\ at \in 1 .. n /\ n \in Nat
        /\ \/ at < n /\ step' = "patch" /\ edits' = edits
           \/ at = n /\ step' = "specs" /\ edits' = SpecPatches
    BY <1>1, Changes DEF PatchSource, Order
  <1>3. p \in Pull /\ p \in Prs
    BY <1>1, <1>2, Changes
  <1>4. Order' /\ Disk'
    BY <1>1, <1>2, SamePlan DEF Order, Disk, Built
  <1>5. ASSUME warned' = {}
        PROVE  /\ warned = {}
               /\ \A g \in Changed(p) : source[g] = Old(p, g) /\ source'[g] = New(p, g)
               /\ \A g \in Gem \ Changed(p) : source'[g] = source[g]
    <2>1. PICK hunks \in SUBSET Fitting(p) :
             /\ source' = [g \in Gem |-> IF g \in hunks THEN New(p, g) ELSE source[g]]
             /\ \/ hunks = Changed(p) /\ UNCHANGED warned
                \/ warned' = warned \cup {p}
      BY DEF PatchSource
    <2>2. hunks = Changed(p) /\ warned = {}
      BY <1>5, <2>1
    <2> QED
      BY <2>1, <2>2 DEF Fitting, Changed
  <1>6. /\ \A g : g \in Changed(p) => g \in Gem /\ After(at, g) = New(p, g) /\ at \in Touching(at, g)
        /\ \A g \in Gem \ Changed(p) : After(at, g) = After(at - 1, g) /\ Touching(at, g) = Touching(at - 1, g)
    <2>1. \A g \in Gem : g \in Changed(p) => After(at, g) = New(p, g)
      BY <1>2, AfterChange
    <2>2. \A g \in Gem : g \notin Changed(p) => After(at, g) = After(at - 1, g)
      BY <1>2, AfterChange
    <2>3. \A g \in Gem : g \in Changed(p) => at \in Touching(at, g)
      BY <1>2 DEF Touching
    <2>4. \A g \in Gem : g \notin Changed(p) => Touching(at, g) = Touching(at - 1, g)
      BY <1>2 DEF Touching
    <2>5. \A g : g \in Changed(p) => g \in Gem
      BY DEF Changed
    <2> QED
      BY <2>1, <2>2, <2>3, <2>4, <2>5
  <1>7. ASSUME warned' = {}
        PROVE  /\ \A k \in 1 .. at : \A g \in Changed(plan.prs[k]) : Old(plan.prs[k], g) = After(k - 1, g)
               /\ \A g \in Gem : source'[g] = After(at, g)
               /\ \A g \in Gem : \/ Touching(at, g) = {} /\ source'[g] = BaseSpec[g]
                                 \/ \E j \in Touching(at, g) : source'[g] = New(plan.prs[j], g)
    <2>1. /\ \A k \in 1 .. at - 1 : \A g \in Changed(plan.prs[k]) : Old(plan.prs[k], g) = After(k - 1, g)
          /\ \A g \in Gem : source[g] = After(at - 1, g)
          /\ \A g \in Gem : \/ Touching(at - 1, g) = {} /\ source[g] = BaseSpec[g]
                            \/ \E j \in Touching(at - 1, g) : source[g] = New(plan.prs[j], g)
      BY <1>1, <1>2, <1>5, <1>7 DEF Chained, SourceStems
    <2>2. \A k \in 1 .. at : k \in 1 .. at - 1 \/ k = at
      BY <1>2
    <2>3. \A g \in Changed(p) : Old(p, g) = After(at - 1, g)
      BY <1>5, <1>6, <1>7, <2>1
    <2>4. \A k \in 1 .. at : \A g \in Changed(plan.prs[k]) : Old(plan.prs[k], g) = After(k - 1, g)
      BY <2>1, <2>2, <2>3
    <2>5. \A g \in Gem : source'[g] = After(at, g)
      BY <1>5, <1>6, <1>7, <2>1
    <2>6. ASSUME NEW g \in Gem
          PROVE  \/ Touching(at, g) = {} /\ source'[g] = BaseSpec[g]
                 \/ \E j \in Touching(at, g) : source'[g] = New(plan.prs[j], g)
      <3>1. CASE g \in Changed(p)
        BY <1>5, <1>6, <1>7, <3>1
      <3>2. CASE g \notin Changed(p)
        BY <1>5, <1>6, <1>7, <2>1, <3>2
      <3> QED
        BY <3>1, <3>2
    <2> QED
      BY <2>4, <2>5, <2>6
  <1>8. at' - 1 = at
    BY <1>2
  <1>9. Chained' /\ SourceStems'
    <2>1. Chained'
      BY <1>2, <1>7, <1>8, SamePlan DEF Chained
    <2>2. SourceStems'
      BY <1>2, <1>7, <1>8, SamePlan DEF SourceStems
    <2> QED
      BY <2>1, <2>2
  <1>10. EditsInOrder' /\ AnchorStays'
    BY <1>2, SamePlan DEF EditsInOrder, AnchorStays
  <1>11. SpecFollows'
    <2> SUFFICES ASSUME step' = "specs", NEW g \in Gem \ AllRemoves, NEW m \in 0 .. n, DoneUpTo(g, m)'
                 PROVE  spec'[g] = After(m, g)
      BY <1>2, SamePlan DEF SpecFollows
    <2>1. edits' = SpecPatches
      BY <1>2
    <2>2. \A k \in 1 .. n : g \in ToInstall(plan.prs[k]) => m < k
      BY <1>2, <2>1 DEF DoneUpTo, SpecPatches
    <2>3. \A k \in 1 .. n : g \in Changed(plan.prs[k]) => g \in ToInstall(plan.prs[k])
      BY <1>1, Changes DEF AllRemoves, PureRemoves, ToInstall
    <2>4. m \in Nat /\ \A k \in 1 .. m : k \in 1 .. n /\ ~(m < k)
      BY <1>2
    <2>5. Touching(m, g) = {}
      BY <2>2, <2>3, <2>4 DEF Touching
    <2> QED
      BY <1>2, <2>5 DEF After
  <1> QED
    BY <1>2, <1>4, <1>9, <1>10, <1>11 DEF BuildInv, Agreed

\* An edit brings the line of one gem from what it was before a pull request to
\* what this one makes of it.
LEMMA EditStep ==
    ASSUME BuildInv, BuildTypeOK', EditSpec
    PROVE  BuildInv'
  <1> DEFINE n == Len(plan.prs)
  <1>1. BuildTypeOK /\ Order /\ Disk /\ Chained /\ SourceStems /\ EditsInOrder /\ AnchorStays /\ SpecFollows
    BY DEF BuildInv
  <1>2. PICK e \in edits :
          /\ \A f \in edits : e[1] <= f[1]
          /\ spec' = [spec EXCEPT ![e[2]] =
                         SpecLine(e[2], Old(plan.prs[e[1]], e[2]), New(plan.prs[e[1]], e[2]))]
          /\ edits' = edits \ {e}
    BY DEF EditSpec
  <1>3. /\ step = "specs" /\ ~tag /\ n \in Nat /\ at = n + 1
        /\ UNCHANGED <<step, plan, installed, at, source, warned, tag>>
    BY <1>1, Changes DEF EditSpec, Order, Built
  <1>4. PICK k \in 1 .. n, h \in Gem : e = <<k, h>> /\ h \in ToInstall(plan.prs[k])
    BY <1>1, <1>2, <1>3 DEF EditsInOrder, SpecPatches
  <1>5. PICK p \in Pull : p = plan.prs[k] /\ p \in Prs
    BY <1>1, <1>3, <1>4, Changes
  <1>6. /\ spec'[h] = SpecLine(h, Old(p, h), New(p, h)) /\ \A g \in Gem \ {h} : spec'[g] = spec[g]
        /\ h \in Changed(p) /\ New(p, h) # None /\ New(p, h) \in Nat /\ Old(p, h) \in Nat /\ spec[h] \in Nat
    BY <1>1, <1>2, <1>4, <1>5, Changes DEF BuildTypeOK, ToInstall
  <1>7. Order' /\ Disk' /\ Chained' /\ SourceStems'
    BY <1>1, <1>3, SamePlan DEF Order, Disk, Built, Chained, SourceStems
  <1>8. EditsInOrder'
    BY <1>1, <1>2, <1>3, <1>4, SamePlan DEF EditsInOrder, SpecPatches
  <1>9. AnchorStays'
    <2>1. h = Anchor => (spec[Anchor] # None <=> spec'[Anchor] # None)
      BY <1>6 DEF SpecLine, Mentioned, WithLonger, None, Plain
    <2>2. Anchor \in Gem
      BY BuildAssumption
    <2> QED
      BY <1>1, <1>3, <1>6, <2>1, <2>2 DEF AnchorStays
  <1>10. SpecFollows'
    <2> SUFFICES ASSUME warned = {}, PlanEditable, BaseSpec[Anchor] # None,
                        NEW g \in Gem \ AllRemoves, NEW m \in 0 .. n, DoneUpTo(g, m)'
                 PROVE  spec'[g] = After(m, g)
      BY <1>3, SamePlan DEF SpecFollows
    <2>1. \A q \in 0 .. n : DoneUpTo(g, q) => spec[g] = After(q, g)
      BY <1>1, <1>3 DEF SpecFollows
    <2>2. \A j \in 1 .. n : g \in ToInstall(plan.prs[j]) => (<<j, g>> \in edits' <=> m < j)
      BY <1>3 DEF DoneUpTo
    <2>3. CASE g # h
      <3>1. \A j \in 1 .. n : <<j, g>> \in edits' <=> <<j, g>> \in edits
        BY <1>2, <1>4, <2>3
      <3>2. DoneUpTo(g, m)
        BY <2>2, <3>1 DEF DoneUpTo
      <3> QED
        BY <1>6, <2>1, <2>3, <3>2
    <2>4. CASE g = h
      <3>1. \A j \in 1 .. n : g \in ToInstall(plan.prs[j]) => (<<j, g>> \in edits <=> k - 1 < j)
        <4> SUFFICES ASSUME NEW j \in 1 .. n, g \in ToInstall(plan.prs[j])
                     PROVE  <<j, g>> \in edits <=> k - 1 < j
          OBVIOUS
        <4>1. <<j, g>> \in edits => k <= j
          BY <1>2, <1>4
        <4>2. <<j, g>> \in SpecPatches
          BY DEF SpecPatches
        <4>3. k < j => <<j, g>> \in edits
          BY <1>1, <1>2, <1>3, <1>4, <4>2 DEF EditsInOrder
        <4>4. k = j => <<j, g>> \in edits
          BY <1>2, <1>4, <2>4
        <4> QED
          BY <1>3, <4>1, <4>3, <4>4
      <3>2. spec[g] = After(k - 1, g)
        <4>1. k - 1 \in 0 .. n /\ DoneUpTo(g, k - 1)
          BY <1>3, <3>1 DEF DoneUpTo
        <4> QED
          BY <2>1, <4>1
      <3>3. Old(p, h) = spec[h]
        <4>1. \A j \in 1 .. at - 1 : \A f \in Changed(plan.prs[j]) : Old(plan.prs[j], f) = After(j - 1, f)
          BY <1>1, <1>3 DEF Chained, Built
        <4>2. k \in 1 .. at - 1
          BY <1>3
        <4>3. Old(plan.prs[k], h) = After(k - 1, h)
          BY <1>5, <1>6, <4>1, <4>2
        <4> QED
          BY <1>5, <2>4, <3>2, <4>3
      <3>4. spec'[h] = New(p, h)
        <4>1. h \in AllGems /\ Longer[h] = {} /\ Plain \notin {Old(p, h), New(p, h)}
          BY <1>4, <1>5, <1>6 DEF PlanEditable, AllGems
        <4>2. spec[Anchor] # None
          BY <1>1, <1>3 DEF AnchorStays
        <4>3. New(p, h) > Plain /\ (Old(p, h) > Plain \/ Old(p, h) = None)
          BY <1>6, <4>1 DEF None, Plain
        <4>4. Old(p, h) = None => ~Mentioned(h)
          BY <3>3, <4>1 DEF Mentioned, WithLonger
        <4> QED
          BY <1>6, <3>3, <4>2, <4>3, <4>4 DEF SpecLine, None, Plain
      <3>5. After(k, g) = New(p, g)
        BY <1>4, <1>5, <1>6, <2>4, AfterChange
      <3>6. k <= m
        BY <1>2, <1>3, <1>4, <2>2, <2>4
      <3>7. \A j \in 1 .. m : k < j => g \notin Changed(plan.prs[j])
        <4> SUFFICES ASSUME NEW j \in 1 .. m, k < j, g \in Changed(plan.prs[j]) PROVE FALSE
          OBVIOUS
        <4>1. j \in 1 .. n /\ ~(m < j)
          BY <1>3
        <4>2. g \in ToInstall(plan.prs[j])
          BY <1>1, <4>1, Changes DEF AllRemoves, PureRemoves, ToInstall
        <4>3. <<j, g>> \in edits
          BY <1>3, <3>1, <4>1, <4>2
        <4> QED
          BY <1>2, <1>4, <2>2, <4>1, <4>2, <4>3
      <3>8. After(m, g) = After(k, g)
        BY <1>3, <3>6, <3>7, AfterSame
      <3> QED
        BY <2>4, <3>4, <3>5, <3>8
    <2> QED
      BY <2>3, <2>4
  <1> QED
    BY <1>3, <1>7, <1>8, <1>9, <1>10 DEF BuildInv, Agreed

\* When all lines are edited the ones of the dropped gems go.
LEMMA CutStep ==
    ASSUME BuildInv, BuildTypeOK', CutSpec
    PROVE  BuildInv'
  <1> DEFINE n == Len(plan.prs)
  <1>1. BuildTypeOK /\ Order /\ Disk /\ Chained /\ SourceStems /\ AnchorStays /\ SpecFollows
    BY DEF BuildInv
  <1>2. /\ step = "specs" /\ step' = "tag" /\ edits = {} /\ ~tag /\ n \in Nat /\ at = n + 1
        /\ UNCHANGED <<plan, installed, at, source, edits, warned, tag>>
        /\ spec' = [g \in Gem |-> IF g \in Cut THEN None ELSE spec[g]]
    BY <1>1, Changes DEF CutSpec, Order, Built
  <1>3. Order' /\ Disk' /\ Chained' /\ SourceStems'
    <2>1. Order'
      BY <1>1, <1>2, SamePlan DEF Order, Built
    <2>2. Disk'
      BY <1>1, <1>2, SamePlan DEF Disk, Built
    <2>3. Chained'
      BY <1>1, <1>2, SamePlan DEF Chained, Built
    <2>4. SourceStems'
      BY <1>1, <1>2, SamePlan DEF SourceStems, Built
    <2> QED
      BY <2>1, <2>2, <2>3, <2>4
  <1>4. ASSUME warned = {}, Editable'
        PROVE  spec' = source /\ \A g \in Gem : source[g] # None => g \in installed
    <2>1. /\ \A g \in AllRemoves \cup AllGems : Longer[g] = {}
          /\ AllRemoves \cap (AllGems \cup {Anchor}) = {}
          /\ PlanEditable /\ spec'[Anchor] # None
      BY <1>2, <1>4, SamePlan DEF Editable, PlanEditable
    <2>2. Cut = AllRemoves
      BY <2>1 DEF Cut, WithLonger
    <2>3. Anchor \in Gem /\ Anchor \notin AllRemoves
      BY <2>1, BuildAssumption
    <2>4. BaseSpec[Anchor] # None
      BY <1>1, <1>2, <2>1, <2>2, <2>3 DEF AnchorStays
    <2>5. installed = (BaseGems \ AllRemoves) \cup AllGems
      BY <1>1, <1>2, <2>2 DEF Disk, Built
    <2>6. \A g \in Gem : \/ Touching(n, g) = {} /\ source[g] = BaseSpec[g]
                         \/ \E j \in Touching(n, g) : source[g] = New(plan.prs[j], g)
      BY <1>1, <1>2, <1>4 DEF SourceStems, Built
    <2>7. \A g \in Gem : \A j \in Touching(n, g) :
             /\ New(plan.prs[j], g) # None => g \in AllGems
             /\ New(plan.prs[j], g) = None => g \in AllRemoves
      BY <1>1, Changes DEF Touching, AllGems, AllRemoves, ToInstall, PureRemoves
    <2>8. \A g \in AllRemoves : g \in Gem /\ Touching(n, g) # {}
      BY <1>1, Changes DEF Touching, AllRemoves, PureRemoves, Changed
    <2>9. \A g \in AllRemoves : source[g] = None
      BY <2>1, <2>6, <2>7, <2>8
    <2>10. ASSUME NEW g \in Gem, g \notin AllRemoves PROVE spec[g] = source[g]
      <3>1. n \in 0 .. n /\ DoneUpTo(g, n)
        BY <1>2 DEF DoneUpTo
      <3>2. spec[g] = After(n, g)
        BY <1>1, <1>2, <1>4, <2>1, <2>4, <2>10, <3>1 DEF SpecFollows
      <3> QED
        BY <1>1, <1>2, <1>4, <3>2 DEF Chained, Built
    <2>11. spec' = source
      BY <1>1, <1>2, <2>2, <2>9, <2>10 DEF BuildTypeOK
    <2>12. ASSUME NEW g \in Gem, source[g] # None PROVE g \in installed
      <3>1. g \notin AllRemoves
        BY <2>9, <2>12
      <3> QED
        BY <2>5, <2>6, <2>7, <2>12, <3>1 DEF BaseGems
    <2> QED
      BY <2>11, <2>12
  <1>5. Agreed'
    BY <1>2, <1>4 DEF Agreed
  <1> QED
    BY <1>2, <1>3, <1>5 DEF BuildInv, EditsInOrder, AnchorStays, SpecFollows

LEMMA TagStep ==
    ASSUME BuildInv, BuildTypeOK', TagImage
    PROVE  BuildInv'
  <1>1. /\ step = "tag" /\ step' = "done" /\ tag' = TRUE
        /\ UNCHANGED <<plan, installed, at, source, edits, spec, warned>>
    BY DEF TagImage, Cleanup
  <1>2. Order' /\ Disk' /\ Chained' /\ SourceStems'
    BY <1>1, SamePlan DEF BuildInv, Order, Disk, Built, Chained, SourceStems
  <1>3. Editable' <=> Editable
    BY <1>1, SamePlan DEF Editable
  <1> QED
    BY <1>1, <1>2, <1>3 DEF BuildInv, EditsInOrder, AnchorStays, SpecFollows, Agreed

(***************************************************************************)
(* The image that gets the tag, whatever the pull requests change of one   *)
(* another's dependencies: what bundler_ext reads, what ruby loads and     *)
(* what is on the disk agree, when every diff fitted and the edits of the  *)
(* specification can express the changes.                                  *)
(***************************************************************************)
THEOREM BuildImageIsConsistent == BuildSpec => []ImageIsConsistent
  <1>1. BuildInv /\ [BuildNext]_buildVars => BuildInv'
    <2> SUFFICES ASSUME BuildInv, [BuildNext]_buildVars PROVE BuildInv'
      OBVIOUS
    <2>1. CASE BuildNext
      <3>1. BuildTypeOK'
        BY <2>1, BuildType
      <3> QED
        BY <2>1, <3>1, BeginBuild, Prepare, PatchStep, EditStep, CutStep, TagStep, BreakOff DEF BuildNext
    <2>2. CASE UNCHANGED buildVars
      <3>1. UNCHANGED <<plan, step, installed, at, source, edits, spec, warned, tag>>
        BY <2>2 DEF buildVars
      <3>2. BuildTypeOK' /\ Order' /\ Disk' /\ Chained' /\ SourceStems' /\ EditsInOrder' /\ AnchorStays'
        BY <3>1, SamePlan
        DEF BuildInv, BuildTypeOK, Order, Built, Disk, Chained, SourceStems, EditsInOrder, AnchorStays
      <3>3. SpecFollows'
        BY <3>1, SamePlan DEF BuildInv, SpecFollows, DoneUpTo
      <3>4. Agreed'
        BY <3>1, SamePlan DEF BuildInv, Agreed, Editable
      <3> QED
        BY <3>2, <3>3, <3>4 DEF BuildInv
    <2> QED
      BY <2>1, <2>2
  <1>2. BuildInv => ImageIsConsistent
    BY DEF BuildInv, Agreed, ImageIsConsistent
  <1> QED
    BY <1>1, <1>2, BuildBegins, PTL DEF BuildSpec
=============================================================================
