---------------------------- MODULE ImagePatching ----------------------------
(***************************************************************************)
(* scripts/patch_container_image.py: pull requests laid over a running      *)
(* container.  A run extracts directories of the base image into the patch  *)
(* root of its tag, patches them there, and has the units mount them by a   *)
(* quadlet drop-in.  Patch roots, drop-ins, the database and the services   *)
(* outlive the run, which may stop at any command, and later runs meet what *)
(* it left.                                                                 *)
(***************************************************************************)
EXTENDS Integers, Sequences, FiniteSets, SequencesExt

CONSTANTS
    PR, File, Unit, Tag, Dropin, Base,
    BaseOf,       \* the directory a pull request patches
    FilesIn,      \* the files of a directory
    Adds,         \* files a pull request changes or adds
    Removes,      \* files it removes
    Excluded,     \* files its exclude patterns match
    Dangling,     \* files below a link that leads out of the extracted tree
    Migration,    \* those of them in db/migrate
    GemFile,      \* gemspecs, Gemfile and Gemfile.lock
    Gemspec,      \* those of them whose dependencies are changed
    Quadlet,      \* units with a .container file
    Requests,     \* the command lines that are used
    MaxRuns       \* bound: runs of the script

\* The arguments of a command line.
Request == [tag : Tag, units : SUBSET Unit, dropin : Dropin, prs : Seq(PR), whole : BOOLEAN,
            perFile : BOOLEAN, force : BOOLEAN, dry : BOOLEAN, restart : BOOLEAN, root : BOOLEAN]

ASSUME PatchingAssumption ==
    /\ Requests \subseteq Request
    /\ BaseOf \in [PR -> Base]
    /\ \A p \in PR : Adds[p] \cup Removes[p] \subseteq FilesIn[BaseOf[p]]
    /\ \A b \in Base : FilesIn[b] \subseteq File
    /\ \A b, c \in Base : b # c => FilesIn[b] \cap FilesIn[c] = {}
    /\ Migration \subseteq Dangling
    /\ Gemspec \subseteq GemFile
    /\ \A p \in PR : Adds[p] \cap Removes[p] = {}

VARIABLES
    tree,      \* the patch root of each tag
    dropin,    \* the drop-ins of each unit
    db,        \* migrations that the database has seen
    running,   \* what the container of each unit mounts since it was started
    pc,        \* where the script is; "idle" between two runs
    run,       \* its arguments and local variables
    runs,      \* how many runs there were
    promised   \* history: runs that came to a good end and were not replaced

vars == <<tree, dropin, db, running, pc, run, runs, promised>>

-----------------------------------------------------------------------------
\* gen counts how often the root was removed: a container that mounts an
\* earlier one looks into a deleted directory.
NoRoot(gen) == [root |-> FALSE, gen |-> gen, bases |-> {}, files |-> {},
                in |-> [f \in File |-> {}], manifest |-> {}]

NoDropin == [mounts |-> {}, prs |-> <<>>, whole |-> FALSE]

NoRun == [tag |-> CHOOSE t \in Tag : TRUE, units |-> {}, dropin |-> CHOOSE d \in Dropin : TRUE,
          prs |-> <<>>, whole |-> FALSE, perFile |-> FALSE, force |-> FALSE,
          dry |-> FALSE, restart |-> FALSE, root |-> FALSE,
          next |-> 1, changed |-> {}, rejected |-> {}, pending |-> {}, mounts |-> {}, written |-> {}]

Init ==
    /\ tree = [t \in Tag |-> NoRoot(0)]
    /\ dropin = [u \in Unit |-> [d \in Dropin |-> NoDropin]]
    /\ db = {}
    /\ running = [u \in Unit |-> {}]
    /\ pc = "idle"
    /\ run = NoRun
    /\ runs = 0
    /\ promised = {}

Root == tree[run.tag]
SetRoot(new) == tree' = [tree EXCEPT ![run.tag] = new]
Finish == pc' = "idle" /\ run' = NoRun

\* What a run knows when it starts.
Called(r) ==
    [NoRun EXCEPT !.tag = r.tag, !.units = r.units, !.dropin = r.dropin, !.prs = r.prs,
                  !.whole = r.whole, !.perFile = r.perFile, !.force = r.force,
                  !.dry = r.dry, !.restart = r.restart, !.root = r.root]

\* Faulty: a patch root that exists is used again without --force.
MayUseAnyRoot(r) == TRUE

MayUseRoot(r) == ~tree[r.tag].root \/ r.force

\* The root is replaced before anything else is looked at, the user's rights
\* included.
Begin(r) ==
    /\ pc = "idle" /\ runs < MaxRuns
    /\ runs' = runs + 1
    /\ IF MayUseRoot(r)
       THEN /\ tree' = [tree EXCEPT ![r.tag] =
                  [NoRoot(IF @.root THEN @.gen + 1 ELSE @.gen) EXCEPT !.root = TRUE]]
            /\ promised' = {p \in promised : p.tag # r.tag \/ ~r.force}
            /\ IF r.dry \/ r.root
               THEN pc' = "collect" /\ run' = Called(r)
               ELSE UNCHANGED <<pc, run>>
       ELSE UNCHANGED <<tree, promised, pc, run>>
    /\ UNCHANGED <<dropin, db, running>>

\* Whole files are rejected by their name, diffs by the lines that change a
\* dependency; removed and excluded files are not even fetched.
Fetched(p) == Adds[p] \ Excluded

Offends(p) ==
    IF run.whole THEN Fetched(p) \cap GemFile # {}
    ELSE (Adds[p] \cup Removes[p]) \cap Gemspec # {}

UnitsExist == run.dry \/ run.units \subseteq Quadlet

Collect ==
    /\ pc = "collect"
    /\ \A p \in ToSet(run.prs) : ~Offends(p)
    /\ UnitsExist
    /\ pc' = "extract"
    /\ UNCHANGED <<tree, dropin, db, running, run, runs, promised>>

\* The directories of the entries, one per pull request.
BaseDirs == {BaseOf[p] : p \in ToSet(run.prs)}

\* cp -a of a directory of the mounted image; links stay links.
Extracted(b) == [Root EXCEPT !.bases = @ \cup {b}, !.files = @ \cup (FilesIn[b] \ Dangling)]

\* Each directory is extracted once, all of them before the first patch.
Extract ==
    /\ pc = "extract"
    /\ IF BaseDirs \subseteq Root.bases
       THEN pc' = "apply" /\ UNCHANGED tree
       ELSE /\ \E b \in BaseDirs \ Root.bases : SetRoot(Extracted(b))
            /\ UNCHANGED pc
    /\ UNCHANGED <<dropin, db, running, run, runs, promised>>

\* Files are copied over what is there, whoever changed them before.
WriteWholeFiles(p) ==
    LET written == Fetched(p) \ Dangling
    IN  /\ SetRoot([Root EXCEPT
              !.files = @ \cup written,
              !.in = [f \in File |-> IF f \in written THEN {p} ELSE @[f]]])
        /\ run' = [run EXCEPT !.next = @ + 1,
                              !.changed = @ \cup written,
                              !.pending = @ \cup {<<p, f>> : f \in Fetched(p) \cap Migration}]
        /\ UNCHANGED pc

\* Faulty: rejected hunks are never an error.
DiffAcceptedAnyhow(rejected) == TRUE

\* Rejected hunks are only tolerated with --per-file-mounts; files that cannot
\* be created below a dangling link are skipped in either case.
DiffAccepted(rejected) == rejected = {} \/ run.perFile

ApplyDiff(p) ==
    LET cut == (Adds[p] \cup Removes[p]) \ (Excluded \cup Dangling)
    IN  \E rejected \in SUBSET cut : \E part \in SUBSET rejected :
        LET done == cut \ rejected IN
        /\ SetRoot([Root EXCEPT
              !.files = (@ \cup (Adds[p] \cap done)) \ (Removes[p] \cap done),
              !.in = [f \in File |-> IF f \in cut \ rejected THEN @[f] \cup {p} ELSE @[f]]])
        /\ IF DiffAccepted(rejected)
           THEN /\ run' = [run EXCEPT !.next = @ + 1,
                                      !.changed = @ \cup part \cup done,
                                      !.rejected = @ \cup rejected]
                /\ UNCHANGED pc
           ELSE Finish

Apply ==
    /\ pc = "apply" /\ run.next <= Len(run.prs)
    /\ LET p == run.prs[run.next] IN IF run.whole THEN WriteWholeFiles(p) ELSE ApplyDiff(p)
    /\ UNCHANGED <<dropin, db, running, runs, promised>>

\* find_changed_files: what is there and not as it was extracted.
ChangedFiles(b) == run.changed \cap Root.files \cap FilesIn[b]

\* A mount of each directory, or of each changed file in it.
MountSpecs ==
    IF run.perFile
    THEN UNION {{[tag |-> run.tag, path |-> <<b, f>>] : f \in ChangedFiles(b)} : b \in Root.bases}
    ELSE {[tag |-> run.tag, path |-> <<b>>] : b \in Root.bases}

\* Faulty: the drop-ins are written before the migrations are run.
NextAfterManifestDropins == "dropins"

NextAfterManifest == IF run.dry THEN "idle" ELSE "migrate"

Manifest ==
    /\ pc = "apply" /\ run.next > Len(run.prs)
    /\ SetRoot([Root EXCEPT !.manifest = MountSpecs])
    /\ run' = IF run.dry THEN NoRun ELSE [run EXCEPT !.mounts = MountSpecs]
    /\ pc' = NextAfterManifest
    /\ UNCHANGED <<dropin, db, running, runs, promised>>

\* In the container foreman that runs now; ten attempts at each.
Migrate ==
    /\ pc = "migrate"
    /\ IF run.pending = {}
       THEN pc' = "dropins" /\ UNCHANGED <<db, run>>
       ELSE \E m \in run.pending :
              /\ db' = db \cup {m}
              /\ run' = [run EXCEPT !.pending = @ \ {m}]
              /\ UNCHANGED pc
    /\ UNCHANGED <<tree, dropin, running, runs, promised>>

WriteDropin ==
    /\ pc = "dropins" /\ run.written # run.units
    /\ \E u \in run.units \ run.written :
         /\ dropin' = [dropin EXCEPT ![u][run.dropin] =
                         [mounts |-> run.mounts, prs |-> run.prs, whole |-> run.whole]]
         /\ promised' = {p \in promised : p.unit # u \/ p.dropin # run.dropin}
         /\ run' = [run EXCEPT !.written = @ \cup {u}]
    /\ UNCHANGED <<tree, db, running, pc, runs>>

\* podman needs every host path and takes a path in the container once.
MountsOf(u) == UNION {dropin[u][d].mounts : d \in Dropin}
HostPathExists(m) ==
    /\ m.path[1] \in tree[m.tag].bases
    /\ Len(m.path) = 2 => m.path[2] \in tree[m.tag].files
Starts(u) ==
    /\ \A m \in MountsOf(u) : HostPathExists(m)
    /\ \A m, n \in MountsOf(u) : m.path = n.path => m = n

Mounted(u) == {[mount |-> m, gen |-> tree[m.tag].gen] : m \in MountsOf(u)}

Promise(live) ==
    {[unit |-> u, dropin |-> run.dropin, tag |-> run.tag, prs |-> run.prs, whole |-> run.whole,
      perFile |-> run.perFile, rejected |-> run.rejected, live |-> live] : u \in run.units}

Restart ==
    /\ pc = "dropins" /\ run.written = run.units
    /\ IF run.restart
       THEN LET down == {u \in run.units : ~Starts(u)}
            IN  /\ running' = [u \in Unit |->
                      IF u \notin run.units THEN running[u]
                      ELSE IF u \in down THEN {} ELSE Mounted(u)]
                /\ promised' = IF down = {} THEN promised \cup Promise(TRUE)
                               ELSE {p \in promised : p.unit \notin down}
       ELSE promised' = promised \cup Promise(FALSE) /\ UNCHANGED running
    /\ Finish
    /\ UNCHANGED <<tree, dropin, db, runs>>

\* A download, podman, systemctl or a write failed, or the user stopped it.
Exit ==
    /\ pc # "idle"
    /\ Finish
    /\ UNCHANGED <<tree, dropin, db, running, runs, promised>>

Step == Collect \/ Extract \/ Apply \/ Manifest \/ Migrate \/ WriteDropin \/ Restart \/ Exit

Next == Step \/ \E r \in Requests : Begin(r)

Spec == Init /\ [][Next]_vars
=============================================================================
