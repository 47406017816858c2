----------------------------- MODULE ImageBuild -----------------------------
(***************************************************************************)
(* scripts/build_patched_container_image.py: pull requests built into an    *)
(* image.  Changes of gem dependencies are read from the diffs, and the     *)
(* Containerfile removes gems, installs gems, patches the source and edits  *)
(* the compiled specifications, in that order over all pull requests.  The  *)
(* model follows one gem that is patched, and the gems it depends on.       *)
(***************************************************************************)
EXTENDS Integers, Sequences, FiniteSets, Functions

CONSTANTS
    Gem,        \* gems the patched one may depend on
    Longer,     \* Longer[g]: gems whose names go on with a dash after g's
    Anchor,     \* the gem whose line new dependencies are written below
    Pull,       \* the pull requests a build can be given
    Change,     \* Change[p][g]: <<old, new>> dependency in the diff of p
    BaseSpec,   \* dependencies of the gem in the base image
    MaxPrs      \* bound: pull requests of one build

\* A dependency: none, one without a version, or one of several versions.
None == 0
Plain == 1
Dependency == Nat

ASSUME BuildAssumption ==
    /\ Anchor \in Gem /\ Longer \in [Gem -> SUBSET Gem] /\ MaxPrs \in Nat
    /\ BaseSpec \in [Gem -> Dependency]
    /\ \A p \in Pull : Change[p] \in [Gem -> Dependency \X Dependency]

VARIABLES
    step,      \* what the script or podman is about to do
    plan,      \* the pull requests, and which of --keep-builddir and --dry-run
    installed, \* gems on the disk of the image that is built
    at,        \* the pull request whose diff is applied next
    source,    \* the dependencies in the patched gemspec
    edits,     \* lines of the specification still to edit: place of the request, gem
    spec,      \* those in the compiled specification
    warned,    \* pull requests that were applied in part
    buildDir,  \* the temporary directory exists
    tag        \* the tag names the image

buildVars == <<step, plan, installed, at, source, edits, spec, warned, buildDir, tag>>

Plans == {s \in UNION {[1 .. n -> Pull] : n \in 1 .. MaxPrs} : IsInjective(s)}

BuildInit ==
    /\ step = "idle"
    /\ plan = [prs |-> <<>>, keep |-> FALSE, dry |-> FALSE]
    /\ installed = {g \in Gem : BaseSpec[g] # None}
    /\ at = 1 /\ edits = {}
    /\ source = BaseSpec /\ spec = BaseSpec
    /\ warned = {}
    /\ buildDir = FALSE /\ tag = FALSE

-----------------------------------------------------------------------------
\* parse_gemspec_changes: the lines with - and + of one diff.
Old(p, g) == Change[p][g][1]
New(p, g) == Change[p][g][2]
Changed(p) == {g \in Gem : Old(p, g) # New(p, g)}
ToInstall(p) == {g \in Changed(p) : New(p, g) # None}
PureRemoves(p) == {g \in Changed(p) : New(p, g) = None}
Prs == Range(plan.prs)
AllRemoves == UNION {PureRemoves(p) : p \in Prs}
AllGems == UNION {ToInstall(p) : p \in Prs}
WithLonger(g) == {g} \cup Longer[g]
Cut == UNION {WithLonger(g) : g \in AllRemoves}

BuildBegin(prs, keep, dry) ==
    /\ step = "idle"
    /\ plan' = [prs |-> prs, keep |-> keep, dry |-> dry]
    /\ buildDir' = TRUE
    /\ step' = "fetch"
    /\ UNCHANGED <<installed, at, source, edits, spec, warned, tag>>

\* The finally of main.
Cleanup == step' = "done" /\ buildDir' = plan.keep

\* All diffs are there; the Containerfile is printed by a dry run.
Fetch ==
    /\ step = "fetch"
    /\ IF plan.dry THEN Cleanup ELSE step' = "remove" /\ UNCHANGED buildDir
    /\ UNCHANGED <<plan, installed, at, source, edits, spec, warned, tag>>

\* rm -rf takes whatever begins with the name and a dash.
RemoveGems ==
    /\ step = "remove"
    /\ installed' = installed \ Cut
    /\ step' = "install"
    /\ UNCHANGED <<plan, at, source, edits, spec, warned, buildDir, tag>>

InstallGems ==
    /\ step = "install"
    /\ installed' = installed \cup AllGems
    /\ step' = "patch"
    /\ UNCHANGED <<plan, at, source, edits, spec, warned, buildDir, tag>>

\* One diff after the other; hunks that do not fit are left out with a warning.
Fitting(p) == {g \in Changed(p) : source[g] = Old(p, g)}
SpecPatches == {e \in (1 .. Len(plan.prs)) \X Gem : e[2] \in ToInstall(plan.prs[e[1]])}
PatchSource ==
    /\ step = "patch"
    /\ LET p == plan.prs[at] IN
       \E hunks \in SUBSET Fitting(p) :
         /\ source' = [g \in Gem |-> IF g \in hunks THEN New(p, g) ELSE source[g]]
         /\ \/ hunks = Changed(p) /\ UNCHANGED warned
            \/ warned' = warned \cup {p}
    /\ at' = at + 1
    /\ IF at < Len(plan.prs) THEN UNCHANGED <<step, edits>> ELSE step' = "specs" /\ edits' = SpecPatches
    /\ UNCHANGED <<plan, installed, spec, buildDir, tag>>

\* grep and sed look for the name anywhere in a line.
Mentioned(g) == \E h \in WithLonger(g) : spec[h] # None

\* Faulty: an updated version is not written to the specification.
SpecLineOnlyNew(g, old, new) ==
    IF old <= Plain /\ new > Plain /\ ~Mentioned(g) /\ spec[Anchor] # None THEN new ELSE spec[g]

\* What the line of a gem says after the edit for a change of it.
SpecLine(g, old, new) ==
    IF new > Plain /\ (IF old > Plain THEN spec[g] = old ELSE ~Mentioned(g) /\ spec[Anchor] # None)
    THEN new ELSE spec[g]

\* The sed commands: the pull requests in their order, the gems of one in any.
EditSpec ==
    /\ step = "specs"
    /\ \E e \in edits :
         /\ \A f \in edits : e[1] <= f[1]
         /\ LET p == plan.prs[e[1]] IN
            spec' = [spec EXCEPT ![e[2]] = SpecLine(e[2], Old(p, e[2]), New(p, e[2]))]
         /\ edits' = edits \ {e}
    /\ UNCHANGED <<step, plan, installed, at, source, warned, buildDir, tag>>

\* Lines of dropped gems go last.
CutSpec ==
    /\ step = "specs" /\ edits = {}
    /\ spec' = [g \in Gem |-> IF g \in Cut THEN None ELSE spec[g]]
    /\ step' = "tag"
    /\ UNCHANGED <<plan, installed, at, source, edits, warned, buildDir, tag>>

TagImage ==
    /\ step = "tag"
    /\ tag' = TRUE
    /\ Cleanup
    /\ UNCHANGED <<plan, installed, at, source, edits, spec, warned>>

\* A download, or a RUN of the Containerfile: podman tags nothing.
BuildFail ==
    /\ step \notin {"idle", "done"}
    /\ Cleanup
    /\ UNCHANGED <<plan, installed, at, source, edits, spec, warned, tag>>

BuildNext ==
    \/ \E prs \in Plans, keep, dry \in BOOLEAN : BuildBegin(prs, keep, dry)
    \/ Fetch \/ RemoveGems \/ InstallGems \/ PatchSource \/ EditSpec \/ CutSpec \/ TagImage \/ BuildFail

BuildSpec == BuildInit /\ [][BuildNext]_buildVars

-----------------------------------------------------------------------------
\* What the textual edits of the specification can follow: versions on both
\* sides of a change, a line to write new ones below, no gem that one pull
\* request drops and another takes up, and no name that is the start of another.
Editable ==
    /\ \A p \in Prs : \A g \in Changed(p) : Plain \notin {Old(p, g), New(p, g)}
    /\ AllRemoves \cap (AllGems \cup {Anchor}) = {}
    /\ \A g \in AllRemoves \cup AllGems : Longer[g] = {}
    /\ spec[Anchor] # None

\* The image that gets the tag is consistent: bundler_ext reads the compiled
\* specification, ruby the gem's source and the loader the disk; after all pull
\* requests, in whatever order their changes build on each other, the first two
\* name the same dependencies and every one of them is installed.
ImageIsConsistent ==
    tag /\ warned = {} /\ Editable =>
      /\ spec = source
      /\ \A g \in Gem : source[g] # None => g \in installed
=============================================================================
