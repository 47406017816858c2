------------------------- MODULE ImagePatchingProps -------------------------
(* What a live patch promises to the runs that come after it. *)
EXTENDS ImagePatching

\* The files the k-th pull request of a run shows in the container.  Whole
\* files cannot be removed, nor can single mounts; what --per-file-mounts let
\* pass was only warned of.
Shown(p, k) ==
    LET pr == p.prs[k]
        gone == UNION {Removes[q] : q \in ToSet(p.prs)}
    IN  (Adds[pr] \ (Excluded \cup Dangling \cup gone))
          \ (IF p.perFile THEN p.rejected ELSE {})

\* The pull requests whose change to f a run keeps: all with diffs, the last
\* one with whole files.
Kept(p, f) ==
    LET touching == {k \in 1..Len(p.prs) : f \in Adds[p.prs[k]]}
    IN  IF p.whole THEN {p.prs[CHOOSE k \in touching : \A j \in touching : j <= k]}
        ELSE {p.prs[k] : k \in touching}

\* "The script is intentionally strict: patch application must succeed"
\* (patch_container_image.py:12): a run that came to a good end stays in force,
\* whatever later runs do or break off, until one of them takes its tag with
\* --force, writes its drop-in, or fails to start its unit.  Its drop-in mounts
\* its own tree, the files of its pull requests are there with all the changes
\* the run keeps, and a container that was restarted mounts that very tree.
AppliedStays ==
    \A p \in promised :
      /\ \A m \in dropin[p.unit][p.dropin].mounts : m.tag = p.tag /\ HostPathExists(m)
      /\ dropin[p.unit][p.dropin].mounts = tree[p.tag].manifest
      /\ p.live => Mounted(p.unit) \cap {[mount |-> m, gen |-> tree[p.tag].gen] :
                          m \in dropin[p.unit][p.dropin].mounts} \subseteq running[p.unit]
      /\ \A k \in 1..Len(p.prs) : \A f \in Shown(p, k) :
           /\ \E m \in dropin[p.unit][p.dropin].mounts :
                m.path \in {<<BaseOf[p.prs[k]]>>, <<BaseOf[p.prs[k]], f>>}
           /\ f \in tree[p.tag].files
           /\ Kept(p, f) \ (IF p.perFile THEN {q \in PR : f \in p.rejected} ELSE {})
                \subseteq tree[p.tag].in[f]

\* Code that needs a migration is not mounted before the database has it: the
\* next start of a unit, whoever causes it, finds the schema its code expects.
MigratedBeforeMounted ==
    \A u \in Unit, d \in Dropin :
      dropin[u][d].whole =>
        \A p \in ToSet(dropin[u][d].prs) :
          \A f \in (Adds[p] \ Excluded) \cap Migration : <<p, f>> \in db

\* "overlaid back via a quadlet Volume= bind-mount drop-in, and the service
\* restarted" (playbooks/satellite/roles/apply_prs/tasks/main.yaml:24): when the
\* role has patched its containers one after the other, every one of them is
\* still served from its patched tree.
RolePatchesEveryContainer ==
    pc = "idle" => \A u \in Unit : \A m \in MountsOf(u) : HostPathExists(m)
=============================================================================
