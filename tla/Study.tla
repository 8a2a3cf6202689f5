-------------------------------- MODULE Study --------------------------------
(***************************************************************************)
(* How studies begin (create_study, _register_study_metric_content and     *)
(* initialize_experiment_line of operator/service.py).                     *)
(*                                                                         *)
(* A study freezes the state its H0 has: commit, constitution, role        *)
(* configuration and Memory.  Studies of one cohort must have frozen the   *)
(* same.  Snapshots, release, branch, link and rows are made one after the *)
(* other, without a lease; a command may fail or die between them, and in  *)
(* the regimes with "overlap" two commands run at the same time.  Roles,   *)
(* models, skills and configuration are one field; so are the digests      *)
(* taken from them.                                                        *)
(***************************************************************************)
EXTENDS Naturals, FiniteSets

CONSTANTS Procs, Studies, Lines, Targets,
          Regimes,      \* faults ("overlap", "crash", "io"), commands and studies
          MaxDrifts,    \* bound on the changes of the world
          NoStudy, NoLine

VARIABLES regime,
          world,        \* what a study would freeze now
          drifts,
          studies,      \* rows of studies, all of one cohort
          memory,       \* study -> its Memory snapshot, 0 if none
          manifest,     \* studies whose manifest snapshot exists
          starts,       \* studies with a BASELINE metric
          lines,        \* rows of experiment_lines, with the H0 checkpoint
          branch,       \* study -> commit of its line branch, 0 if none
          release,      \* studies whose H0 release exists
          link,         \* studies whose active-release link points to it
          pc, loc,
          scars,        \* history: studies whose command died
          broken        \* history: copies that failed on their way, [study, what]

disk  == <<memory, manifest, release, link, branch>>
rows  == <<studies, starts, lines>>
svars == <<regime, world, drifts, disk, rows, pc, loc, scars, broken>>

Fields == {"base", "policy", "config", "memory"}
Idle   == [study |-> NoStudy, line |-> NoLine, target |-> "none",
           frozen |-> [f \in Fields |-> 0]]

Init ==
  /\ regime \in Regimes
  /\ world = [f \in Fields |-> 1] /\ drifts = 0
  /\ studies = [s \in Studies |-> NoStudy] /\ lines = [s \in Studies |-> NoLine]
  /\ memory = [s \in Studies |-> 0] /\ manifest = {} /\ starts = {}
  /\ branch = [s \in Studies |-> 0] /\ release = {} /\ link = {}
  /\ pc = [p \in Procs |-> "idle"] /\ loc = [p \in Procs |-> Idle]
  /\ scars = {} /\ broken = {}

\* The project moves on: a commit, a constitution, a setting, a Memory.
Drift(f) ==
  /\ drifts < MaxDrifts
  /\ world' = [world EXCEPT ![f] = 3 - @] /\ drifts' = drifts + 1
  /\ UNCHANGED <<regime, disk, rows, pc, loc, scars, broken>>

MayBegin(p) ==
  /\ p \in regime.procs /\ pc[p] = "idle"
  /\ "overlap" \in regime.faults \/ \A q \in Procs : pc[q] = "idle"

Step(p, from, to) == pc[p] = from /\ pc' = [pc EXCEPT ![p] = to]
Raises(p)  == pc' = [pc EXCEPT ![p] = "idle"] /\ loc' = [loc EXCEPT ![p] = Idle]
Mine(p)    == loc[p].study

-----------------------------------------------------------------------------
(* create_study.                                                           *)

\* Everything but the Memory is read before the first snapshot.
CreateBegins(p, s, l, t) ==
  /\ MayBegin(p) /\ s \in regime.studies
  /\ Step(p, "idle", "memory")
  /\ loc' = [loc EXCEPT ![p] = [study |-> s, line |-> l, target |-> t,
                                frozen |-> [world EXCEPT !.memory = 0]]]
  /\ UNCHANGED <<regime, world, drifts, disk, rows, scars, broken>>

\* An existing snapshot is refused, whoever left it.
SnapshotMemory(p) ==
  /\ pc[p] = "memory"
  /\ IF memory[Mine(p)] = 0
     THEN /\ Step(p, "memory", "manifest")
          /\ memory' = [memory EXCEPT ![Mine(p)] = world.memory]
          /\ loc' = [loc EXCEPT ![p].frozen.memory = world.memory]
     ELSE Raises(p) /\ UNCHANGED memory
  /\ UNCHANGED <<regime, world, drifts, manifest, release, link, branch, rows,
                 scars, broken>>

Breaks(p, what) ==
  /\ "io" \in regime.faults
  /\ broken' = broken \cup {[study |-> Mine(p), what |-> what]}
  /\ Raises(p)

\* copytree or a chmod raises before the command knows of the snapshot, and
\* its error path takes away only the snapshots that it knows of.
SnapshotBreaks(p) ==
  /\ pc[p] = "memory" /\ memory[Mine(p)] = 0
  /\ Breaks(p, "memory")
  /\ memory' = [memory EXCEPT ![Mine(p)] = world.memory]
  /\ UNCHANGED <<regime, world, drifts, manifest, release, link, branch, rows, scars>>

\* The same after the manifest has been put in its place.
ManifestBreaks(p) ==
  /\ pc[p] = "manifest" /\ Mine(p) \notin manifest
  /\ Breaks(p, "manifest")
  /\ manifest' = manifest \cup {Mine(p)}
  /\ memory' = [memory EXCEPT ![Mine(p)] = 0]
  /\ UNCHANGED <<regime, world, drifts, release, link, branch, rows, scars>>

\* (mutated) the error path forgets the Memory snapshot
TakesBack_KeepsMemory(p) ==
  /\ manifest' = manifest \ {Mine(p)}
  /\ UNCHANGED memory
  /\ Raises(p)

\* Taking back does not fail itself.
TakesBack(p) ==
  /\ manifest' = manifest \ {Mine(p)}
  /\ memory' = [memory EXCEPT ![Mine(p)] = 0]
  /\ Raises(p)

SnapshotManifest(p) ==
  /\ \/ /\ Step(p, "manifest", "cohort")
        /\ Mine(p) \notin manifest
        /\ manifest' = manifest \cup {Mine(p)}
        /\ UNCHANGED <<memory, loc>>
     \/ /\ pc[p] = "manifest"
        /\ "io" \in regime.faults \/ Mine(p) \in manifest
        /\ memory' = [memory EXCEPT ![Mine(p)] = 0]
        /\ Raises(p) /\ UNCHANGED manifest
  /\ UNCHANGED <<regime, world, drifts, release, link, branch, rows, scars, broken>>

Known == {studies[s] : s \in Studies} \ {NoStudy}

\* The other studies of the cohort froze the same and aim elsewhere.
Fits(p) == \A r \in Known : r.target # loc[p].target /\ r.frozen = loc[p].frozen

CheckCohort(p) ==
  /\ pc[p] = "cohort"
  /\ IF Fits(p)
     THEN Step(p, "cohort", "row") /\ UNCHANGED <<memory, manifest, loc>>
     ELSE TakesBack(p)
  /\ UNCHANGED <<regime, world, drifts, release, link, branch, rows, scars, broken>>

\* write_study: study and line ids are unique.
Unique(p) == /\ studies[Mine(p)] = NoStudy
             /\ \A r \in Known : r.line # loc[p].line

WriteStudy(p) ==
  /\ pc[p] = "row"
  /\ IF Unique(p)
     THEN /\ studies' = [studies EXCEPT ![Mine(p)] =
               [line |-> loc[p].line, target |-> loc[p].target,
                frozen |-> loc[p].frozen]]
          /\ Raises(p) /\ UNCHANGED <<memory, manifest>>
     ELSE TakesBack(p) /\ UNCHANGED studies
  /\ UNCHANGED <<regime, world, drifts, release, link, branch, starts, lines, scars, broken>>

-----------------------------------------------------------------------------
(* The H0 metric and the line.                                             *)

Intact(s) == studies[s] # NoStudy /\ memory[s] = studies[s].frozen.memory
             /\ s \in manifest

BeforeTheLine(s) == lines[s] = NoLine

\* A Guard receipt about the frozen commit, manifest and success contract.
RegisterBaseline(s) ==
  /\ Intact(s) /\ BeforeTheLine(s)
  /\ starts' = starts \cup {s}
  /\ UNCHANGED <<regime, world, drifts, disk, studies, lines, pc, loc, scars, broken>>

\* No branch of the line and no H0 release exist yet.
Vacant(s) == branch[s] = 0 /\ s \notin release

Ready(s) == Intact(s) /\ s \in starts /\ Vacant(s)

InitBegins(p, s) ==
  /\ MayBegin(p)
  /\ Step(p, "idle", "release")
  /\ Ready(s)
  /\ studies[s].frozen.policy = world.policy
  /\ loc' = [loc EXCEPT ![p] = [Idle EXCEPT !.study = s, !.line = studies[s].line,
                                            !.frozen = studies[s].frozen]]
  /\ UNCHANGED <<regime, world, drifts, disk, rows, scars, broken>>

\* The copy fails when another command made the directory meanwhile, and
\* its error path removes the directory.
CopyRelease(p) ==
  /\ pc[p] = "release"
  /\ IF Mine(p) \notin release
     THEN /\ Step(p, "release", "digests") /\ UNCHANGED loc
          /\ release' = release \cup {Mine(p)}
     ELSE /\ Raises(p)
          /\ release' = release \ {Mine(p)}
  /\ UNCHANGED <<regime, world, drifts, memory, manifest, link, branch, rows, scars, broken>>

\* The copy succeeds and a chmod raises outside of its error path.
ReleaseBreaks(p) ==
  /\ pc[p] = "release" /\ Mine(p) \notin release
  /\ Breaks(p, "release")
  /\ release' = release \cup {Mine(p)}
  /\ UNCHANGED <<regime, world, drifts, memory, manifest, link, branch, rows, scars>>

\* The configuration that the roles have now is compared with the study's.
CheckDigests(p) ==
  /\ pc[p] = "digests"
  /\ IF Mine(p) \in release /\ loc[p].frozen.config = world.config
     THEN Step(p, "digests", "branch") /\ UNCHANGED <<release, loc>>
     ELSE Raises(p) /\ release' = release \ {Mine(p)}
  /\ UNCHANGED <<regime, world, drifts, memory, manifest, link, branch, rows, scars, broken>>

\* update-ref that expects no branch.
CreateBranch(p) ==
  /\ pc[p] = "branch"
  /\ IF branch[Mine(p)] = 0
     THEN /\ Step(p, "branch", "link")
          /\ branch' = [branch EXCEPT ![Mine(p)] = loc[p].frozen.base]
          /\ UNCHANGED <<release, loc>>
     ELSE /\ Raises(p) /\ release' = release \ {Mine(p)}
          /\ UNCHANGED branch
  /\ UNCHANGED <<regime, world, drifts, memory, manifest, link, rows, scars, broken>>

Activate(p) ==
  /\ Step(p, "link", "line")
  /\ link' = link \cup {Mine(p)}
  /\ UNCHANGED <<regime, world, drifts, memory, manifest, release, branch, rows,
                 loc, scars, broken>>

Undo(p) ==
  /\ branch' = [branch EXCEPT ![Mine(p)] = 0]
  /\ link' = link \ {Mine(p)} /\ release' = release \ {Mine(p)}

\* The row and the H0 checkpoint in one transaction, or everything back.
WriteLine(p) ==
  /\ pc[p] = "line" /\ Raises(p)
  /\ \/ /\ lines[Mine(p)] = NoLine
        /\ lines' = [lines EXCEPT ![Mine(p)] = loc[p].line]
        /\ UNCHANGED <<branch, link, release>>
     \/ /\ lines[Mine(p)] # NoLine \/ "io" \in regime.faults
        /\ Undo(p) /\ UNCHANGED lines
  /\ UNCHANGED <<regime, world, drifts, memory, manifest, studies, starts, scars, broken>>

Dies(p) ==
  /\ "crash" \in regime.faults /\ pc[p] # "idle"
  /\ scars' = scars \cup {Mine(p)}
  /\ Raises(p)
  /\ UNCHANGED <<regime, world, drifts, disk, rows, broken>>

Create(p) == \/ \E s \in Studies, l \in Lines, t \in Targets : CreateBegins(p, s, l, t)
             \/ SnapshotMemory(p) \/ SnapshotBreaks(p)
             \/ SnapshotManifest(p) \/ ManifestBreaks(p) \/ CheckCohort(p) \/ WriteStudy(p)

Initialize(p) == \/ \E s \in Studies : InitBegins(p, s)
                 \/ CopyRelease(p) \/ ReleaseBreaks(p) \/ CheckDigests(p) \/ CreateBranch(p)
                 \/ Activate(p) \/ WriteLine(p)

Next == \/ \E f \in Fields : Drift(f)
        \/ \E s \in Studies : RegisterBaseline(s)
        \/ \E p \in Procs : Create(p) \/ Initialize(p) \/ Dies(p)

Spec == Init /\ [][Next]_svars

-----------------------------------------------------------------------------
Alone  == "overlap" \notin regime.faults
Quiet(s) == s \notin scars /\ \A p \in Procs : Mine(p) # s
Broke(s, what) == [study |-> s, what |-> what] \in broken

(* Every value stays in its type; the type invariant of the module.        *)
TypeOK ==
  /\ \A s \in Studies : memory[s] \in 0 .. 2 /\ branch[s] \in 0 .. 2
  /\ \A r \in Known : r.line \in Lines /\ r.target \in Targets
                      /\ r.frozen \in [Fields -> 1 .. 2]
  /\ \A s \in Studies : lines[s] \in Lines \cup {NoLine}
  /\ starts \subseteq {s \in Studies : studies[s] # NoStudy}

(* A registered study has the very snapshots whose digests it froze, also  *)
(* when commands for the same study overlap or die (create_study).         *)
StudyHasItsSnapshots == \A s \in Studies : studies[s] # NoStudy => Intact(s)

(* Studies of one cohort froze the same and aim at different checkpoints,  *)
(* as long as create_study commands follow one another.                    *)
CohortIsFrozen ==
  Alone => \A s, t \in Studies :
    s # t /\ studies[s] # NoStudy /\ studies[t] # NoStudy =>
      /\ studies[s].frozen = studies[t].frozen
      /\ studies[s].target # studies[t].target

(* An initialized line has its branch, release and link, and an H0 metric  *)
(* that was registered before it (initialize_experiment_line).             *)
LineIsComplete ==
  Alone => \A s \in Studies : lines[s] # NoLine =>
    /\ s \in starts /\ s \in release /\ s \in link
    /\ branch[s] = studies[s].frozen.base

(* While commands follow one another and none died, what a command that    *)
(* failed leaves of a study or a line are the copies that failed on their  *)
(* way: no other snapshot without a study, no branch and no link and no    *)
(* other release without a line.  Such a copy stays and every further      *)
(* attempt at the name is refused: the error paths know of a copy only     *)
(* once it was made (create_study, initialize_experiment_line).            *)
OnlyBrokenCopiesStay ==
  Alone => \A s \in Studies : Quiet(s) =>
    /\ studies[s] = NoStudy => /\ memory[s] # 0 <=> Broke(s, "memory")
                               /\ s \in manifest <=> Broke(s, "manifest")
    /\ lines[s] = NoLine => /\ branch[s] = 0 /\ s \notin link
                            /\ s \in release <=> Broke(s, "release")

(* A branch whose row exists is never created over or taken away, not even *)
(* by overlapping initializations (update-ref with an expected value).     *)
BranchStays ==
  [][\A s \in Studies : lines[s] # NoLine => branch'[s] = branch[s]]_svars
=============================================================================
