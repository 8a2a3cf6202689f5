--------------------------- MODULE ExperimentLine ---------------------------
(***************************************************************************)
(* One experiment line of the Operator loop: its row in the SQLite store,  *)
(* its Git branch, its active-release symlink, and the commands that move  *)
(* them (operator/service.py integrate_candidate, rollback_experiment_line *)
(* and create_checkpoint).  The three stores are updated one after the     *)
(* other by long commands; leases in SQLite keep the commands apart, but a *)
(* lease that is older than lease_timeout_seconds may be taken over while  *)
(* its holder still runs, and a command may die between any two steps.     *)
(*                                                                         *)
(* The line starts as initialize_experiment_line leaves it.  Its status    *)
(* never leaves OPEN in this code, so it is not a variable.  Budget and    *)
(* usage guards are Budget's; how a request becomes VERIFIED is the        *)
(* request lifecycle's, one step here.                                     *)
(***************************************************************************)
EXTENDS Naturals, Sequences

CONSTANTS Procs,        \* operator commands that may run at the same time
          Requests,     \* operator requests bound to this line
          Names,        \* checkpoint names other than H0 (one per study)
          Faults,       \* which of "crash", "theft", "store", "git" may happen
          HasRemote,    \* whether the line has a configured remote
          MaxCommits,   \* bound on the commits the commands build
          Nobody,       \* owner of a lease that is not held
          Ghost,        \* owner of a lease whose process died
          NoOne         \* the empty value of a request or checkpoint field

ASSUME ConstantsAssumption ==
  /\ Nobody \notin Procs /\ Ghost \notin Procs /\ Nobody # Ghost
  /\ Procs \cap Requests = {}
  /\ "line" \notin Requests
  /\ "H0" \notin Names /\ "none" \notin Names
  /\ MaxCommits \in Nat \ {0}
  /\ HasRemote \in BOOLEAN

VARIABLES line,         \* row of experiment_lines: [head, gen, ckpt]
          log,          \* CANDIDATE and ROLLBACK rows of integrations, in order
          recon,        \* positions of log after which a RECONCILIATION row sorts
          ckpts,        \* checkpoint name -> subject commit, 0 if no such row
          metrics,      \* subject commits of registered CANDIDATE study metrics
          req,          \* operator requests: [phase, base, gen]
          lease,        \* rows of request_leases and experiment_line_leases
          commits,      \* Git commits: id -> [parent, tree]
          ref,          \* refs/heads/<line branch>
          remote,       \* the branch in the configured remote
          releases,     \* checkpoint names whose release directory exists
          link,         \* target of the active-release symlink of the study
          pc, loc,      \* where each command is, and what it remembers
          orphans       \* history: results left in ref by a command that ended

stores == <<line, log, recon, ckpts, metrics, req>>
git    == <<commits, ref, remote>>
files  == <<releases, link>>
vars   == <<stores, lease, git, files, pc, loc, orphans>>

Base     == 1
AllNames == Names \cup {"H0"}
Resources == Requests \cup {"line"}
CommitIds == 1 .. MaxCommits
Idle     == [op |-> "none", who |-> NoOne, head |-> 0, gen |-> 0,
             result |-> 0, prev |-> "none", push |-> FALSE]

Init ==
  /\ line = [head |-> Base, gen |-> 0, ckpt |-> "H0"]
  /\ log = << >> /\ recon = {} /\ metrics = {}
  /\ ckpts = [n \in AllNames |-> IF n = "H0" THEN Base ELSE 0]
  /\ req = [r \in Requests |-> [phase |-> "NONE", base |-> 0, gen |-> 0]]
  /\ lease = [x \in Resources |-> [owner |-> Nobody, stale |-> FALSE]]
  /\ commits = <<[parent |-> 0, tree |-> Base]>>
  /\ ref = Base /\ remote = Base
  /\ releases = {"H0"} /\ link = "H0"
  /\ pc = [p \in Procs |-> "idle"] /\ loc = [p \in Procs |-> Idle]
  /\ orphans = {}

-----------------------------------------------------------------------------
(* Leases.  The holder neither renews its lease nor looks at it again.     *)

Acquirable(x) == lease[x].owner = Nobody \/ lease[x].stale
Held(p)       == [owner |-> p, stale |-> FALSE]
ReleasedBy(p) == [x \in Resources |-> IF lease[x].owner = p
                                      THEN Held(Nobody) ELSE lease[x]]

LeaseExpires(x) ==
  /\ lease[x].owner # Nobody /\ ~ lease[x].stale
  /\ lease[x].owner = Ghost \/ "theft" \in Faults
  /\ lease' = [lease EXCEPT ![x].stale = TRUE]
  /\ UNCHANGED <<stores, git, files, pc, loc, orphans>>

Goto(p, label) == pc' = [pc EXCEPT ![p] = label]

\* The command returns or raises: its leases are released on the way out.
Finish(p) ==
  /\ Goto(p, "idle")
  /\ loc' = [loc EXCEPT ![p] = Idle]
  /\ lease' = ReleasedBy(p)

Aborts(p) == Finish(p) /\ UNCHANGED <<stores, git, files, orphans>>

-----------------------------------------------------------------------------
(* Requests and metrics.                                                   *)

\* create_request refuses a line whose Git ref disagrees with its row.
CreateRequest(r) ==
  /\ req[r].phase = "NONE"
  /\ ref = line.head
  /\ req' = [req EXCEPT ![r] = [phase |-> "PENDING", base |-> line.head,
                                gen |-> line.gen]]
  /\ UNCHANGED <<line, log, recon, ckpts, metrics, lease, git, files, pc, loc,
                 orphans>>

Verified(r) ==
  /\ req[r].phase = "PENDING"
  /\ req' = [req EXCEPT ![r].phase = "VERIFIED"]
  /\ UNCHANGED <<line, log, recon, ckpts, metrics, lease, git, files, pc, loc,
                 orphans>>

\* (mutated) any last integration will do
HeadIsCandidate_AnyKind == log # << >> /\ log[Len(log)].result = line.head

\* integrations[-1] is a CANDIDATE that produced the current head.
HeadIsCandidate ==
  /\ log # << >> /\ Len(log) \notin recon
  /\ log[Len(log)].kind = "CANDIDATE"
  /\ log[Len(log)].result = line.head

RecordMetric ==
  /\ HeadIsCandidate
  /\ metrics' = metrics \cup {line.head}
  /\ UNCHANGED <<line, log, recon, ckpts, req, lease, git, files, pc, loc,
                 orphans>>

-----------------------------------------------------------------------------
(* integrate_candidate.                                                    *)

\* (mutated) the binding of the request is not compared with the line
BoundToLine_Unchecked(r) == TRUE

BoundToLine(r) == req[r].base = line.head /\ req[r].gen = line.gen

\* Every check up to the line lease, under the request lease.
IntegrateStart(p, r, push) ==
  /\ pc[p] = "idle" /\ Acquirable(r)
  /\ req[r].phase = "VERIFIED"
  /\ BoundToLine(r)
  /\ ref = line.head
  /\ lease' = [lease EXCEPT ![r] = Held(p)]
  /\ loc' = [loc EXCEPT ![p] =
       [Idle EXCEPT !.op = "integrate", !.who = r, !.head = line.head,
                    !.gen = line.gen, !.push = push]]
  /\ Goto(p, "line_lease")
  /\ UNCHANGED <<stores, git, files, orphans>>

\* The candidate no longer matches its verification: the request reopens.
IntegrateReopens(p, r) ==
  /\ pc[p] = "idle" /\ Acquirable(r)
  /\ req[r].phase = "VERIFIED"
  /\ req' = [req EXCEPT ![r].phase = "PENDING"]
  /\ lease' = [lease EXCEPT ![r] = Held(Nobody)]
  /\ UNCHANGED <<line, log, recon, ckpts, metrics, git, files, pc, loc, orphans>>

\* (mutated) the compare-and-swap forgets the generation
Unmoved_HeadOnly(p) == line.head = loc[p].head

Unmoved(p) == line.head = loc[p].head /\ line.gen = loc[p].gen

IntegrateLease(p) ==
  /\ pc[p] = "line_lease"
  /\ IF Acquirable("line") /\ Unmoved(p)
     THEN /\ lease' = [lease EXCEPT !["line"] = Held(p)]
          /\ Goto(p, "build")
          /\ UNCHANGED <<stores, git, files, loc, orphans>>
     ELSE Aborts(p)

-----------------------------------------------------------------------------
(* rollback_experiment_line and create_checkpoint, up to their first write. *)

RollbackStart(p, n, push) ==
  /\ pc[p] = "idle" /\ Acquirable("line")
  /\ ckpts[n] # 0 /\ n \in releases
  /\ commits[line.head].tree # commits[ckpts[n]].tree
  /\ log # << >> \/ recon # {}
  /\ lease' = [lease EXCEPT !["line"] = Held(p)]
  /\ loc' = [loc EXCEPT ![p] =
       [Idle EXCEPT !.op = "rollback", !.who = n, !.head = line.head,
                    !.gen = line.gen, !.push = push]]
  /\ Goto(p, "build")
  /\ UNCHANGED <<stores, git, files, orphans>>

CheckpointStart(p, n) ==
  /\ pc[p] = "idle" /\ Acquirable("line")
  /\ n # "H0" /\ ckpts[n] = 0
  /\ HeadIsCandidate
  /\ line.head \in metrics
  /\ n \notin releases
  /\ lease' = [lease EXCEPT !["line"] = Held(p)]
  /\ loc' = [loc EXCEPT ![p] =
       [Idle EXCEPT !.op = "checkpoint", !.who = n, !.head = line.head,
                    !.gen = line.gen]]
  /\ Goto(p, "copy")
  /\ UNCHANGED <<stores, git, files, orphans>>

\* The release directory was absent when the command looked.  A copy that
\* finds it present now fails, and its error path removes the directory.
CheckpointCopy(p) ==
  /\ pc[p] = "copy"
  /\ IF loc[p].who \notin releases
     THEN /\ releases' = releases \cup {loc[p].who}
          /\ loc' = [loc EXCEPT ![p].prev = link]
          /\ Goto(p, "link")
          /\ UNCHANGED <<lease, link>>
     ELSE /\ releases' = releases \ {loc[p].who}
          /\ Finish(p)
          /\ UNCHANGED link
  /\ UNCHANGED <<stores, git, orphans>>

-----------------------------------------------------------------------------
(* The steps that integrate_candidate and rollback_experiment_line share.  *)

\* Merge or restore in a detached worktree, then policy and validation.
TreeOf(p) == IF loc[p].op = "integrate" THEN Len(commits) + 1
             ELSE commits[ckpts[loc[p].who]].tree

Build(p) ==
  /\ pc[p] = "build"
  /\ Len(commits) < MaxCommits
  /\ loc[p].op = "rollback" => loc[p].who \in releases
  /\ commits' = Append(commits, [parent |-> loc[p].head, tree |-> TreeOf(p)])
  /\ loc' = [loc EXCEPT ![p].result = Len(commits) + 1, ![p].prev = link]
  /\ Goto(p, IF loc[p].op = "integrate" THEN "update_ref" ELSE "link")
  /\ UNCHANGED <<stores, lease, ref, remote, files, orphans>>

\* (mutated) the command leaves its leases behind when validation rejects
BuildFails_KeepsLease(p) ==
  /\ pc[p] = "build"
  /\ Goto(p, "idle") /\ loc' = [loc EXCEPT ![p] = Idle]
  /\ UNCHANGED <<stores, lease, git, files, orphans>>

BuildFails(p) == pc[p] = "build" /\ Aborts(p)

\* Only a rollback switches the active release before the ref and the row,
\* a checkpoint before its row.
Activate(p) ==
  /\ pc[p] = "link"
  /\ link' = loc[p].who
  /\ Goto(p, IF loc[p].op = "rollback" THEN "update_ref" ELSE "advance")
  /\ UNCHANGED <<stores, lease, git, releases, loc, orphans>>

\* The configuration of the copied release cannot be frozen: the copy goes.
FreezeFails(p) ==
  /\ pc[p] = "link" /\ loc[p].op = "checkpoint"
  /\ releases' = releases \ {loc[p].who}
  /\ Finish(p)
  /\ UNCHANGED <<stores, git, link, orphans>>

\* (mutated) update-ref without the expected old value
RefCas_Forced(expected) == TRUE

RefCas(expected) == ref = expected

\* git update-ref <ref> <result> <expected head>.
UpdateRef(p) ==
  /\ pc[p] = "update_ref"
  /\ IF RefCas(loc[p].head)
     THEN /\ ref' = loc[p].result
          /\ Goto(p, "advance")
          /\ UNCHANGED <<stores, lease, commits, remote, files, loc, orphans>>
     ELSE \/ loc[p].op = "integrate" /\ Aborts(p)
          \/ /\ loc[p].op = "rollback"
             /\ Goto(p, "restore")
             /\ UNCHANGED <<stores, lease, git, files, loc, orphans>>

\* (mutated) the record carries the new generation
Row_NewGeneration(p) ==
  [kind |-> IF loc[p].op = "integrate" THEN "CANDIDATE" ELSE "ROLLBACK",
   who |-> loc[p].who, expHead |-> loc[p].head, expGen |-> loc[p].gen + 1,
   result |-> loc[p].result]

Row(p) == [kind |-> IF loc[p].op = "integrate" THEN "CANDIDATE" ELSE "ROLLBACK",
           who |-> loc[p].who, expHead |-> loc[p].head, expGen |-> loc[p].gen,
           result |-> loc[p].result]

\* advance_experiment_line: compare-and-swap of the row together with the
\* integration record, in one transaction.
Advance(p) ==
  /\ pc[p] = "advance" /\ loc[p].op # "checkpoint"
  /\ Unmoved(p)
  /\ log' = Append(log, Row(p))
  /\ line' = [head |-> loc[p].result, gen |-> loc[p].gen + 1,
              ckpt |-> IF loc[p].op = "rollback" THEN loc[p].who ELSE line.ckpt]
  /\ Goto(p, "push")
  /\ UNCHANGED <<recon, ckpts, metrics, req, lease, git, files, loc, orphans>>

\* write_checkpoint_and_activate: the same for a checkpoint record.
AdvanceCheckpoint(p) ==
  /\ pc[p] = "advance" /\ loc[p].op = "checkpoint"
  /\ Unmoved(p) /\ ckpts[loc[p].who] = 0
  /\ ckpts' = [ckpts EXCEPT ![loc[p].who] = loc[p].head]
  /\ line' = [line EXCEPT !.gen = loc[p].gen + 1, !.ckpt = loc[p].who]
  /\ Finish(p)
  /\ UNCHANGED <<log, recon, metrics, req, git, files, orphans>>

\* (mutated) a failed advance is taken for a successful one
AdvanceFails_Ignored(p) ==
  /\ pc[p] = "advance"
  /\ ~ Unmoved(p) \/ "store" \in Faults
  /\ Goto(p, IF loc[p].op = "checkpoint" THEN "restore" ELSE "push")
  /\ UNCHANGED <<stores, lease, git, files, loc, orphans>>

\* The transaction raises: a stale line, a checkpoint that exists, or the
\* database itself.
AdvanceFails(p) ==
  /\ pc[p] = "advance"
  /\ \/ ~ Unmoved(p)
     \/ loc[p].op = "checkpoint" /\ ckpts[loc[p].who] # 0
     \/ "store" \in Faults
  /\ Goto(p, IF loc[p].op = "checkpoint" THEN "restore" ELSE "undo")
  /\ UNCHANGED <<stores, lease, git, files, loc, orphans>>

\* (mutated) the failed integration does not put the ref back
Undo_Forgotten(p) ==
  /\ pc[p] = "undo"
  /\ IF loc[p].op = "integrate"
     THEN Finish(p)
     ELSE Goto(p, "restore") /\ UNCHANGED <<lease, loc>>
  /\ UNCHANGED <<stores, git, files, orphans>>

\* git update-ref <ref> <expected head> <result>, after a failed advance.
Undo(p) ==
  /\ pc[p] = "undo"
  /\ RefCas(loc[p].result)
  /\ ref' = loc[p].head
  /\ IF loc[p].op = "integrate"
     THEN Finish(p)
     ELSE Goto(p, "restore") /\ UNCHANGED <<lease, loc>>
  /\ UNCHANGED <<stores, commits, remote, files, orphans>>

\* Git refuses the undo.  An integration leaves a RECONCILIATION row, a
\* rollback ignores the result.
UndoFails(p) ==
  /\ pc[p] = "undo"
  /\ ~ RefCas(loc[p].result) \/ "git" \in Faults
  /\ orphans' = orphans \cup {loc[p].result}
  /\ IF loc[p].op = "integrate"
     THEN recon' = recon \cup {Len(log)} /\ Finish(p)
     ELSE Goto(p, "restore") /\ UNCHANGED <<recon, lease, loc>>
  /\ UNCHANGED <<line, log, ckpts, metrics, req, git, files>>

\* (mutated) the failed command leaves its own release active
Restore_Forgotten(p) ==
  /\ pc[p] = "restore"
  /\ Finish(p)
  /\ UNCHANGED <<stores, git, files, orphans>>

\* A failed rollback or checkpoint puts back the link it replaced; the
\* checkpoint also removes the release directory it made.
Restore(p) ==
  /\ pc[p] = "restore"
  /\ link' = loc[p].prev
  /\ releases' = IF loc[p].op = "checkpoint" THEN releases \ {loc[p].who}
                 ELSE releases
  /\ Finish(p)
  /\ UNCHANGED <<stores, git, orphans>>

-----------------------------------------------------------------------------
(* After the advance: the optional push, then the closing event.           *)

PushSkipped(p) ==
  /\ pc[p] = "push" /\ ~ loc[p].push
  /\ Goto(p, "close")
  /\ UNCHANGED <<stores, lease, git, files, loc, orphans>>

\* First-parent ancestors of a commit, itself included.
Ancestors ==
  LET anc[c \in 1 .. Len(commits)] ==
        {c} \cup IF commits[c].parent = 0 THEN {} ELSE anc[commits[c].parent]
  IN anc

FastForward(c) == remote \in Ancestors[c]

Push(p) ==
  /\ pc[p] = "push" /\ loc[p].push /\ HasRemote
  /\ FastForward(loc[p].result)
  /\ remote' = loc[p].result
  /\ Goto(p, "close")
  /\ UNCHANGED <<stores, lease, commits, ref, files, loc, orphans>>

Position(p) == CHOOSE i \in DOMAIN log : log[i].result = loc[p].result

\* The push is rejected or cannot reach the remote: a RECONCILIATION row
\* that carries the time of the committed one, and the command raises.
PushFails(p) ==
  /\ pc[p] = "push" /\ loc[p].push /\ HasRemote
  /\ recon' = recon \cup {Position(p)}
  /\ Finish(p)
  /\ UNCHANGED <<line, log, ckpts, metrics, req, git, files, orphans>>

\* A push was asked for and the line has no remote: the command raises.
PushRefused(p) ==
  /\ pc[p] = "push" /\ loc[p].push /\ ~ HasRemote
  /\ Aborts(p)

\* request_closed for an integration; a rollback only logs an event.
Close(p) ==
  /\ pc[p] = "close"
  /\ req' = IF loc[p].op = "integrate"
            THEN [req EXCEPT ![loc[p].who].phase = "CLOSED"] ELSE req
  /\ Finish(p)
  /\ UNCHANGED <<line, log, recon, ckpts, metrics, git, files, orphans>>

-----------------------------------------------------------------------------
(* A command dies.  Its leases stay until they time out.                   *)

InFlight(p) == \/ pc[p] = "undo"
               \/ pc[p] = "advance" /\ loc[p].op # "checkpoint"

Crash(p) ==
  /\ "crash" \in Faults /\ pc[p] # "idle"
  /\ Goto(p, "idle")
  /\ loc' = [loc EXCEPT ![p] = Idle]
  /\ lease' = [x \in Resources |-> IF lease[x].owner = p
                                   THEN [lease[x] EXCEPT !.owner = Ghost]
                                   ELSE lease[x]]
  /\ orphans' = IF InFlight(p) THEN orphans \cup {loc[p].result} ELSE orphans
  /\ UNCHANGED <<stores, git, files>>

Step(p) ==
  \/ IntegrateLease(p)
  \/ CheckpointCopy(p)
  \/ Build(p) \/ BuildFails(p)
  \/ Activate(p) \/ FreezeFails(p)
  \/ UpdateRef(p)
  \/ Advance(p) \/ AdvanceCheckpoint(p) \/ AdvanceFails(p)
  \/ Undo(p) \/ UndoFails(p)
  \/ Restore(p)
  \/ PushSkipped(p) \/ Push(p) \/ PushFails(p) \/ PushRefused(p)
  \/ Close(p)

Start(p) ==
  \/ \E r \in Requests, push \in BOOLEAN : IntegrateStart(p, r, push)
  \/ \E r \in Requests : IntegrateReopens(p, r)
  \/ \E n \in AllNames, push \in BOOLEAN : RollbackStart(p, n, push)
  \/ \E n \in AllNames : CheckpointStart(p, n)

Next ==
  \/ \E r \in Requests : CreateRequest(r) \/ Verified(r)
  \/ RecordMetric
  \/ \E p \in Procs : Start(p) \/ Step(p) \/ Crash(p)
  \/ \E x \in Resources : LeaseExpires(x)

\* Commands run on their own and the clock of the leases advances; nobody
\* owes the system a new command.
Fairness ==
  /\ \A p \in Procs : WF_vars(Step(p))
  /\ \A x \in Resources : WF_vars(LeaseExpires(x))

Spec     == Init /\ [][Next]_vars
FairSpec == Spec /\ Fairness

-----------------------------------------------------------------------------
(* Properties.                                                             *)

Rows == [kind : {"CANDIDATE", "ROLLBACK"}, who : Requests \cup AllNames,
         expHead : CommitIds, expGen : Nat, result : CommitIds]

CommitRecords == [parent : CommitIds \cup {0}, tree : CommitIds]

Labels == {"idle", "line_lease", "copy", "build", "link", "update_ref",
           "advance", "undo", "restore", "push", "close"}

Locals == [op : {"none", "integrate", "rollback", "checkpoint"},
           who : Requests \cup AllNames \cup {NoOne},
           head : CommitIds \cup {0}, gen : Nat, result : CommitIds \cup {0},
           prev : AllNames \cup {"none"}, push : BOOLEAN]

StoreTypes ==
  /\ line \in [head : CommitIds, gen : Nat, ckpt : AllNames]
  /\ log \in Seq(Rows)
  /\ recon \subseteq Nat
  /\ ckpts \in [AllNames -> CommitIds \cup {0}]
  /\ metrics \subseteq CommitIds
  /\ req \in [Requests -> [phase : {"NONE", "PENDING", "VERIFIED", "CLOSED"},
                           base : CommitIds \cup {0}, gen : Nat]]

GitTypes ==
  /\ commits \in Seq(CommitRecords) /\ Len(commits) \in CommitIds
  /\ ref \in CommitIds /\ remote \in CommitIds
  /\ orphans \subseteq CommitIds

FileTypes == releases \subseteq AllNames /\ link \in AllNames

CommandTypes ==
  /\ lease \in [Resources -> [owner : Procs \cup {Nobody, Ghost},
                              stale : BOOLEAN]]
  /\ pc \in [Procs -> Labels]
  /\ loc \in [Procs -> Locals]

\* Every variable stays in its type (the records of operator/models.py); in
\* particular the active release always points at a checkpoint.
TypeOK == StoreTypes /\ GitTypes /\ FileTypes /\ CommandTypes

\* No update of the line is lost or forked, whatever leases expire and
\* commands die: each committed row starts at the head the previous one left,
\* its commit is a child of that head, and generations only grow.
LinearHistory ==
  /\ line.head = IF log = << >> THEN Base ELSE log[Len(log)].result
  /\ \A i \in DOMAIN log :
       /\ log[i].expHead = IF i = 1 THEN Base ELSE log[i - 1].result
       /\ commits[log[i].result].parent = log[i].expHead
       /\ log[i].expGen < line.gen
       /\ \A j \in DOMAIN log : i < j => log[i].expGen < log[j].expGen

\* A request enters the line at most once, also when its integration was
\* committed but the command then failed to push or died, and is run again.
IntegratedAtMostOnce ==
  \A i, j \in DOMAIN log :
    /\ log[i].kind = "CANDIDATE" /\ log[j].kind = "CANDIDATE"
    /\ log[i].who = log[j].who
    => i = j

\* The Git branch differs from the row only while one command is between the
\* two writes, or because a command ended there.
RefFollowsLine ==
  \/ ref = line.head
  \/ ref \in orphans
  \/ \E p \in Procs : InFlight(p) /\ ref = loc[p].result

\* Two commands are never both between the Git ref and the database row,
\* although no lease guarantees it, and the head has not moved under the one
\* that is: only the generation may fail its compare-and-swap.
OneInFlight ==
  \A p \in Procs : InFlight(p) =>
    /\ ref = loc[p].result /\ line.head = loc[p].head
    /\ \A q \in Procs : InFlight(q) => q = p

\* Nothing reaches the remote before it is a committed integration.
RemoteIsCommitted ==
  remote = Base \/ \E i \in DOMAIN log : log[i].result = remote

\* A checkpoint other than H0 froze a measured head that a candidate
\* integration produced; a rollback row leads to its checkpoint's tree.
CheckpointsAreSound ==
  /\ \A n \in Names : ckpts[n] # 0 =>
       /\ ckpts[n] \in metrics
       /\ \E i \in DOMAIN log : log[i].kind = "CANDIDATE" /\ log[i].result = ckpts[n]
  /\ \A i \in DOMAIN log : log[i].kind = "ROLLBACK" =>
       commits[log[i].result].tree = commits[ckpts[log[i].who]].tree

\* Once a command has ended between the ref and the row, no command moves the
\* head again: the line fails closed until someone repairs the ref.
DivergedLineStops == [][(ref \in orphans) => UNCHANGED line.head]_vars

Switching(p) == /\ pc[p] \in {"update_ref", "advance", "undo", "restore"}
                /\ loc[p].op # "integrate"

\* The active release is the one of the active checkpoint whenever no command
\* is switching it, and its directory exists: a failed rollback "preserves line
\* and active release" (tests/test_operator_checkpoint.py).
ActiveReleaseAgrees ==
  /\ (\A p \in Procs : ~ Switching(p)) => link = line.ckpt
  /\ link \in releases

\* Whoever holds the line lease, another command can take it some day.
LeaseComesBack == []<> Acquirable("line")

\* The inductive invariant of ExperimentLineProofs.

Committed == {Base} \cup {log[i].result : i \in DOMAIN log}

\* The command built a commit that is not in the history yet.
Built(p) == /\ loc[p].op \in {"integrate", "rollback"}
            /\ pc[p] \in {"link", "update_ref", "advance", "undo"}

\* What a command remembers fits the place where it stands.
Fits(p) ==
  /\ pc[p] = "line_lease" => loc[p].op = "integrate"
  /\ pc[p] = "copy" => loc[p].op = "checkpoint"
  /\ pc[p] \in {"build", "update_ref", "undo", "push", "close"}
       => loc[p].op \in {"integrate", "rollback"}
  /\ pc[p] \in {"link", "restore"} => loc[p].op \in {"rollback", "checkpoint"}
  /\ pc[p] = "advance" => loc[p].op # "none"
  /\ pc[p] \in {"link", "update_ref", "advance", "undo", "restore"}
       => loc[p].prev \in AllNames
  /\ loc[p].op = "integrate" =>
       /\ loc[p].who \in Requests
       /\ req[loc[p].who].phase # "NONE" /\ req[loc[p].who].gen = loc[p].gen
  /\ loc[p].op = "rollback" => loc[p].who \in AllNames /\ ckpts[loc[p].who] # 0
  /\ loc[p].op = "checkpoint" => loc[p].who \in Names
  /\ pc[p] # "idle" => loc[p].head \in Committed /\ loc[p].gen <= line.gen
  /\ pc[p] = "push" => \E i \in DOMAIN log : log[i].result = loc[p].result

LocalsFit == \A p \in Procs : Fits(p)

\* Commits that are built, committed or orphaned are kept apart.
CommitsApart ==
  /\ Committed \subseteq 1 .. Len(commits)
  /\ orphans \subseteq 1 .. Len(commits) /\ orphans \cap Committed = {}
  /\ \A n \in AllNames : ckpts[n] \in Committed \cup {0}
  /\ \A p \in Procs : Built(p) =>
       /\ loc[p].result \in 1 .. Len(commits)
       /\ loc[p].result \notin Committed \cup orphans
       /\ commits[loc[p].result].parent = loc[p].head
       /\ \A q \in Procs : Built(q) /\ loc[q].result = loc[p].result => q = p

\* A candidate row carries the generation its request is bound to.
RowsBound ==
  \A i \in DOMAIN log : log[i].kind = "CANDIDATE" =>
    /\ log[i].who \in Requests
    /\ req[log[i].who].phase # "NONE" /\ req[log[i].who].gen = log[i].expGen

IInv == /\ TypeOK /\ LinearHistory /\ RefFollowsLine /\ OneInFlight
        /\ RemoteIsCommitted /\ LocalsFit /\ CommitsApart /\ RowsBound

Authority == INSTANCE LineAuthority WITH Commits <- CommitIds

\* The row, its history and the checkpoints behave as the atomic history of
\* LineAuthority.
ImplementsAuthority == Authority!Spec
=============================================================================
