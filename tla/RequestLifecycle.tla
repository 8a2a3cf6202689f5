-------------------------- MODULE RequestLifecycle --------------------------
(***************************************************************************)
(* One operator request from activation to its close: the phase projected  *)
(* from its event log, its WriterRuns, CheckRuns and scope revisions, and  *)
(* the candidate worktree they are about (operator/service.py, store.py,   *)
(* projection.py and guard.py).                                            *)
(*                                                                         *)
(* Rows and events are separate transactions.  A request lease keeps the   *)
(* commands apart, but a Writer runs its backend without the lease, so it  *)
(* can be cancelled, and the scope of the request can grow, meanwhile.     *)
(*                                                                         *)
(* A candidate's content is a number: 0 is the frozen base, k what WriterRun*)
(* k made of it, Foreign anything else.  A commit is named by its content, *)
(* 0 is the base commit.  Policy, approvals, validation and the semantic   *)
(* review are outcomes.                                                    *)
(***************************************************************************)
EXTENDS Naturals, Sequences

CONSTANTS Procs,        \* operator commands that may run at the same time
          MaxAttempts,  \* operator.retry.max_attempts
          Regimes,      \* what a behaviour is allowed, see regime
          Foreign,      \* content that no WriterRun made
          Nobody,       \* owner of a lease that is not held
          Ghost         \* owner of a lease whose process died

ASSUME LifecycleAssumption ==
  /\ Nobody \notin Procs /\ Ghost \notin Procs /\ Nobody # Ghost
  /\ MaxAttempts \in Nat \ {0}
  /\ Regimes \subseteq [faults : SUBSET {"crash", "store", "edit", "theft"},
                        checks : Nat, scopes : Nat \ {0}]
  /\ Foreign \notin Nat

VARIABLES regime,       \* chosen once: the faults that may happen, the bounds
                        \* on the CheckRuns started and on the scope version
          view,         \* the projection of the event log
          runs,         \* rows of writer_runs, by attempt
          applied,      \* attempts with a writer_applied event
          checks,       \* rows of check_runs, oldest first
          commits,      \* candidate_committed events
          scope,        \* scope_revisions: version approved, whether one is pending
          feedback,     \* what the last FeedbackPacket allows
          tree, head,   \* content of the candidate worktree and of its HEAD
          lease,        \* the request's row of request_leases
          pc, loc,      \* where each command is, and what it remembers
          released      \* history: what promotions and integrations took

rows      == <<runs, checks, scope, feedback>>
candidate == <<tree, head>>
events    == <<view, applied, commits>>
vars == <<regime, rows, events, candidate, lease, pc, loc, released>>

Idle == [run |-> 0, check |-> 0, patch |-> 0, version |-> 0,
         phase |-> "none", outcome |-> "none"]

Init ==
  /\ regime \in Regimes
  /\ view = [phase |-> "REQUESTED", writer |-> 0, check |-> 0, patch |-> 0,
             head |-> 0, scope |-> 1, broken |-> FALSE]
  /\ runs = << >> /\ applied = {} /\ checks = << >> /\ commits = {}
  /\ scope = [approved |-> 1, pending |-> FALSE] /\ feedback = "none"
  /\ tree = 0 /\ head = 0
  /\ lease = Nobody
  /\ pc = [p \in Procs |-> "idle"] /\ loc = [p \in Procs |-> Idle]
  /\ released = {}

-----------------------------------------------------------------------------
(* Leases and projection.                                                  *)

\* A lease whose process died can be taken over after the timeout.
Acquirable == lease \in {Nobody, Ghost}

Goto(p, label) == pc' = [pc EXCEPT ![p] = label]

\* The command returns or raises.
Finish(p) ==
  /\ Goto(p, "idle")
  /\ loc' = [loc EXCEPT ![p] = Idle]
  /\ lease' = IF lease = p THEN Nobody ELSE lease

\* The command takes the request lease and reads the projection.
Begins(p) == pc[p] = "idle" /\ Acquirable /\ ~ view.broken

Begin(p, label, memory) ==
  /\ lease' = p
  /\ Goto(p, label)
  /\ loc' = [loc EXCEPT ![p] = memory]

NoActiveRun == view.writer = 0 /\ view.check = 0

Legal(from) ==
  CASE from = "REQUESTED" -> {"REQUESTED", "ACTIVE", "CLOSED"}
    [] from = "ACTIVE"    -> {"ACTIVE", "VERIFIED", "CLOSED"}
    [] from = "VERIFIED"  -> {"VERIFIED", "ACTIVE", "CLOSED"}
    [] from = "CLOSED"    -> {"CLOSED"}

\* project_request over one more phase event: an illegal one makes every
\* later projection of the request raise.
Enter(phase) == IF phase \in Legal(view.phase)
                THEN [view EXCEPT !.phase = phase]
                ELSE [view EXCEPT !.broken = TRUE]

-----------------------------------------------------------------------------
(* start.  The worktree and its row are made or recovered first.           *)

Start(p) ==
  /\ Begins(p) /\ view.phase = "REQUESTED"
  /\ Begin(p, "activate", Idle)
  /\ UNCHANGED <<rows, events, candidate, released>>

Activate(p) ==
  /\ pc[p] = "activate"
  /\ view' = Enter("ACTIVE")
  /\ Finish(p)
  /\ UNCHANGED <<rows, applied, commits, candidate, released>>

-----------------------------------------------------------------------------
(* start_writer.                                                           *)

Completed == {i \in DOMAIN runs : runs[i].status = "COMPLETED"}

Before(i) == {j \in Completed : j < i}
Latest(S) == CHOOSE i \in S : \A j \in S : j <= i

\* The content of the base, which start recorded as the Writers' baseline.
Baseline == 0

\* The content that the completed runs of S leave behind.
Left(S) == IF S = {} THEN Baseline ELSE runs[Latest(S)].after

\* _assert_writer_admission_chain: every completed run starts from what the
\* one before it left and was applied, and the worktree is what the last left.
AdmissionChain ==
  /\ \A i \in Completed : runs[i].before = Left(Before(i)) /\ i \in applied
  /\ tree = Left(Completed)

\* (mutated) one attempt more than the budget
StartWriter_OffByOne(p) ==
  /\ Begins(p) /\ view.phase = "ACTIVE" /\ NoActiveRun
  /\ Len(runs) <= MaxAttempts
  /\ AdmissionChain /\ head = 0
  /\ runs' = Append(runs, [status |-> "RUNNING", before |-> tree, after |-> 0])
  /\ Begin(p, "announce", [Idle EXCEPT !.run = Len(runs) + 1])
  /\ UNCHANGED <<checks, scope, feedback, events, candidate, released>>

\* The row goes from QUEUED to RUNNING before any event is written.
StartWriter(p) ==
  /\ Begins(p) /\ view.phase = "ACTIVE" /\ NoActiveRun
  /\ Len(runs) < MaxAttempts
  /\ AdmissionChain /\ head = 0
  /\ runs' = Append(runs, [status |-> "RUNNING", before |-> tree, after |-> 0])
  /\ Begin(p, "announce", [Idle EXCEPT !.run = Len(runs) + 1])
  /\ UNCHANGED <<checks, scope, feedback, events, candidate, released>>

\* writer_started; the lease is given back before the backend runs.
WriterStarted(p) ==
  /\ pc[p] = "announce"
  /\ view' = [view EXCEPT !.writer = loc[p].run]
  /\ Goto(p, "backend") /\ lease' = Nobody
  /\ UNCHANGED <<rows, applied, commits, candidate, loc, released>>

\* The lease ends with the block that raised; the handler takes it again.
WriterRaises(p) ==
  /\ Goto(p, "fail_lease")
  /\ lease' = IF lease = p THEN Nobody ELSE lease
  /\ UNCHANGED loc

Cancelled(p) == runs[loc[p].run].status = "CANCELLED"

\* (mutated) a run that was cancelled meanwhile is not noticed
BackendReturns_Blind(p) ==
  /\ pc[p] = "backend"
  /\ IF Acquirable
     THEN lease' = p /\ Goto(p, "compare") /\ UNCHANGED loc
     ELSE WriterRaises(p)
  /\ UNCHANGED <<rows, events, candidate, released>>

\* Another command that holds the lease right now counts as a failure.
BackendReturns(p) ==
  /\ pc[p] = "backend"
  /\ CASE Acquirable /\ Cancelled(p)   -> Finish(p)
       [] Acquirable /\ ~ Cancelled(p) ->
            lease' = p /\ Goto(p, "compare") /\ UNCHANGED loc
       [] OTHER                        -> WriterRaises(p)
  /\ UNCHANGED <<rows, events, candidate, released>>

BackendRaises(p) ==
  /\ pc[p] = "backend"
  /\ WriterRaises(p)
  /\ UNCHANGED <<rows, events, candidate, released>>

\* The copy of the candidate that was taken before the backend ran.
Backup(p) == runs[loc[p].run].before

Restore(p) == tree' = Backup(p) /\ head' = 0

\* A candidate that changed under the Writer is put back and the run fails.
Compare(p) ==
  /\ pc[p] = "compare"
  /\ IF tree = Backup(p) /\ head = 0
     THEN Goto(p, "apply") /\ UNCHANGED <<candidate, lease, loc>>
     ELSE Restore(p) /\ WriterRaises(p)
  /\ UNCHANGED <<rows, events, released>>

\* The staged files leave the request's scope or are unsafe.
StagingRejected(p) ==
  /\ pc[p] = "apply"
  /\ WriterRaises(p)
  /\ UNCHANGED <<rows, events, candidate, released>>

\* What applying the staged files makes of the worktree: nothing new, the
\* run's own content, or something else if the worktree was touched.
Made(p, changes) ==
  IF tree # runs[loc[p].run].before THEN Foreign
  ELSE IF changes THEN loc[p].run ELSE tree

Apply(p, changes) ==
  /\ pc[p] = "apply"
  /\ tree' = Made(p, changes)
  /\ runs' = [runs EXCEPT ![loc[p].run] =
       [@ EXCEPT !.status = "COMPLETED", !.after = Made(p, changes)]]
  /\ Goto(p, "applied")
  /\ UNCHANGED <<checks, scope, feedback, events, head, lease, loc, released>>

\* The files were copied but the run could not be recorded.
ApplyFails(p) ==
  /\ "store" \in regime.faults /\ pc[p] = "apply"
  /\ tree' = Made(p, TRUE)
  /\ WriterRaises(p)
  /\ UNCHANGED <<rows, events, head, released>>

\* writer_applied and patch_observed.
WriterApplied(p) ==
  /\ pc[p] = "applied"
  /\ applied' = applied \cup {loc[p].run}
  /\ view' = [view EXCEPT !.patch = runs[loc[p].run].after, !.head = 0]
  /\ Goto(p, "complete")
  /\ UNCHANGED <<rows, commits, candidate, lease, loc, released>>

WriterCompleted(p) ==
  /\ pc[p] = "complete"
  /\ view' = [view EXCEPT !.writer = 0]
  /\ Finish(p)
  /\ UNCHANGED <<rows, applied, commits, candidate, released>>

\* The handler needs the lease as well: if another command has it, the run
\* stays RUNNING and active.
FailLease(p) ==
  /\ pc[p] = "fail_lease"
  /\ IF Acquirable /\ ~ Cancelled(p)
     THEN lease' = p /\ Goto(p, "fail") /\ UNCHANGED loc
     ELSE Finish(p)
  /\ UNCHANGED <<rows, events, candidate, released>>

Fail(p) ==
  /\ pc[p] = "fail"
  /\ runs' = [runs EXCEPT ![loc[p].run] = [@ EXCEPT !.status = "FAILED"]]
  /\ Goto(p, "fail_event")
  /\ UNCHANGED <<checks, scope, feedback, events, candidate, lease, loc, released>>

\* writer_failed or writer_timed_out, and feedback that allows a retry.
WriterFailed(p) ==
  /\ pc[p] = "fail_event"
  /\ view' = [view EXCEPT !.writer = 0]
  /\ feedback' = "retry_writer"
  /\ Finish(p)
  /\ UNCHANGED <<runs, checks, scope, applied, commits, candidate, released>>

CancelWriter(p) ==
  /\ Begins(p) /\ view.phase = "ACTIVE"
  /\ view.writer # 0 /\ runs[view.writer].status = "RUNNING"
  /\ runs' = [runs EXCEPT ![view.writer] = [@ EXCEPT !.status = "CANCELLED"]]
  /\ Begin(p, "cancel_event", Idle)
  /\ UNCHANGED <<checks, scope, feedback, events, candidate, released>>

WriterCancelled(p) ==
  /\ pc[p] = "cancel_event"
  /\ view' = [view EXCEPT !.writer = 0]
  /\ Finish(p)
  /\ UNCHANGED <<rows, applied, commits, candidate, released>>

-----------------------------------------------------------------------------
(* commit_candidate.                                                       *)

\* The latest run is the one that completed last, and made the worktree.
WriterIsLatest ==
  /\ runs # << >> /\ Completed # {}
  /\ runs[Len(runs)].status = "COMPLETED"
  /\ runs[Len(runs)].after = tree

CommitCandidate(p) ==
  /\ Begins(p) /\ view.phase = "ACTIVE" /\ NoActiveRun
  /\ head = 0 /\ tree # 0
  /\ AdmissionChain /\ WriterIsLatest
  /\ Begin(p, "git_commit", [Idle EXCEPT !.run = Len(runs), !.patch = tree])
  /\ UNCHANGED <<rows, events, candidate, released>>

\* git add --all and git commit take what is there; a candidate that changed
\* since the checks raises, but stays committed.
GitCommit(p) ==
  /\ pc[p] = "git_commit"
  /\ head' = tree
  /\ IF tree = loc[p].patch
     THEN Goto(p, "commit_event") /\ UNCHANGED <<lease, loc>>
     ELSE Finish(p)
  /\ UNCHANGED <<rows, events, tree, released>>

\* candidate_committed and patch_observed.
CandidateCommitted(p) ==
  /\ pc[p] = "commit_event"
  /\ commits' = commits \cup {[head |-> head, patch |-> loc[p].patch,
                               run |-> loc[p].run]}
  /\ view' = [view EXCEPT !.patch = loc[p].patch, !.head = head]
  /\ Finish(p)
  /\ UNCHANGED <<rows, applied, candidate, released>>

-----------------------------------------------------------------------------
(* verify.                                                                 *)

FastAdmits == tree # 0 => AdmissionChain /\ Completed # {} /\ head = 0

\* (mutated) a full check does not ask for the service's own commit
FullAdmits_AnyCommit ==
  /\ AdmissionChain /\ WriterIsLatest
  /\ tree = head

\* A full check needs the latest WriterRun committed by the service.
FullAdmits ==
  /\ AdmissionChain /\ WriterIsLatest
  /\ [head |-> head, patch |-> tree, run |-> Len(runs)] \in commits
  /\ tree = head

Admits(mode) == IF mode = "full" THEN FullAdmits ELSE FastAdmits

Verify(p, mode) ==
  /\ Begins(p) /\ view.phase = "ACTIVE" /\ NoActiveRun
  /\ Len(checks) < regime.checks
  /\ checks' = Append(checks, [status |-> "RUNNING", mode |-> mode,
                               head |-> head, patch |-> tree,
                               scope |-> scope.approved])
  /\ Begin(p, "check_event",
           [Idle EXCEPT !.check = Len(checks) + 1,
                        !.outcome = IF Admits(mode) THEN "pass" ELSE "rejected"])
  /\ UNCHANGED <<runs, scope, feedback, events, candidate, released>>

CheckStarted(p) ==
  /\ pc[p] = "check_event"
  /\ view' = [view EXCEPT !.check = loc[p].check]
  /\ Goto(p, "check")
  /\ UNCHANGED <<rows, applied, commits, candidate, lease, loc, released>>

Check(p) == checks[loc[p].check]

Unchanged(p) == tree = Check(p).patch /\ head = Check(p).head

\* The validation profiles and, for a full check, the performance baseline
\* and the semantic review.  A candidate that changed meanwhile fails too.
\* What the failures say decides what the feedback allows.
RunChecks(p, outcome) ==
  /\ pc[p] = "check"
  /\ outcome = "pass" => loc[p].outcome = "pass" /\ Unchanged(p)
  /\ loc' = [loc EXCEPT ![p].outcome = outcome]
  /\ Goto(p, "check_save")
  /\ UNCHANGED <<rows, events, candidate, lease, released>>

\* The CheckRun and the GateSnapshot.
CheckSaved(p) ==
  /\ pc[p] = "check_save"
  /\ checks' = [checks EXCEPT ![loc[p].check] =
       [@ EXCEPT !.status = IF loc[p].outcome = "pass" THEN "PASSED" ELSE "FAILED"]]
  /\ Goto(p, "check_done")
  /\ UNCHANGED <<runs, scope, feedback, events, candidate, lease, loc, released>>

\* (mutated) check_passed is not written
CheckEnded_OnlyFailed(p) ==
  /\ pc[p] = "check_done"
  /\ view' = IF loc[p].outcome = "pass" THEN view ELSE [view EXCEPT !.check = 0]
  /\ Goto(p, "accept")
  /\ UNCHANGED <<rows, applied, commits, candidate, lease, loc, released>>

\* check_passed or check_failed.
CheckEnded(p) ==
  /\ pc[p] = "check_done"
  /\ view' = [view EXCEPT !.check = 0]
  /\ Goto(p, "accept")
  /\ UNCHANGED <<rows, applied, commits, candidate, lease, loc, released>>

\* (mutated) a fast check verifies the request
Conclude_AnyMode(p) ==
  /\ pc[p] = "accept"
  /\ view' = IF loc[p].outcome = "pass"
             THEN [Enter("VERIFIED") EXCEPT !.patch = Check(p).patch,
                                            !.head = Check(p).head]
             ELSE view
  /\ Finish(p)
  /\ UNCHANGED <<rows, applied, commits, candidate, released>>

\* verification_accepted for a full check; feedback for a failed one.
Conclude(p) ==
  /\ pc[p] = "accept"
  /\ feedback' = IF loc[p].outcome = "pass" THEN feedback ELSE loc[p].outcome
  /\ view' = IF loc[p].outcome = "pass" /\ Check(p).mode = "full"
             THEN [Enter("VERIFIED") EXCEPT !.patch = Check(p).patch,
                                            !.head = Check(p).head]
             ELSE view
  /\ Finish(p)
  /\ UNCHANGED <<runs, checks, scope, applied, commits, candidate, released>>

-----------------------------------------------------------------------------
(* Scope revisions.                                                        *)

\* request_scope_change: the row of a version is written once, so a pending
\* revision keeps any other out.
RequestScopeChange(p) ==
  /\ Begins(p) /\ view.phase # "CLOSED"
  /\ ~ scope.pending /\ scope.approved < regime.scopes
  /\ scope' = [scope EXCEPT !.pending = TRUE]
  /\ Begin(p, "authority", [Idle EXCEPT !.phase = view.phase,
                                        !.version = scope.approved + 1])
  /\ UNCHANGED <<runs, checks, feedback, events, candidate, released>>

\* The change needs an approval first: only an event is written.
ScopeProposed(p) ==
  /\ pc[p] = "authority"
  /\ Finish(p)
  /\ UNCHANGED <<rows, events, candidate, released>>

\* activate_scope_revision, in any phase.
ActivateRevision(p) ==
  /\ Begins(p) /\ scope.pending
  /\ Begin(p, "approve", [Idle EXCEPT !.phase = view.phase,
                                      !.version = scope.approved + 1])
  /\ UNCHANGED <<rows, events, candidate, released>>

ApproveRevision(p) ==
  /\ pc[p] \in {"authority", "approve"}
  /\ scope' = [approved |-> loc[p].version, pending |-> FALSE]
  /\ Goto(p, "scope_event")
  /\ UNCHANGED <<runs, checks, feedback, events, candidate, lease, loc, released>>

\* (mutated) the request is reopened whatever phase it is in
ScopeApproved_AlwaysReopens(p) ==
  /\ pc[p] = "scope_event"
  /\ view' = [view EXCEPT !.scope = loc[p].version]
  /\ Goto(p, "scope_reopen") /\ UNCHANGED <<lease, loc>>
  /\ UNCHANGED <<rows, applied, commits, candidate, released>>

ScopeApproved(p) ==
  /\ pc[p] = "scope_event"
  /\ view' = [view EXCEPT !.scope = loc[p].version]
  /\ IF loc[p].phase = "VERIFIED"
     THEN Goto(p, "scope_reopen") /\ UNCHANGED <<lease, loc>>
     ELSE Finish(p)
  /\ UNCHANGED <<rows, applied, commits, candidate, released>>

ScopeReopens(p) ==
  /\ pc[p] = "scope_reopen"
  /\ view' = Enter("ACTIVE")
  /\ Finish(p)
  /\ UNCHANGED <<rows, applied, commits, candidate, released>>

-----------------------------------------------------------------------------
(* reopen, close, and the commands that use a verified candidate.          *)

Says(p, phase) ==
  /\ view' = Enter(phase)
  /\ UNCHANGED <<rows, applied, commits, candidate, lease, pc, loc, released>>

Reopen(p) == Begins(p) /\ view.phase = "VERIFIED" /\ Says(p, "ACTIVE")

Close(p) ==
  /\ Begins(p) /\ view.phase # "CLOSED" /\ NoActiveRun
  /\ Says(p, "CLOSED")

StillVerified == tree = view.patch /\ head = view.head

\* prepare_promotion and integrate_candidate reopen a candidate that changed.
CandidateChanged(p) ==
  /\ Begins(p) /\ view.phase = "VERIFIED"
  /\ ~ StillVerified
  /\ Says(p, "ACTIVE")

FullPassed == {i \in DOMAIN checks : checks[i].mode = "full" /\ checks[i].status = "PASSED"}

Releasable ==
  /\ view.phase = "VERIFIED" /\ StillVerified
  /\ FullPassed # {}
  /\ LET c == checks[Latest(FullPassed)] IN c.head = head /\ c.patch = tree

PreparePromotion(p) ==
  /\ Begins(p) /\ Releasable
  /\ tree = head
  /\ released' = released \cup {[head |-> head, patch |-> tree]}
  /\ UNCHANGED <<rows, events, candidate, lease, pc, loc>>

IntegrateCandidate(p) ==
  /\ Begins(p) /\ Releasable /\ NoActiveRun
  /\ tree = head
  /\ Begin(p, "integrate", [Idle EXCEPT !.patch = head])
  /\ UNCHANGED <<rows, events, candidate, released>>

\* The line takes the candidate if it is still the one that was checked.
Integrated(p) ==
  /\ pc[p] = "integrate"
  /\ IF StillVerified
     THEN /\ released' = released \cup {[head |-> loc[p].patch, patch |-> loc[p].patch]}
          /\ view' = Enter("CLOSED")
     ELSE UNCHANGED <<released, view>>
  /\ Finish(p)
  /\ UNCHANGED <<rows, applied, commits, candidate>>

IntegrationFails(p) ==
  /\ pc[p] = "integrate"
  /\ Finish(p)
  /\ UNCHANGED <<rows, events, candidate, released>>

-----------------------------------------------------------------------------
(* Faults.                                                                 *)

\* Someone else changes a file of the candidate.
Edit ==
  /\ "edit" \in regime.faults
  /\ view.phase \in {"ACTIVE", "VERIFIED"}
  /\ tree' = Foreign
  /\ UNCHANGED <<rows, events, head, lease, pc, loc, released>>

Writing == {"announce", "apply", "applied", "complete"}

\* A transaction raises: start_writer handles it, any other command ends.
Raises(p) ==
  /\ "store" \in regime.faults /\ pc[p] \notin {"idle", "backend", "compare", "fail_lease"}
  /\ IF pc[p] \in Writing THEN WriterRaises(p) ELSE Finish(p)
  /\ UNCHANGED <<rows, events, candidate, released>>

Crash(p) ==
  /\ "crash" \in regime.faults /\ pc[p] # "idle"
  /\ Goto(p, "idle")
  /\ loc' = [loc EXCEPT ![p] = Idle]
  /\ lease' = IF lease = p THEN Ghost ELSE lease
  /\ UNCHANGED <<rows, events, candidate, released>>

\* request_lease compares timestamps only, and no command renews its lease:
\* one that runs longer than the timeout goes on without it.
LeaseExpires ==
  /\ "theft" \in regime.faults /\ lease \in Procs
  /\ lease' = Ghost
  /\ UNCHANGED <<rows, events, candidate, pc, loc, released>>

WriterStep(p) ==
  \/ WriterStarted(p) \/ BackendReturns(p) \/ BackendRaises(p)
  \/ Compare(p) \/ StagingRejected(p)
  \/ \E changes \in BOOLEAN : Apply(p, changes)
  \/ ApplyFails(p)
  \/ WriterApplied(p) \/ WriterCompleted(p)
  \/ FailLease(p) \/ Fail(p) \/ WriterFailed(p)

CheckStep(p) ==
  \/ CheckStarted(p)
  \/ \E outcome \in {"pass", "retry_writer", "no_retry"} : RunChecks(p, outcome)
  \/ CheckSaved(p) \/ CheckEnded(p) \/ Conclude(p)

OtherStep(p) ==
  \/ Activate(p) \/ WriterCancelled(p)
  \/ GitCommit(p) \/ CandidateCommitted(p)
  \/ ScopeProposed(p) \/ ApproveRevision(p) \/ ScopeApproved(p) \/ ScopeReopens(p)
  \/ Integrated(p) \/ IntegrationFails(p)

Command(p) ==
  \/ Start(p) \/ StartWriter(p) \/ CancelWriter(p) \/ CommitCandidate(p)
  \/ \E mode \in {"fast", "full"} : Verify(p, mode)
  \/ RequestScopeChange(p) \/ ActivateRevision(p)
  \/ Reopen(p) \/ Close(p)
  \/ CandidateChanged(p) \/ PreparePromotion(p) \/ IntegrateCandidate(p)

Step(p) == (WriterStep(p) \/ CheckStep(p) \/ OtherStep(p)) /\ UNCHANGED regime

Next ==
  /\ \/ \E p \in Procs : Command(p) \/ Step(p) \/ Raises(p) \/ Crash(p)
     \/ Edit
     \/ LeaseExpires
  /\ UNCHANGED regime

Spec == Init /\ [][Next]_vars

\* A command that started goes on; nobody owes the request a new one.
FairSpec == Spec /\ \A p \in Procs : WF_vars(Step(p))

-----------------------------------------------------------------------------
(* Properties.                                                             *)

\* Nothing interrupts a command / nobody takes over the lease of a live one.
NoFaults      == regime.faults \subseteq {"edit"}
LeasesHold    == "theft" \notin regime.faults

Contents == (0 .. MaxAttempts) \cup {Foreign}
Phases   == {"REQUESTED", "ACTIVE", "VERIFIED", "CLOSED"}

Labels == Writing \cup
  {"idle", "activate", "backend", "compare", "fail_lease", "fail", "fail_event",
   "cancel_event", "git_commit", "commit_event", "check_event", "check",
   "check_save", "check_done", "accept", "authority", "approve", "scope_event",
   "scope_reopen", "integrate"}

\* The projection names rows that exist, and every row has its type.
TypeOK ==
  /\ runs \in Seq([status : {"RUNNING", "COMPLETED", "FAILED", "CANCELLED"},
                   before : Contents, after : Contents])
  /\ Len(runs) <= MaxAttempts
  /\ checks \in Seq([status : {"RUNNING", "PASSED", "FAILED"},
                     mode : {"fast", "full"}, head : Contents,
                     patch : Contents, scope : 1 .. regime.scopes])
  /\ view \in [phase : Phases, writer : 0 .. Len(runs), check : 0 .. Len(checks),
               patch : Contents, head : Contents, scope : 1 .. regime.scopes,
               broken : BOOLEAN]
  /\ applied \subseteq DOMAIN runs
  /\ commits \subseteq [head : Contents, patch : Contents, run : DOMAIN runs]
  /\ scope \in [approved : 1 .. regime.scopes, pending : BOOLEAN]
  /\ feedback \in {"none", "retry_writer", "no_retry"}
  /\ tree \in Contents /\ head \in Contents
  /\ lease \in Procs \cup {Nobody, Ghost}
  /\ pc \in [Procs -> Labels]
  /\ loc \in [Procs -> [run : 0 .. MaxAttempts, check : 0 .. regime.checks,
                        patch : Contents, version : 0 .. regime.scopes,
                        phase : Phases \cup {"none"},
                        outcome : {"none", "pass", "rejected",
                                   "retry_writer", "no_retry"}]]
  /\ released \subseteq [head : Contents, patch : Contents]

\* No order of commands, cancellations and crashes appends an event that the
\* projection refuses: the phase of the request stays readable.  (With stolen
\* leases it does not: a check accepted after another command has closed the
\* request makes every later projection raise.)
EventsProject == LeasesHold => ~ view.broken

\* A live Writer command whose run was not cancelled is the active run of
\* the projection, so that no second Writer, commit, check or close can slip
\* in while its backend runs without the lease.
WriterIsActive ==
  NoFaults => \A p \in Procs :
    /\ pc[p] \in {"backend", "compare", "apply", "applied", "complete"}
    /\ ~ Cancelled(p)
    => view.writer = loc[p].run

\* A cancelled run stays cancelled and is never applied, however late its
\* backend answers.
CancelledStaysOut ==
  [][\A i \in DOMAIN runs : LeasesHold /\ runs[i].status = "CANCELLED" =>
       /\ runs'[i] = runs[i]
       /\ i \in applied' => i \in applied]_vars

\* The completed runs are one history: each starts from what the one before
\* left, whatever failed, was cancelled or edited in between.
RunsAreOneHistory ==
  NoFaults => \A i \in Completed : runs[i].before = Left(Before(i))

\* A verified candidate is what the last WriterRun made, committed by the
\* service, and passed a full check as it is.  The run need not be COMPLETED:
\* a failing transaction after the row can mark it FAILED later.  With five
\* attempts and failing transactions a Writer that is no longer the active run
\* may still apply its files to a VERIFIED request: writer_applied and
\* patch_observed then take the commit from the projection (head is the base,
\* 0), and nothing can be released from it.
VerifiedIsTheWriters ==
  LeasesHold /\ view.phase = "VERIFIED" /\ view.head # 0 =>
    /\ runs # << >>
    /\ runs[Len(runs)].after = view.patch
    /\ [head |-> view.head, patch |-> view.patch, run |-> Len(runs)] \in commits
    /\ \E i \in FullPassed : checks[i].head = view.head /\ checks[i].patch = view.patch

\* What a promotion or an integration takes passed a full check and was
\* committed by the service, also when the worktree was edited later and when
\* leases are stolen.
ReleasedWasChecked ==
  \A x \in released :
    /\ \E c \in commits : c.head = x.head /\ c.patch = x.patch
    /\ \E i \in FullPassed : checks[i].head = x.head /\ checks[i].patch = x.patch

\* "A changed ... scope version ... makes previous verification ... stale"
\* (operator-governance-policy.md): a verified request, unless a command is
\* just changing its scope, was verified under the scope in effect.  A crash
\* between the approval of the scope and the reopening breaks this.
VerifiedUnderScope ==
  /\ NoFaults /\ view.phase = "VERIFIED"
  /\ \A p \in Procs : pc[p] \notin {"scope_event", "scope_reopen"}
  => FullPassed # {} /\ checks[Latest(FullPassed)].scope = scope.approved

\* An active run is still being worked on, or it can be cancelled: only a
\* crash or a failing transaction can leave the request with a run that no
\* command ends; a stolen lease cannot.
ActiveRunCanEnd ==
  regime.faults \cap {"crash", "store"} = {} =>
  /\ view.writer # 0 =>
       \/ runs[view.writer].status = "RUNNING"
       \/ \E p \in Procs : pc[p] \in {"applied", "complete", "fail_event", "cancel_event",
                                      "fail_lease", "fail"}
  /\ view.check # 0 => \E p \in Procs : loc[p].check = view.check

\* The event log and its projection stay sound: the log is readable, what lives
\* is the active run, and the active run can end.
ProjectionIsSound == EventsProject /\ WriterIsActive /\ ActiveRunCanEnd

\* A VERIFIED request stands on one history of Writer runs whose last result was
\* committed and passed a full check, under the scope in effect.
VerifiedStands == RunsAreOneHistory /\ VerifiedIsTheWriters /\ VerifiedUnderScope

\* "A deterministic test failure leaves Request ACTIVE, writes CheckRun,
\* GateSnapshot, raw logs, and FeedbackPacket, then permits a bounded retry"
\* (operator-governance-policy.md): when the feedback allows a retry and
\* attempts are left, a Writer can be started.
RetryIsPermitted ==
  /\ feedback = "retry_writer" /\ view.phase = "ACTIVE" /\ NoActiveRun
  /\ lease = Nobody /\ Len(runs) < MaxAttempts
  => AdmissionChain /\ head = 0

\* Every check that starts ends.
ChecksEnd == NoFaults /\ view.check # 0 ~> view.check = 0
=============================================================================
