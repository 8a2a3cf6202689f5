-------------------------- MODULE OperatorScheduler --------------------------
(***************************************************************************)
(* How a request is driven: advance of operator/service.py, which reads    *)
(* the records without a lease, chooses one command and runs it, and the   *)
(* calls of the operator's roles that these commands make.                 *)
(*                                                                         *)
(* The commands are those of RequestLifecycle, in one step each because    *)
(* they hold the request lease.  The Writer's backend runs without it, and *)
(* no lease keeps an edit out: the semantic review of a full check, which  *)
(* reads the worktree after the check has looked at it for the last time,  *)
(* is a step of its own.  A patch is the number of the run that made it, 0 *)
(* for none and Foreign for a direct edit.  Outcomes of tests, comparisons *)
(* and reviews are free.                                                   *)
(***************************************************************************)
EXTENDS Naturals, Sequences

CONSTANTS Drivers,         \* processes that drive the request
          MaxAttempts,     \* operator.retry.max_attempts
          MaxAutoRetries,  \* operator.retry.max_auto_retries
          MaxCalls,        \* calls of the frozen grant
          MaxChecks,       \* bound on the checks
          Regimes          \* sets of "two", "human", "crash"

VARIABLES oregime,
          needs,           \* whether the request has a performance baseline
          ophase,
          runs, writer,    \* WriterRuns, and the one that is active
          checks,          \* CheckRuns, oldest first
          feedback,        \* what the last FeedbackPacket allows
          patch, head,     \* of the candidate; head is 0 before the commit
          experiment,      \* of this commit: "none", "FAILED", "COMPLETED"
          ocalls,          \* role calls that the grant has left
          reviewing,       \* patch of the full check that waits for its review
          opc              \* the command that a driver has chosen

records   == <<runs, writer, checks, feedback>>
candidate == <<patch, head, experiment>>
osvars == <<oregime, needs, ophase, records, candidate, ocalls, reviewing, opc>>

Foreign == MaxAttempts + 1

Driving == IF "two" \in oregime THEN Drivers ELSE {CHOOSE d \in Drivers : TRUE}

Init ==
  /\ oregime \in Regimes /\ needs \in BOOLEAN /\ ocalls \in {1, MaxCalls}
  /\ ophase = "REQUESTED"
  /\ runs = << >> /\ writer = 0 /\ checks = << >> /\ feedback = "none"
  /\ patch = 0 /\ head = 0 /\ experiment = "none"
  /\ reviewing = 0 /\ opc = [d \in Drivers |-> "idle"]

Last(s) == s[Len(s)]
Range(s) == {s[i] : i \in DOMAIN s}

Newest(S) == CHOOSE i \in S : \A j \in S : j <= i

Finish(d) == opc' = [opc EXCEPT ![d] = "idle"]

-----------------------------------------------------------------------------
(* The decision.                                                           *)

Dirty == patch # head

\* Checks of what the last run made.
Matching == {i \in DOMAIN checks : checks[i].patch = Last(runs).patch}

Latest(status) == runs # << >> /\ Last(runs).status = status

Checked(status, mode) ==
  /\ Latest("COMPLETED") /\ Matching # {}
  /\ LET c == checks[Newest(Matching)] IN c.status = status /\ c.mode = mode

Failed == Latest("FAILED") \/ Latest("CANCELLED")

CheckFailed == Checked("FAILED", "fast") \/ Checked("FAILED", "full")

MayRetry ==
  /\ Failed \/ (CheckFailed /\ feedback = "retry_writer")
  /\ Len(runs) - 1 < MaxAutoRetries

AwaitsCommit == Checked("PASSED", "fast") /\ Dirty

Awaits(command) ==
  CASE command = "start"        -> ophase = "REQUESTED"
    [] command = "writer_start" -> runs = << >>
    [] command = "writer_retry" -> MayRetry
    [] command = "verify_fast"  -> Latest("COMPLETED") /\ Matching = {}
    [] command = "candidate_commit" -> AwaitsCommit
    [] command = "experiment_run" ->
         Checked("PASSED", "fast") /\ ~ Dirty /\ needs /\ experiment # "COMPLETED"
    [] command = "verify_full" ->
         Checked("PASSED", "fast") /\ ~ Dirty /\ (needs => experiment = "COMPLETED")

Commands == {"start", "writer_start", "writer_retry", "verify_fast",
             "candidate_commit", "experiment_run", "verify_full"}

\* require_no_active_run; of the checks only the one under review lasts.
NoActiveRun == writer = 0 /\ reviewing = 0

\* With an active run advance raises; with nothing due it is blocked.
Due(command) ==
  /\ Awaits(command)
  /\ command # "start" => ophase = "ACTIVE" /\ NoActiveRun

Advance(d) ==
  /\ opc[d] = "idle"
  /\ \E c \in Commands : Due(c) /\ opc' = [opc EXCEPT ![d] = c]
  /\ UNCHANGED <<oregime, needs, ophase, records, candidate, ocalls, reviewing>>

-----------------------------------------------------------------------------
(* The commands.                                                           *)

Completed == {i \in DOMAIN runs : runs[i].status = "COMPLETED"}
Left == IF Completed = {} THEN 0
        ELSE runs[Newest(Completed)].patch

AdmissionChain == patch = Left

Start(d) ==
  /\ opc[d] = "start" /\ ophase = "REQUESTED"
  /\ ophase' = "ACTIVE" /\ Finish(d)
  /\ UNCHANGED <<oregime, needs, records, candidate, ocalls, reviewing>>

MayWrite == /\ ophase = "ACTIVE" /\ NoActiveRun /\ Len(runs) < MaxAttempts
            /\ AdmissionChain /\ head = 0

StartWriter(d) ==
  /\ opc[d] \in {"writer_start", "writer_retry"} /\ MayWrite
  /\ runs' = Append(runs, [status |-> "RUNNING", patch |-> 0])
  /\ writer' = Len(runs) + 1
  /\ opc' = [opc EXCEPT ![d] = "backend"]
  /\ UNCHANGED <<oregime, needs, ophase, checks, feedback, candidate, ocalls, reviewing>>

\* _run_operator_role_backend: a call that the grant does not cover raises.
Calls == ocalls > 0 /\ ocalls' = ocalls - 1

\* The Writer made a patch of its own, or none at all.
WriterCompletes(d) ==
  /\ opc[d] = "backend" /\ writer # 0 /\ AdmissionChain /\ head = 0
  /\ Calls
  /\ patch' \in {patch, writer}
  /\ runs' = [runs EXCEPT ![writer] = [status |-> "COMPLETED", patch |-> patch']]
  /\ writer' = 0 /\ Finish(d)
  /\ UNCHANGED <<oregime, needs, ophase, checks, feedback, head, experiment, reviewing>>

\* FAILED or TIMED_OUT, which are not told apart; also without a call, and
\* when the candidate was edited meanwhile, which is put back.
WriterFails(d) ==
  /\ opc[d] = "backend" /\ writer # 0
  /\ ocalls' \in {ocalls, ocalls - 1} \cap Nat
  /\ runs' = [runs EXCEPT ![writer].status = "FAILED"]
  /\ writer' = 0 /\ feedback' = "retry_writer"
  /\ patch' \in {patch, Left} /\ head' = 0
  /\ Finish(d)
  /\ UNCHANGED <<oregime, needs, ophase, checks, experiment, reviewing>>

\* The backend of a run that was cancelled.
WriterReturns(d) ==
  /\ opc[d] = "backend" /\ writer = 0
  /\ Finish(d)
  /\ UNCHANGED <<oregime, needs, ophase, records, candidate, ocalls, reviewing>>

\* The CheckRun names the patch it was decided for, and its verdict; seen is
\* the patch that the verifier passed, 0 without a PASS of it.
Concludes(mode, status, decided, seen) ==
  checks' = Append(checks, [mode |-> mode, status |-> status, patch |-> decided,
                            seen |-> seen])

MayCheck == ophase = "ACTIVE" /\ NoActiveRun /\ Len(checks) < MaxChecks

Feeds == feedback' \in {"retry_writer", "other"}

FastCheck(d) ==
  /\ opc[d] = "verify_fast" /\ MayCheck
  /\ \/ /\ patch # 0 => AdmissionChain /\ Completed # {} /\ head = 0
        /\ Concludes("fast", "PASSED", patch, 0) /\ UNCHANGED feedback
     \/ Concludes("fast", "FAILED", patch, 0) /\ Feeds
  /\ Finish(d)
  /\ UNCHANGED <<oregime, needs, ophase, runs, writer, candidate, ocalls, reviewing>>

CommitCandidate(d) ==
  /\ opc[d] = "candidate_commit"
  /\ ophase = "ACTIVE" /\ NoActiveRun /\ head = 0 /\ patch # 0
  /\ AdmissionChain /\ Latest("COMPLETED")
  /\ head' = patch /\ experiment' = "none" /\ Finish(d)
  /\ UNCHANGED <<oregime, needs, ophase, records, patch, ocalls, reviewing>>

RunExperiment(d) ==
  /\ opc[d] = "experiment_run"
  /\ ophase \in {"ACTIVE", "VERIFIED"} /\ NoActiveRun /\ ~ Dirty
  /\ experiment' \in {"FAILED", "COMPLETED"} /\ Finish(d)
  /\ UNCHANGED <<oregime, needs, ophase, records, patch, head, ocalls, reviewing>>

\* Everything in a full check up to the review.
Deserves == /\ AdmissionChain /\ Latest("COMPLETED")
            /\ head # 0 /\ ~ Dirty
            /\ needs => experiment = "COMPLETED"

FullFails(d) ==
  /\ opc[d] = "verify_full" /\ MayCheck
  /\ Concludes("full", "FAILED", patch, 0) /\ Feeds
  /\ Finish(d)
  /\ UNCHANGED <<oregime, needs, ophase, runs, writer, candidate, ocalls, reviewing>>

\* The last look at the candidate; the diff is read from the worktree later.
ReviewBegins(d) ==
  /\ opc[d] = "verify_full" /\ MayCheck /\ Deserves
  /\ reviewing' = patch
  /\ opc' = [opc EXCEPT ![d] = "review"]
  /\ UNCHANGED <<oregime, needs, ophase, records, candidate, ocalls>>

UnderReview(d) == opc[d] = "review" /\ reviewing' = 0 /\ Finish(d)

\* (mutated) a review that could not be made is left out
ReviewRaises_Open(d) ==
  /\ UnderReview(d)
  /\ ocalls' \in {ocalls, ocalls - 1} \cap Nat
  /\ ophase' = "VERIFIED" /\ Concludes("full", "PASSED", reviewing, 0)
  /\ UNCHANGED <<oregime, needs, feedback, runs, writer, candidate>>

\* No call left, or no decision in the answer: the check fails closed.
ReviewRaises(d) ==
  /\ UnderReview(d)
  /\ ocalls' \in {ocalls, ocalls - 1} \cap Nat
  /\ Concludes("full", "FAILED", reviewing, 0) /\ feedback' = "other"
  /\ UNCHANGED <<oregime, needs, ophase, runs, writer, candidate>>

\* The verifier is shown the patch of the check, or what an edit has made of
\* the worktree since; the verdict is recorded for the patch of the check.
Review(d, passed) ==
  /\ UnderReview(d) /\ Calls
  /\ IF passed
     THEN /\ \E seen \in {reviewing, patch} : Concludes("full", "PASSED", reviewing, seen)
          /\ ophase' = "VERIFIED" /\ UNCHANGED feedback
     ELSE /\ Concludes("full", "FAILED", reviewing, 0) /\ feedback' = "other"
          /\ UNCHANGED ophase
  /\ UNCHANGED <<oregime, needs, runs, writer, candidate>>

\* A command whose own guard no longer holds raises.
Refused(d) ==
  CASE opc[d] = "start"        -> ophase # "REQUESTED"
    [] opc[d] \in {"writer_start", "writer_retry"} -> ~ MayWrite
    [] opc[d] \in {"verify_fast", "verify_full"} -> ~ MayCheck
    [] opc[d] = "candidate_commit" ->
         ~ (/\ ophase = "ACTIVE" /\ NoActiveRun /\ head = 0 /\ patch # 0
            /\ AdmissionChain /\ Latest("COMPLETED"))
    [] opc[d] = "experiment_run" ->
         Dirty \/ ~ NoActiveRun \/ ophase \notin {"ACTIVE", "VERIFIED"}
    [] OTHER -> FALSE

Raises(d) ==
  /\ Refused(d) /\ Finish(d)
  /\ UNCHANGED <<oregime, needs, ophase, records, candidate, ocalls, reviewing>>

-----------------------------------------------------------------------------
(* Other commands and mishaps.                                             *)

\* run_supervisor: a diagnosis, which changes nothing but the budget.
Supervise ==
  /\ "human" \in oregime /\ NoActiveRun /\ Calls
  /\ UNCHANGED <<oregime, needs, ophase, records, candidate, reviewing, opc>>

\* (mutated) the run is cancelled but stays the active one
CancelWriter_StaysActive ==
  /\ oregime # {} /\ ophase = "ACTIVE" /\ writer # 0
  /\ runs' = [runs EXCEPT ![writer].status = "CANCELLED"]
  /\ UNCHANGED <<oregime, needs, ophase, writer, checks, feedback, candidate,
                 ocalls, reviewing, opc>>

CancelWriter ==
  /\ oregime # {} /\ ophase = "ACTIVE" /\ writer # 0
  /\ runs' = [runs EXCEPT ![writer].status = "CANCELLED"] /\ writer' = 0
  /\ UNCHANGED <<oregime, needs, ophase, checks, feedback, candidate, ocalls,
                 reviewing, opc>>

Edit ==
  /\ "human" \in oregime /\ ophase # "REQUESTED"
  /\ patch' = Foreign
  /\ UNCHANGED <<oregime, needs, ophase, records, head, experiment, ocalls,
                 reviewing, opc>>

Reopen ==
  /\ "human" \in oregime /\ ophase = "VERIFIED"
  /\ ophase' = "ACTIVE"
  /\ UNCHANGED <<oregime, needs, records, candidate, ocalls, reviewing, opc>>

Close ==
  /\ "human" \in oregime /\ ophase # "CLOSED" /\ NoActiveRun
  /\ ophase' = "CLOSED"
  /\ UNCHANGED <<oregime, needs, records, candidate, ocalls, reviewing, opc>>

\* The driver dies while the Writer or the verifier works: the WriterRun or
\* the CheckRun stays active.
Dies(d) ==
  /\ "crash" \in oregime
  /\ opc[d] = "review" \/ (opc[d] = "backend" /\ writer # 0)
  /\ Finish(d)
  /\ UNCHANGED <<oregime, needs, ophase, records, candidate, ocalls, reviewing>>

Perform(d) ==
  \/ Start(d) \/ StartWriter(d) \/ WriterCompletes(d) \/ WriterReturns(d)
  \/ WriterFails(d)
  \/ FastCheck(d) \/ CommitCandidate(d) \/ RunExperiment(d)
  \/ FullFails(d) \/ ReviewBegins(d) \/ ReviewRaises(d) \/ Raises(d)
  \/ \E passed \in BOOLEAN : Review(d, passed)

Human == Supervise \/ CancelWriter \/ Edit \/ Reopen \/ Close

Next == \/ \E d \in Driving : Advance(d) \/ Perform(d) \/ Dies(d)
        \/ Human

\* Somebody calls advance again and again, and commands come to their end.
Fair == \E d \in Driving : Advance(d) \/ Perform(d)

Spec == Init /\ [][Next]_osvars /\ WF_osvars(Fair)

-----------------------------------------------------------------------------
Alone == oregime \subseteq {"crash"}

(* Every value stays in its type; the type invariant of the module.        *)
TypeOK ==
  /\ ophase \in {"REQUESTED", "ACTIVE", "VERIFIED", "CLOSED"}
  /\ writer \in 0 .. Len(runs) /\ Len(runs) <= MaxAttempts
  /\ \A r \in Range(runs) :
       r.status \in {"RUNNING", "COMPLETED", "FAILED", "CANCELLED"}
  /\ writer # 0 => runs[writer].status = "RUNNING"
  /\ patch \in 0 .. Foreign /\ head \in 0 .. MaxAttempts
  /\ ocalls \in 0 .. MaxCalls /\ reviewing \in 0 .. MaxAttempts
  /\ \A c \in Range(checks) : c.seen \in 0 .. Foreign
  /\ Alone => Len(checks) < MaxChecks
  /\ \A d \in Drivers : opc[d] \in Commands \cup {"idle", "backend", "review"}

(* Whatever fails, a request that is only driven by advance has no more    *)
(* runs than the automatic retries allow; they are fewer than the attempts *)
(* (advance).                                                              *)
AutoRetriesAreBounded == Alone => Len(runs) <= MaxAutoRetries + 1

(* What one driver commits had passed a fast check after the run that made *)
(* it; two drivers, which decide before they take the lease, do not promise*)
(* this (advance, commit_candidate).                                       *)
CommittedWasChecked ==
  Alone /\ head # 0 =>
    \E c \in Range(checks) : c.mode = "fast" /\ c.status = "PASSED" /\ c.patch = head

Passes == {c \in Range(checks) : c.mode = "full" /\ c.status = "PASSED"}

(* No full check passes without a PASS of the semantic verifier that was   *)
(* given in that very check: a call that the budget refuses, or an answer  *)
(* without a decision, fails closed.  The patch that is recorded as passed *)
(* is one a Writer made, and the verifier saw that patch, or what a person *)
(* made of it in the worktree after the check had looked at it for the     *)
(* last time; where nobody edits the worktree, it saw that patch.  That    *)
(* the verdict is bound to the digest of the patch, as the PRD of the      *)
(* governance has it, holds of the record only (_semantic_review, verify). *)
PassedWasReviewed ==
  \A c \in Passes :
    /\ c.patch \in 1 .. Len(runs) /\ c.seen \in {c.patch, Foreign}
    /\ "human" \notin oregime => c.seen = c.patch

(* Under one driver a request comes to rest: it is VERIFIED or needs a     *)
(* hand, or the retry that is due is refused for ever; only an experiment  *)
(* that keeps failing is run again and again (advance).                    *)
RequestSettles ==
  LET Settled == \/ ophase = "VERIFIED" \/ ~ NoActiveRun
                 \/ \A c \in Commands : ~ Due(c)
                 \/ Due("writer_retry") /\ ~ MayWrite
  IN Alone => <>[] Settled \/ <>[] Awaits("experiment_run")
=============================================================================
