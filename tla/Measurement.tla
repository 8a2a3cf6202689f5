----------------------------- MODULE Measurement -----------------------------
(***************************************************************************)
(* Baselines and experiments of the Operator loop (operator/metrics.py and *)
(* capture_baseline, run_experiment and the metric commands of             *)
(* operator/service.py).                                                   *)
(*                                                                         *)
(* A baseline is measured on the trusted branch, becomes a file, and       *)
(* counts for a request once somebody committed it below the request's     *)
(* base.  Experiments measure the candidate in worktrees of their own      *)
(* while somebody may edit it, their lease may be taken and they may die.  *)
(* Verification chooses the last completed one, compares it with the       *)
(* baseline and accepts the candidate after a review that takes minutes;   *)
(* the study metrics of an experiment line are derived from the same rows. *)
(*                                                                         *)
(* A command of a profile passes or fails; what a run of all of them       *)
(* observed is one of Outcomes, by the count of commands that passed.      *)
(* Commit numbers stand for SHAs, code versions for the behaviour of a     *)
(* commit; the trusted branch is linear.                                   *)
(***************************************************************************)
EXTENDS Integers, Sequences

CONSTANTS Setups,       \* profile, command contract and inputs of a run
          Outcomes,     \* what a run of the commands may observe
          Commands,     \* number of commands of a profile
          Rules,        \* the constitution's rule for each metric
          Codes,        \* versions of the code of the trusted branch
          MaxCommits, MaxRuns, MaxHead,   \* bounds
          Unset, NoBaseline, NoMetric

VARIABLES history,      \* commits of the trusted branch: [code, baseline]
          contract,     \* command contract of the project configuration
          file,         \* the baseline file in the control checkout
          base, stage,  \* base commit and phase of the request and its study
          cand,         \* the candidate: [head, edits]
          exps,         \* rows of experiments, by created_at
          live,         \* rows whose command is running
          holder,       \* request lease: [row, stale]
          checking,     \* the active full check after it read the rows:
                        \* [head, row, running]
          verified,     \* what verify accepted: [head, row], 0 if nothing
          admitted,     \* what the pull request check measured and accepted
          h0, metric    \* the registered study metrics

repo  == <<history, contract, file>>
study == <<base, h0, metric>>
mvars == <<repo, study, stage, cand, exps, live, holder, checking, verified, admitted>>

Free    == [row |-> 0, stale |-> FALSE]
Nothing == [head |-> 0, row |-> 0]

\* require_no_active_run: no full check is under way.
NoCheck  == [head |-> 0, row |-> 0, running |-> {}]
Unwatched == checking = NoCheck

\* The lease of a check, which is no lease of an experiment.
OfTheCheck == -1

Init ==
  /\ history = <<[code |-> 1, baseline |-> NoBaseline]>>
  /\ contract \in {s.contract : s \in Setups}
  /\ file = NoBaseline
  /\ base = 0 /\ stage = "NONE" /\ cand = [head |-> 0, edits |-> 0]
  /\ exps = << >> /\ live = {} /\ holder = Free /\ checking = NoCheck
  /\ verified = Nothing /\ admitted = Unset /\ h0 = NoBaseline /\ metric = NoMetric

Configured == {s \in Setups : s.contract = contract}

-----------------------------------------------------------------------------
(* Metrics of a run and their comparison with a baseline.                  *)

Metrics(o) == [pass_rate |-> o.passes,
               artifact_completeness |-> Commands - o.lost,
               runtime_seconds |-> o.time]

Regression(rule, old, new) ==
  IF rule.better = "higher" THEN old - new ELSE new - old

Magnitude(n) == IF n < 0 THEN -n ELSE n

Holds(rule, old, new) ==
  /\ rule.absolute # Unset => Regression(rule, old, new) <= rule.absolute
  /\ rule.minimum # Unset => new >= rule.minimum
  /\ rule.maximum # Unset => new <= rule.maximum
  /\ rule.percent # Unset /\ old # 0 /\ Magnitude(old) >= rule.from =>
       100 * Regression(rule, old, new) <= rule.percent * Magnitude(old)

\* compare_baseline; every metric of the receipt has a rule.
NoWorse(old, new) ==
  /\ DOMAIN Metrics(new) \subseteq DOMAIN Rules
  /\ \A m \in DOMAIN Metrics(new) :
       Holds(Rules[m], Metrics(old)[m], Metrics(new)[m])

\* What capture_baseline accepts from the commands of a profile.
Measured(mode, o) ==
  /\ mode = "strict" => o.passes = Commands
  /\ mode = "measure" => ~ o.harness /\ o.lost = 0

-----------------------------------------------------------------------------
(* The control checkout.                                                   *)

Tip == Len(history)

\* Somebody commits: the code may change, the baseline file may go along.
CommitTrusted(code, with) ==
  /\ Tip < MaxCommits
  /\ history' = Append(history,
       [code |-> code,
        baseline |-> IF with THEN file ELSE history[Tip].baseline])
  /\ with => file # NoBaseline
  /\ UNCHANGED <<contract, file, study, stage, cand, exps, live, holder, checking, verified, admitted>>

Reconfigure(c) ==
  /\ contract' = c
  /\ UNCHANGED <<history, file, study, stage, cand, exps, live, holder, checking, verified, admitted>>

\* The commands run in a detached worktree of the trusted head, so commits
\* that arrive meanwhile do not matter; the file is opened exclusively.
CaptureBaseline(s, o) ==
  /\ s \in Configured /\ Measured(s.mode, o)
  /\ file = NoBaseline
  /\ file' = [at |-> Tip, setup |-> s, seen |-> o]
  /\ UNCHANGED <<history, contract, study, stage, cand, exps, live, holder, checking,
                 verified, admitted>>

\* (mutated) a baseline stays good whatever was committed after it
Fresh_Anyway(i) == history[i].baseline # NoBaseline

\* baseline_for_request: committed in commit i, and nothing but baselines
\* changed between the measured commit and i.
Fresh(i) ==
  /\ history[i].baseline # NoBaseline
  /\ history[i].baseline.at <= i
  /\ history[history[i].baseline.at].code = history[i].code

Baseline == history[base].baseline

-----------------------------------------------------------------------------
(* The study and the request.                                              *)

OpenStudy(i) ==
  /\ stage = "NONE" /\ i \in 1 .. Tip
  /\ stage' = "STUDY" /\ base' = i
  /\ UNCHANGED <<repo, cand, exps, live, holder, checking, verified, h0, metric, admitted>>

\* record_observed_baseline_metric, before the line is initialized.
RecordObservedBaseline ==
  /\ stage = "STUDY" /\ h0 = NoBaseline
  /\ Fresh(base)
  /\ h0' = Baseline
  /\ UNCHANGED <<repo, base, metric, stage, cand, exps, live, holder, checking, verified, admitted>>

\* The part of preflight that is about the baseline.
Preflight == Fresh(base) /\ Baseline.setup.contract = contract

Row(status, s, o) ==
  [status |-> status, head |-> cand.head, setup |-> s, seen |-> o]

\* start: the first one leaves a CREATED row behind.
Start ==
  /\ stage = "STUDY"
  /\ Preflight
  /\ stage' = "ACTIVE"
  /\ exps' = <<Row("CREATED", Baseline.setup, Unset)>>
  /\ UNCHANGED <<repo, study, cand, live, holder, checking, verified, admitted>>

Available == holder.row = 0 \/ holder.stale

Edit ==
  /\ stage \in {"ACTIVE", "VERIFIED"} /\ cand.head < MaxHead
  /\ cand' = [cand EXCEPT !.edits = 1 - @]
  /\ UNCHANGED <<repo, study, stage, exps, live, holder, checking, verified, admitted>>

CommitCandidate ==
  /\ stage = "ACTIVE" /\ cand.edits = 1 /\ Available /\ Unwatched
  /\ cand' = [head |-> cand.head + 1, edits |-> 0]
  /\ holder' = Free
  /\ UNCHANGED <<repo, study, stage, exps, live, checking, verified, admitted>>

-----------------------------------------------------------------------------
(* run_experiment: under the request lease, from a clean candidate.        *)

\* (mutated) the lease alone keeps an experiment away from a check
MayMeasure_ByLease == Available

MayMeasure == Available /\ Unwatched

ExperimentBegins(s) ==
  /\ stage \in {"ACTIVE", "VERIFIED"} /\ MayMeasure
  /\ Len(exps) < MaxRuns + 1
  /\ cand.head > 0 /\ cand.edits = 0
  /\ s \in Configured
  /\ exps' = Append(exps, Row("RUNNING", s, Unset))
  /\ live' = live \cup {Len(exps) + 1}
  /\ holder' = [row |-> Len(exps) + 1, stale |-> FALSE]
  /\ UNCHANGED <<repo, study, stage, cand, checking, verified, admitted>>

\* The candidate is still what the command found, worktree included.
Undisturbed(i) == cand.head = exps[i].head /\ cand.edits = 0

Ends(i, status, o) ==
  /\ i \in live
  /\ exps' = [exps EXCEPT ![i] =
       [@ EXCEPT !.status = status, !.seen = o]]
  /\ live' = live \ {i}
  /\ holder' = IF holder.row = i THEN Free ELSE holder
  /\ UNCHANGED <<repo, study, stage, cand, checking, verified, admitted>>

\* A run whose commands fail completes as well; passed says that they did.
ExperimentCompletes(i, o) == i \in live /\ Undisturbed(i) /\ Ends(i, "COMPLETED", o)

\* The candidate changed, or the sandbox, an artifact or Git raised.
ExperimentFails(i) == Ends(i, "FAILED", Unset)

\* The process dies: its row stays RUNNING, its lease until it times out.
ExperimentDies(i) ==
  /\ i \in live
  /\ live' = live \ {i}
  /\ UNCHANGED <<repo, study, stage, cand, exps, holder, checking, verified, admitted>>

LeaseTimesOut ==
  /\ holder.row # 0 /\ ~ holder.stale
  /\ holder' = [holder EXCEPT !.stale = TRUE]
  /\ UNCHANGED <<repo, study, stage, cand, exps, live, checking, verified, admitted>>

-----------------------------------------------------------------------------
(* What the rows are used for.                                             *)

\* Completed for the current candidate with the baseline's profile and inputs.
Matches(e) ==
  /\ e.status = "COMPLETED" /\ e.head = cand.head
  /\ e.setup.profile = Baseline.setup.profile
  /\ e.setup.inputs = Baseline.setup.inputs

LastOf(S) == CHOOSE i \in S : \A j \in S : j <= i

\* The regression part of verify, and compare_experiment_baseline.
Regresses(i) ==
  \/ exps[i].setup.contract # Baseline.setup.contract
  \/ ~ NoWorse(Baseline.seen, exps[i].seen)

Matching == {i \in DOMAIN exps : Matches(exps[i])}

\* A full check of a committed candidate: its profiles have passed, it looks
\* at the candidate for the last time and chooses the row that decides.
\* The steps before this one are part of it: the lease and the active check
\* keep commands out, and edits and experiments that end do not mind them.
VerifyReads ==
  /\ stage = "ACTIVE" /\ Available /\ Unwatched
  /\ cand.head > 0 /\ cand.edits = 0
  /\ Fresh(base)
  /\ Matching # {} /\ ~ Regresses(LastOf(Matching))
  /\ checking' = [head |-> cand.head, row |-> LastOf(Matching), running |-> live]
  /\ holder' = [row |-> OfTheCheck, stale |-> FALSE]
  /\ UNCHANGED <<repo, study, stage, cand, exps, live, verified, admitted>>

VerifyEnds ==
  /\ ~ Unwatched
  /\ checking' = NoCheck
  /\ holder' = IF holder.row = OfTheCheck THEN Free ELSE holder
  /\ UNCHANGED <<repo, study, cand, exps, live, admitted>>

\* After the diff, the artifacts and the semantic review it accepts what it
\* had read: check_passed, which is its verdict and ends it, and in the same
\* step verification_accepted (RequestLifecycle has the two apart).
VerifyAccepts ==
  /\ VerifyEnds
  /\ verified' = [head |-> checking.head, row |-> checking.row]
  /\ stage' = "VERIFIED"

\* The review found something or could not be made.  A check whose process
\* died ends neither way and stays the active one.
VerifyFails == VerifyEnds /\ UNCHANGED <<stage, verified>>

\* validate_bundle and validate_operator_request: a run of their own on the
\* committed candidate, with the profile that the baseline carries along.
Admit(o) ==
  /\ stage = "VERIFIED" /\ admitted = Unset
  /\ Fresh(base) /\ NoWorse(Baseline.seen, o)
  /\ admitted' = o
  /\ UNCHANGED <<repo, study, stage, cand, exps, live, holder, checking, verified>>

\* integrate_candidate refuses an edited worktree; commit_candidate, and with
\* it the head, waits until the request is reopened.
Integrate ==
  /\ stage = "VERIFIED" /\ Available
  /\ cand.edits = 0
  /\ stage' = "INTEGRATED" /\ holder' = Free
  /\ UNCHANGED <<repo, study, cand, exps, live, checking, verified, admitted>>

Reopen ==
  /\ stage = "VERIFIED" /\ Available
  /\ stage' = "ACTIVE" /\ holder' = Free
  /\ UNCHANGED <<repo, study, cand, exps, live, checking, verified, admitted>>

Earns(e) ==
  /\ e.status = "COMPLETED" /\ e.seen.passes = Commands
  /\ e.head = verified.head

\* record_observed_candidate_metric: any profile; the success contract asks
\* for all commands, numeric rules and a protected ref that did not move.
RecordObservedCandidate ==
  LET earned == {i \in DOMAIN exps : Earns(exps[i])} IN
  /\ stage = "INTEGRATED" /\ metric = NoMetric
  /\ earned # {}
  /\ exps[LastOf(earned)].seen.lost = 0
  /\ Tip = base
  /\ metric' = [head |-> verified.head, row |-> LastOf(earned)]
  /\ UNCHANGED <<repo, base, h0, stage, cand, exps, live, holder, checking, verified, admitted>>

Control == \/ \E c \in Codes, with \in BOOLEAN : CommitTrusted(c, with)
           \/ \E c \in {s.contract : s \in Setups} : Reconfigure(c)
           \/ \E s \in Setups, o \in Outcomes : CaptureBaseline(s, o)

Experiment == \/ \E s \in Setups : ExperimentBegins(s)
              \/ \E i \in live : \/ \E o \in Outcomes : ExperimentCompletes(i, o)
                                 \/ ExperimentFails(i) \/ ExperimentDies(i)
              \/ LeaseTimesOut

Request == \/ \E i \in 1 .. Tip : OpenStudy(i)
           \/ RecordObservedBaseline \/ Start \/ Edit \/ CommitCandidate
           \/ VerifyReads \/ VerifyAccepts \/ VerifyFails
           \/ \E o \in Outcomes : Admit(o)
           \/ Integrate \/ Reopen \/ RecordObservedCandidate

Next == Control \/ Experiment \/ Request

Spec == Init /\ [][Next]_mvars

-----------------------------------------------------------------------------
Measurements == {[at |-> i, setup |-> s, seen |-> o] :
                   i \in 1 .. MaxCommits, s \in Setups, o \in Outcomes}

(* Every value stays in its type; the type invariant of the module.        *)
TypeOK ==
  /\ \A i \in DOMAIN history :
       /\ history[i].code \in Codes
       /\ history[i].baseline \in Measurements \cup {NoBaseline}
  /\ Tip \in 1 .. MaxCommits
  /\ file \in Measurements \cup {NoBaseline}
  /\ h0 \in Measurements \cup {NoBaseline}
  /\ base \in 0 .. Tip
  /\ stage \in {"NONE", "STUDY", "ACTIVE", "VERIFIED", "INTEGRATED"}
  /\ cand \in [head : 0 .. MaxHead, edits : {0, 1}]
  /\ \A i \in DOMAIN exps :
       /\ exps[i].status \in {"CREATED", "RUNNING", "COMPLETED", "FAILED"}
       /\ exps[i].seen \in Outcomes \cup {Unset}
       /\ exps[i].status = "COMPLETED" <=> exps[i].seen # Unset
  /\ live \subseteq {i \in DOMAIN exps : exps[i].status = "RUNNING"}
  /\ holder.row \in OfTheCheck .. Len(exps)
  /\ checking.head \in 0 .. MaxHead /\ checking.row \in 0 .. Len(exps)
  /\ checking.running \subseteq DOMAIN exps
  /\ admitted \in Outcomes \cup {Unset}

(* A request that was verified has a completed experiment of that very     *)
(* candidate, run with the contract and inputs of a baseline that was      *)
(* measured on the code the request is based on, and it passed as many     *)
(* commands; what the pull request check admitted did so as well (verify,  *)
(* baseline_for_request, compare_baseline, validate_bundle).               *)
VerifiedHeldItsBaseline ==
  stage \in {"VERIFIED", "INTEGRATED"} =>
    LET e == exps[verified.row] IN
    /\ e.status = "COMPLETED" /\ e.head = verified.head
    /\ e.setup = Baseline.setup
    /\ history[Baseline.at].code = history[base].code
    /\ e.seen.passes >= Baseline.seen.passes
    /\ admitted # Unset => admitted.passes >= Baseline.seen.passes

(* No baseline that a commit, the checkout or a study metric holds mistook *)
(* a timeout or a missing command for a measurement (capture_baseline).    *)
BaselinesAreMeasured ==
  \A b \in {file, h0} \cup {history[i].baseline : i \in DOMAIN history} :
    b # NoBaseline => ~ b.seen.harness

(* A candidate metric of the study comes from a run of the integrated      *)
(* commit that passed all of its commands; the request's last matching     *)
(* run need not be that one (record_observed_candidate_metric).            *)
MetricWasEarned ==
  metric # NoMetric =>
    /\ metric.head = verified.head
    /\ exps[metric.row].head = metric.head
    /\ exps[metric.row].status = "COMPLETED"
    /\ exps[metric.row].seen.passes = Commands

(* What a study compares is measured on the same code: its H0 metric is    *)
(* about the code of the study's base (record_observed_baseline_metric).   *)
StartingPointIsOfTheStudy ==
  h0 # NoBaseline => history[h0.at].code = history[base].code

(* An experiment that ended keeps its verdict, whichever command overlaps  *)
(* with it after its lease was taken (update_experiment).                  *)
VerdictsAreFinal ==
  [][\A i \in DOMAIN exps :
       exps[i].status \in {"COMPLETED", "FAILED"} => exps'[i] = exps[i]]_mvars

(* A check accepts what the last run of the candidate and the baseline's   *)
(* setup decides.  One that started later and had completed as well when   *)
(* the check passed was still running when the check read the rows, which  *)
(* takes an experiment that outlived its lease: none begins while a check  *)
(* is active, not even when the check has lost its lease                   *)
(* (matching_receipts[-1], require_no_active_run).                         *)
LastRunDecides ==
  [][verified' # verified =>
       \A i \in DOMAIN exps :
         /\ i > verified'.row
         /\ exps[i].status = "COMPLETED"
         /\ exps[i].head = verified'.head /\ exps[i].setup = Baseline.setup
         => i \in checking.running]_mvars

(* Once a run was accepted, the pull request check and a second            *)
(* verification accept every run that is at least as good in every metric  *)
(* (compare_baseline).                                                     *)
BetterIsAccepted ==
  stage \in {"VERIFIED", "INTEGRATED"} =>
    LET seen == exps[verified.row].seen IN
    \A best \in Outcomes :
      /\ best.passes >= seen.passes /\ best.lost <= seen.lost
      /\ best.time <= seen.time
      => NoWorse(Baseline.seen, best)
=============================================================================
