------------------------------- MODULE Services -------------------------------
(***************************************************************************)
(* Seven components that do not act on one another: Measurement, Study,    *)
(* CodexBroker, Memory, WorkerDaemon, OperatorScheduler and Evaluation.    *)
(* A behaviour is one of the component that part names; the others rest in *)
(* their initial states.                                                   *)
(***************************************************************************)
EXTENDS Integers, Sequences, FiniteSets

CONSTANTS Procs,        \* commands that may run at the same time
          Setups, Outcomes, ProfileCommands, Rules, Codes,
          MaxCommits, MaxRuns, MaxHead, Unset, NoBaseline, NoMetric,
          Studies, Lines, Targets, StudyRegimes, MaxDrifts, NoStudy, NoLine,
          Roles, Required, Backlog, MaxCommands, MaxBrokerCalls, NoCall,
          MaxTask, MemoryRegimes, MaxApprovals, HalfMade, None,
          Pids, NoPid, WorkerRegimes,
          MaxAttempts, MaxAutoRetries, MaxCalls, MaxChecks, SchedulerRegimes,
          SchemaErrors, Datasets

VARIABLES part,
          history, contract, file, base, stage, cand, exps, live, holder,
          checking, verified, admitted, h0, metric,
          regime, world, drifts, studies, memory, manifest, starts, lines,
          branch, release, link, pc, loc, scars, broken,
          plan, phase, exit, results, thread, serving, queue, stop, accepted, calls,
          mregime, task, raw, digest, proposal, rejected, active, worker,
          mpc, mloc,
          wregime, pidfile, workers, others, wpc, wloc,
          oregime, needs, ophase, runs, writer, checks, feedback, patch, head,
          experiment, ocalls, reviewing, opc,
          dataset, used, observed, reported, summary, diagnosis, facts, epc, eloc

M == INSTANCE Measurement       WITH Commands <- ProfileCommands
S == INSTANCE Study             WITH Regimes <- StudyRegimes
B == INSTANCE CodexBroker       WITH MaxCalls <- MaxBrokerCalls
N == INSTANCE Memory            WITH Regimes <- MemoryRegimes
W == INSTANCE WorkerDaemon      WITH Regimes <- WorkerRegimes
O == INSTANCE OperatorScheduler WITH Drivers <- Procs, Regimes <- SchedulerRegimes
E == INSTANCE Evaluation        WITH Runs <- Procs, Missing <- Unset

(* The null values are none of the values they stand beside, and bounds    *)
(* are numbers.                                                            *)
ASSUME ServicesAssumption ==
  /\ MaxTask \in Nat /\ MaxApprovals \in Nat
  /\ None \notin 1 .. MaxTask /\ None # HalfMade
  /\ {None, HalfMade} \cap N!Packets = {} /\ None \notin N!Proposals
  /\ NoPid \notin Pids
  /\ Procs # {} /\ MaxAttempts \in Nat /\ MaxAutoRetries \in Nat
  /\ NoStudy \notin Studies /\ NoLine \notin Lines
  /\ NoStudy \notin [line : Lines, target : Targets, frozen : [S!Fields -> 1 .. 2]]

(* The prescribed roles are a sequence, and no call is a call.             *)
ASSUME BrokerAssumption ==
  Required \in Seq(Roles) /\ NoCall \notin [role : Roles, fine : BOOLEAN, there : BOOLEAN]

(* A timeout is no pass; one set of commands and inputs is run in one mode;*)
(* and the rules of the constitution bound a metric on the side on which   *)
(* it may get worse, where not one command less may pass.                  *)
ASSUME MeasurementAssumption ==
  /\ ProfileCommands \in Nat /\ Unset \notin Outcomes \cup Int
  /\ \A o \in Outcomes :
       /\ o.passes \in Int /\ o.lost \in Int /\ o.time \in Int
       /\ o.harness => o.passes # ProfileCommands
  /\ \A s, t \in Setups :
       /\ s.mode \in {"strict", "measure"}
       /\ s.profile = t.profile /\ s.contract = t.contract /\ s.inputs = t.inputs => s = t
  /\ Rules["pass_rate"].absolute = 0
  /\ \A m \in {"pass_rate", "artifact_completeness", "runtime_seconds"} :
       /\ Rules[m].absolute \in Int \cup {Unset} /\ Rules[m].percent \in Int \cup {Unset}
       /\ Rules[m].minimum \in Int \cup {Unset} /\ Rules[m].maximum \in Int \cup {Unset}
       /\ IF m = "runtime_seconds" THEN Rules[m].better = "lower" /\ Rules[m].minimum = Unset
          ELSE Rules[m].better = "higher" /\ Rules[m].maximum = Unset

(* The bounds have room for what there is at the start, and the one on     *)
(* checks for all that a request meets which is only driven by advance.    *)
ASSUME BoundsAssumption ==
  /\ {MaxCalls, MaxCommits} \subseteq Nat \ {0} /\ {MaxHead, Backlog} \subseteq Nat
  /\ 1 \in Codes
  /\ MaxChecks \in Nat /\ MaxAutoRetries + 3 < MaxChecks

(* Every unusable row has a directory of its own, and no report and no     *)
(* summary is none.                                                        *)
ASSUME EvaluationAssumption ==
  /\ \A d \in Datasets :
       /\ Len(d.rows) \in Nat /\ DOMAIN d.rows = 1 .. Len(d.rows)
       /\ \A i, j \in DOMAIN d.rows : SchemaErrors[i] = SchemaErrors[j] => i = j
  /\ Unset \notin [run : Procs, stage : E!Stages]
  /\ Unset \notin [run : Procs, count : Nat, passed : Nat]

measurement == <<history, contract, file, base, stage, cand, exps, live, holder,
                 checking, verified, admitted, h0, metric>>
study  == <<regime, world, drifts, studies, memory, manifest, starts, lines,
            branch, release, link, pc, loc, scars, broken>>
broker == <<plan, phase, exit, results, thread, serving, queue, stop, accepted, calls>>
notes  == <<mregime, task, raw, digest, proposal, rejected, active, worker,
            mpc, mloc>>
daemon == <<wregime, pidfile, workers, others, wpc, wloc>>
driving == <<oregime, needs, ophase, runs, writer, checks, feedback, patch, head,
             experiment, ocalls, reviewing, opc>>
evaluating == <<dataset, used, observed, reported, summary, diagnosis, facts,
                epc, eloc>>

vars == <<part, measurement, study, broker, notes, daemon, driving, evaluating>>

Parts == {"measurement", "study", "broker", "memory", "worker", "scheduler", "eval"}

Init == /\ part \in Parts
        /\ M!Init /\ S!Init /\ B!Init /\ N!Init /\ W!Init /\ O!Init /\ E!Init

Next ==
  \/ /\ part = "measurement" /\ M!Next
     /\ UNCHANGED <<part, study, broker, notes, daemon, driving, evaluating>>
  \/ /\ part = "study" /\ S!Next
     /\ UNCHANGED <<part, measurement, broker, notes, daemon, driving, evaluating>>
  \/ /\ part = "broker" /\ B!Next
     /\ UNCHANGED <<part, measurement, study, notes, daemon, driving, evaluating>>
  \/ /\ part = "memory" /\ N!Next
     /\ UNCHANGED <<part, measurement, study, broker, daemon, driving, evaluating>>
  \/ /\ part = "worker" /\ W!Next
     /\ UNCHANGED <<part, measurement, study, broker, notes, driving, evaluating>>
  \/ /\ part = "scheduler" /\ O!Next
     /\ UNCHANGED <<part, measurement, study, broker, notes, daemon, evaluating>>
  \/ /\ part = "eval" /\ E!Next
     /\ UNCHANGED <<part, measurement, study, broker, notes, daemon, driving>>

(* The fairness of the components, each in its own behaviours.             *)
Spec == /\ Init /\ [][Next]_vars
        /\ WF_(B!cbvars)(part = "broker" /\ B!Fair)
        /\ WF_(N!mmvars)(part = "memory" /\ N!Tick)
        /\ WF_(O!osvars)(part = "scheduler" /\ O!Fair)

-----------------------------------------------------------------------------
(* The properties of the components, stated and explained one by one in    *)
(* their modules; here they are joined by what they are about.             *)

\* Every value stays in its type; the type invariants of the modules.
TypeOK == /\ M!TypeOK /\ S!TypeOK /\ B!TypeOK /\ N!TypeOK /\ W!TypeOK
          /\ O!TypeOK /\ E!TypeOK

\* A request that was verified or admitted has a completed run of that very
\* candidate against a baseline measured on the code it is based on; a timeout
\* is no measurement, a better run is never refused, and both metrics of the
\* study come from measured runs of the code they are about (verify,
\* compare_baseline, validate_bundle, capture_baseline, record_observed_...).
VerdictsRestOnMeasurements ==
  /\ M!VerifiedHeldItsBaseline /\ M!BaselinesAreMeasured /\ M!BetterIsAccepted
  /\ M!MetricWasEarned /\ M!StartingPointIsOfTheStudy

\* A registered study has the snapshots whose digests it froze, also when
\* commands overlap or die.  As long as commands follow one another it is like
\* the others of its cohort and an initialized line has all its parts; and what
\* failing commands leave of a study or a line that nobody's death has touched
\* is exactly a copy that broke on its way, which blocks every further attempt:
\* the error paths take away the copies, branch and link that they know of, and
\* not that one (create_study, initialize_experiment_line, _snapshot_memory).
StudyIsWhole ==
  /\ S!StudyHasItsSnapshots /\ S!CohortIsFrozen
  /\ S!LineIsComplete /\ S!OnlyBrokenCopiesStay

\* What the broker of a command lets through, and what a verdict needs.
BrokerIsStrict == B!BrokerIsStrict

\* Packets and digests are complete evidence of accepted tasks, what is in the
\* active Memory was proposed from a digest, and an approval or a rejection has
\* had its effect on the files, also when its command died (collect, maintain,
\* approve, reject).
MemoryIsBacked ==
  N!PacketsAreAccepted /\ N!ActiveIsBacked /\ N!ApprovedIsActive /\ N!RejectedHasGone

\* While commands follow one another and finish there is one worker at most,
\* and between commands the pid file names it; pids that are given away again
\* and workers that ended by themselves do not change that.
WorkerIsNamed == W!WorkerIsNamed

\* A request that is only driven by advance has no more runs than the automatic
\* retries allow, one driver commits what passed a fast check, and no full
\* check passes without a review that passed: of the patch that is recorded, or,
\* when a person edited the worktree during the check, of what the verifier
\* found there (advance, verify, _semantic_review).
AttemptsAreGoverned ==
  O!AutoRetriesAreBounded /\ O!CommittedWasChecked /\ O!PassedWasReviewed

\* A passed case earned it, the summary and the diagnosis count every case and
\* row once, and a directory holds one run that scores the same again, whatever
\* raises, dies or overlaps (_run_case, run_eval, diagnose_run, score_path).
ReportsAreTrue ==
  /\ E!PassIsEarned /\ E!SummaryIsTrue /\ E!OneRunPerDirectory
  /\ E!DiagnosisIsComplete /\ E!RescoreAgrees

\* What was decided stays: the verdict of an experiment; that the last one that
\* had completed when the check read the rows decided, where only one that was
\* running then can have completed later; a line's branch; no calls after the
\* verdict of a command; and a stopped worker (update_experiment, verify,
\* update-ref, __exit__, stop_worker).
DecisionsStay ==
  /\ M!VerdictsAreFinal /\ M!LastRunDecides /\ S!BranchStays
  /\ B!NothingAfterTheVerdict /\ W!StopLeavesNone

\* Every profile comes to its verdicts, also when the backend hangs or the
\* broker died; every packet gets its digest as long as the worker lives; and a
\* driven request comes to rest unless its experiment keeps failing
\* (subprocess.run and join, tick, advance).
EveryPartEnds ==
  /\ part = "broker" => B!EndsWithVerdict
  /\ part = "memory" => N!EventuallyDigested
  /\ part = "scheduler" => O!RequestSettles
=============================================================================
