# A verification of autobugfix

TLA+ models of autobugfix (the `src/src/autobugfix` package), TLC configurations
that check them on small instances, and theorems that TLAPS proves for every
instance.  Paths below are relative to `src/src/autobugfix`; `service.py` without
a directory means `operator/service.py`.

## 1. The system

autobugfix runs four loops around a Codex model.

* The **Execution** loop fixes one bug: a task directory, an isolated worktree,
  a Writer, a verifier, an evaluator, and the gates of a human.
* The **Memory** loop turns accepted tasks into packets, digests and proposals
  that a human approves.
* The **Evaluation** loop runs a batch of cases and writes reports.
* The **Operator** loop improves autobugfix itself, under governance: requests
  with a scope, Writers in a staging copy, checks, commits by the service,
  measured baselines and experiments, an experiment line that accumulates
  candidates, checkpoints, budgets of model calls in waves, promotions through
  pull requests with a canary.

Nothing here is one long-lived server.  Everything is a command line process (or
a small daemon that calls the same functions), several of which may run at once,
and what they share is on disk: an SQLite store in immediate transactions, Git
refs, directories and symlinks, YAML files.  The correctness questions are
therefore those of concurrent processes that die between two writes to stores
which have no common transaction.

### Components

| component | state | operations | hard behaviour | model |
|---|---|---|---|---|
| Experiment line (`service.py` 902-2320, `store.py` 267-354, 815-1149) | row of the line (head, generation, checkpoint), integrations, checkpoints, metrics; Git branch and remote; release directories and active link; leases | create request, record metric, integrate, checkpoint, roll back | four stores updated one after the other; leases that time out under a live holder; undo and reconciliation; crashes | `ExperimentLine`, `LineAuthority`, `ExperimentLineProofs` |
| Budget and metering (`service.py` 1294-1521, `store.py` 1151-1397, `metering.py`) | budget requests, grants per wave, usage rows | request, approve, reserve, finalize | check and insert in two transactions; concurrent reservations; expiry; lost settlements | `Budget`, `BudgetProofs` |
| Request lifecycle (`service.py` 2666-5199, `projection.py`, `guard.py`) | event log and its projection; Writer runs, checks, scope revisions, feedback; candidate worktree | start, write, cancel, commit, verify, change scope, reopen, close, hand over to promotion or integration | a Writer runs without the lease, whose timeout another command may use; rows and events are separate transactions; foreign edits of the candidate | `RequestLifecycle`, `RequestLifecycleProofs` |
| Request admission (`service.py` triage and approvals, `policy.py`, `approvals.py`, `guard.py`) | scope revisions, approvals, signed payloads, GitHub reviews | decide, approve, grow the scope, verify, observe a merge | an approval binds one scope and one patch; time, constitution and reviews move between two decisions | `Admission`, `AdmissionProofs` |
| Trusted PR admission (`trusted.py`, `bundle.py`, `scripts/validate_operator_pr.py`) | the bundle in the commit | validate a pull request | decides from a frozen moment with the constitution of the base | `Admission`, `Measurement` |
| Promotion and canary (`service.py` 5201-5627) | promotions, pull requests, releases, one shared active-release link | prepare, open, observe, canary, roll back, revert | several promotions over one link, a rollback target read early, crashes between link and row | `Promotion`, `PromotionProofs` |
| Operator experiments (`service.py` 858-1292, 2751-3217, `metrics.py`) | baselines in Git, experiment rows, studies and their snapshots, H0 of a line | capture, run, compare, create study, initialize line | a measured code moves on; a stolen lease starts a second run; five stores set up one after the other | `Measurement`, `Study`, `ServicesProofs` |
| Operator scheduler (`service.py` 3590-3778, 4613-4674, 4984-5060) | none of its own: it reads the request's records | advance, supervise, semantic review | decides before it takes the lease; retries, budgets and feedback have to end somewhere | `OperatorScheduler`, `ServicesProofs` |
| Operator sandbox (`validator.py`) | broker thread and socket of a command | run a profile, broker a Codex call | a call outlives its caller; thread, command and backend have timeouts of their own | `CodexBroker`, `CodexBrokerProofs` |
| Authority store (`store.py`) | all tables | transactions | its transactions are the atomic steps of the operator modules, its leases are state there | in those modules |
| Task execution (`runner.py`, `service.py`, `task_store.py`, `scheduler.py` of the package) | `task.yaml`, task directories, evidence, worktree | run, feedback, gates, PPE deployment, archive | nothing is locked: every command writes back the record it loaded; backends that raise | `ExecutionTask`, `ExecutionTaskProofs` |
| Memory (`memory/`, `memory_worker.py`) | packets, digests, proposals, active Memory | collect, digest, propose, approve, reject | directories exist before their content; nothing is locked; approve writes two files | `Memory`, `ServicesProofs` |
| Worker daemons (`worker.py`, `memory_worker.py`) | pid file, process | start, stop, status | check and start are two steps; pids are given away again | `WorkerDaemon`, `ServicesProofs` |
| Evaluation (`eval/`) | run directory: observations, reports, summary, diagnosis | run a batch, score, diagnose | a harness error after the oracle; a directory used twice; ids that are directory names | `Evaluation`, `ServicesProofs` |
| Codex runtime (`codex_sdk.py`, ...) | subprocess, socket | one call | timeouts | the client of a brokered call in `CodexBroker`, elsewhere a call is an action that returns or raises |
| Configuration, command line, Gradio apps | none | parse, dispatch | none | not modelled |

What makes each of them correct is the list of properties in section 3;
`hazards` in `PROJECT.json` gives the lines at which each could go wrong.

### How they interact

`advance` reads a request's records and chooses its next command.  A request is
created against the head and generation of its experiment line and is refused
when the branch and the row disagree.  Writers, checks and commits happen inside
the request; admission decides, from approvals, what each of them may touch.  An
experiment of the candidate is compared with the baseline that the request's
base commit holds.  A verified candidate either becomes a promotion (pull
request, merge, canary, active link), or is handed to `integrate_candidate`,
which takes the line lease as well, builds the merge commit, moves the branch
with a compare-and-swap `git update-ref`, moves the row with a compare-and-swap
of its own, and closes the request.  Every model call of a Writer, supervisor or
semantic verifier goes through `metering.py`, which reserves a usage row under
the grant in force and settles it afterwards.  The commands of checks and
experiments run in a sandbox whose Codex calls the broker makes.  A task of the
Execution loop shares nothing with the operator store; the Memory loop reads its
archive, the Eval harness runs the task loop once per case.

## 2. Modules

Several modules have a variable `regime` (`plan` and `dataset` play that part in
`CodexBroker` and `Evaluation`).  It is chosen in `Init` and never changes; it
says which faults a behaviour may have and bounds what people start.  One run so
covers several instances, and a property whose claim depends on a fault names it
(`NoFaults`, `LeasesHold`).

### `ExperimentLine`, `LineAuthority`

Variables: `line` (the row), `log` (its CANDIDATE and ROLLBACK integrations),
`recon` (where reconciliation rows sort), `ckpts`, `metrics`, `req`, `lease`;
`commits`, `ref`, `remote` for Git; `releases`, `link` for the file system; `pc`
and `loc` for where each command stands and what it remembers; `orphans`, a
history of the results that a command left in the branch when it ended.

The three commands share the steps the code shares.  `IntegrateStart`,
`RollbackStart` and `CheckpointStart` are the guards up to the first effect;
`Build` is the commit; `UpdateRef` is `git update-ref <new> <expected>`;
`Advance` and `AdvanceCheckpoint` are the transactions of `store.py`, with the
row's compare-and-swap in `Unmoved`; `Undo` and `Restore` are the handlers;
`Push...` and `Close` end an integration.  A lease expires (`LeaseExpires`) when
its process died, or, with the fault `theft`, while its holder still runs: the
store only compares timestamps and no command renews its lease or looks at it
again.  `"crash"` ends a command at any step, `"store"` makes a transaction
raise, `"git"` makes a Git command fail.

`LineAuthority` is what the line promises: one row, one history, checkpoints
that freeze candidate heads; every operation is atomic.  `ImplementsAuthority`
says that the row, the log and the checkpoints of `ExperimentLine` are such a
history.

### `Budget`

`requests`, `grants` (per wave), `expired`, `usage`, and the program counters of
commands and metered calls.  `RequestStart`/`RequestWrite` and
`ApproveStart`/`GrantWrite` are the two halves of commands that read in one
transaction and insert in another; `Prepare` sets up a call, reading the
operator role's revision number; `Reserve` is the one transaction of
`reserve_usage_entry` with its guards as `InForce`, `Room`, `NextInLine`,
`FreshKey`; `Settle` is `finalize_usage_entry`, `SettleFails` and `Crash` leave
the row reserved.  Requests of one second sort by random ids: a row may be
`tied` with its predecessor, and `Newest` allows either.

### `RequestLifecycle`

`view` is the projection of the event log, kept incrementally; `runs`, `checks`,
`scope`, `feedback` are the rows; `tree` and `head` the candidate.  Content is a
number: what Writer run *k* made, or `Foreign`.  An action is one transaction,
one event append, one Git command or one backend call.  An event the projection
would refuse sets `view.broken`, after which every command of the request raises.
`"edit"` lets somebody else change the worktree at any time, `"theft"` lets a
lease time out under its holder.  The checks' outcomes are free: they pass, fail
in a way that allows a Writer's retry, or fail otherwise.

### `Admission`

The records an admission decision is made from: `scopes` (the frozen scope and
its revisions), `approvals` and `payloads`, the constitution (`law` at
`origin/main`, `base` and `frozen` at other moments), `clock`, the worktree's
`patch` and the `commit` with its bundle.  A path pattern is the set of files it
covers, a digest is the value digested.  `Effective`, `Matches`, `PatchRisk` and
their neighbours are the operators of `policy.py` and `approvals.py`, used by
every command that decides: starting, growing the scope, checking, observing the
merge, and the pull request check, which sees the bundle and the base commit
only.  Profiles pass or fail freely there; patches that violate a static rule of
the constitution are those outside `Sound`.

### `Promotion`, `PromotionProofs`

Promotions of verified requests: `prom` (rows), `branch` and `pulls` (GitHub as
`gh` answers), `releases`, `link` and `sandbox` (disk), `revert`, `lease`, `pc`,
`loc`.  A command is one step per store it writes: receipt, push, pull request,
row; worktree, row, profiles, release, link, row, request.  `loc[c].row` is the
row as the command read it, which matters when it writes it back.  `good`
is a history of the promotions whose canary passed.

### `Measurement`, `Study`

`Measurement` has the trusted branch (`history`, linear), the baseline file, one
request with its candidate and its `exps` rows.  `Metrics` and `Regression` are
the metric contract of `metrics.py` with its rules as data; `Fresh` is
`baseline_for_request`, `Matching`/`LastOf` the choice of the run that decides.
A full check is two steps, because a review of minutes lies between them:
`VerifyReads` is its last look at the candidate and the choice of the row
(`service.py` 4835-4873), `VerifyAccepts` and `VerifyFails` are its end (4932-4962);
`checking` is the active check, with the rows that ran when it read.  While it is
active no experiment, Writer or commit begins, even when its lease was taken
(`Unwatched`, `require_no_active_run`), but an experiment that lost its own lease may
still complete and an edit may come.

`Study` is the birth of studies and lines: snapshots, row, release, branch, link
and line row, each a step, with the error paths (`TakesBack`, `Undo`) and commands
that die.  A copy can fail on its way (`SnapshotBreaks`, `ManifestBreaks`,
`ReleaseBreaks`: a `copytree` at 453 or a `chmod` at 426-429, 456-463 or 486 that
raises): `broken` remembers it, and what it left is there for good.

### `OperatorScheduler`

`advance` in two steps: the choice, from records read without the lease, and the
command, which takes it and may find the state changed.  The commands are those of
`RequestLifecycle`, one step each but for the full check, whose review is a step of
its own: `ReviewBegins` is the last look at the candidate, and the patch that the
verifier sees in `Review` is what the worktree holds later, since edits take no lease.
`FAILED` also stands for a Writer that timed out; the semantic verifier is required
(`require_semantic_verifier`).  Role calls come out of `ocalls`.

### `CodexBroker`

A profile's commands in the sandbox and the broker thread: the queue of
connections, the call being served, the caller that may be gone, the stop flag,
the join with its timeout.  `accepted` are the roles let through.

### `ExecutionTask`

`home` maps the active directory and the archives to what the store finds there,
`evidence` is what the verifier and evaluator saw, `content` the worktree.  A
command remembers the record it loaded and writes the whole of it back, which is
the point of the module.  `"overlap"` lets a human command start during a run.

### `Memory`, `WorkerDaemon`, `Evaluation`

`Memory`: per task a packet (`raw`, possibly `HalfMade`), a digest, a proposal
and where it was moved to, and what was appended to the active Memory; writing a
file is one step, and the day in a proposal's id stands still.  `Tick` is one
round of its worker.  `WorkerDaemon`: the pid file, the processes, and other
programs that may get a pid again.  `Evaluation`: a run directory by the names of
its cases and schema errors; a command keeps the numbers of the rows it still has to
run, in the order of the dataset; whatever raises inside a case is caught as the code
does (`Spoiled`), and what really happened is the history `facts`.

### `Services` and the MC modules

`Services` composes the seven components that do not act on one another
(`Measurement`, `Study`, `CodexBroker`, `Memory`, `WorkerDaemon`,
`OperatorScheduler`, `Evaluation`): `part` names the one a behaviour is about, the
others rest in their initial states.  Nothing is claimed about their interaction,
since they have none but through records that each module has as its input.

`MC*` give process names, symmetry sets, regimes and offers.  `MCServices` also
fixes the initial states of the components that rest (`Resting`).

## 3. Runs

| run | question | instance |
|---|---|---|
| `line_theft` | Do stolen leases fork or lose an update, integrate a request twice, or freeze an uncommitted head? | two commands, two requests, one checkpoint, three commits, failing transactions |
| `line_faults` | With all four faults at once: does the line implement `LineAuthority`, does a diverged line fail closed, does the proofs' invariant hold? | two commands, one request, three commits, a remote |
| `line_exclusive` | With leases that hold, is the release of the active checkpoint the active one after any failure, and does the line lease come back on every path? | two commands, two requests, four commits, fairness |
| `budget` | Do racing requests, approvals and calls stay inside the grants? | two processes, two waves, two requests, three calls |
| `request_lifecycle` | Is the log always readable, the live Writer the active run, and what is verified or released the last Writer's checked commit? Does every check end? | two commands, two Writer runs; three regimes: edits with two checks and two scopes; crashes, failing transactions and edits; stolen leases |
| `request_retry` | (violated) can the retry be started that a failed check allows? | no faults |
| `task` | Is what a human reviews verified and quiet, and does the task come to rest? | one runner, one human command, four Writer runs; archives, crashes and raising backends between runs, or commands during a run |
| `task_overrun` | (violated) does a run respect a gate applied meanwhile? | two Writer runs |
| `promotion` | Did the active release pass its canary, was what was merged verified, do link, rows and requests agree? | two commands, two requests, two promotions; overlap with edits or crashes, a failing Git in sequence, stolen leases |
| `promotion_overlap` | (violated) does a failed canary leave other promotions alone? | two overlapping promotions, no faults |
| `admission` | Are VERIFIED, admission and merge covered by approvals for exactly their scope and patch? | six regimes of at most two scopes, two approvals or three, four files in two layers |
| `services` | Each of the seven services: does what it decided stand, and does it come to its end? | see `MCServices`: two commands, two studies, two tasks, three pids, three rows of a dataset, four role calls |

### The properties, by what they say

* **The line.** `IInv` (types, a linear history, at most one command between
  branch and row, every difference of the two accounted for, only committed heads
  in the remote, and what a command remembers), `LinearHistory`,
  `IntegratedAtMostOnce`, `RefFollowsLine`, `CheckpointsAreSound`,
  `DivergedLineStops`, `ImplementsAuthority`, `ActiveReleaseAgrees`, `LeaseComesBack`.
* **The budget.** `IInv` (types, the four limits, unique keys, and that what a
  command checked still holds when it inserts), `CallsWithinBudget`,
  `WavesInOrder`, `LedgerIsAppendOnly`.
* **A request.** `ProjectionIsSound` (readable; live Writer = active run; active
  runs can end), `VerifiedStands` (one history of runs; the last one's commit,
  checked; under the scope in effect), `ReleasedWasChecked`, `CancelledStaysOut`,
  `ChecksEnd`.
* **Admission.** `VerifiedIsCovered`, `AdmittedIsCovered`,
  `DecisionsRestOnApprovals`.
* **Promotion.** `ActivePassedCanary`, `LinkAndRowsAgree` (newest active
  promotion, closed requests, attended canaries), `RolledBackIsFinal`, and `IInv`,
  from which `MergedWasVerified` is proved.
* **A task.** `ReviewStands` (verified, and quiet), `ComesToRest`.
* **The services.** `VerdictsRestOnMeasurements`, `StudyIsWhole`,
  `BrokerIsStrict`, `MemoryIsBacked`, `WorkerIsNamed`, `AttemptsAreGoverned`,
  `ReportsAreTrue`, `DecisionsStay`, `EveryPartEnds`; each is a conjunction of named
  parts that are explained where they are defined, in the component's module.

Several names above are such conjunctions: the parts keep their own definitions
and comments, and each part's comment says which fault takes it out of force and
why.

### Bounds

Two commands are the smallest number that races and every conflict in these
modules is between two; a third process adds only interleavings in which one of
the two is replaced by another that meets the same guards.  Three or four commits
let a second command build on, and against, the result of the first.  Two Writer
runs let one be late while the next one runs; the scheduler has three, one more
than its automatic retries allow.  Two waves let a call of the old one meet the
grant of the new one.  Two promotions let one be restored over the other.  Five
calls are more than the prescribed sequence of three, so that one can be
abandoned, sent again and refused.  Two tasks let the worker choose.  The proofs
remove the bounds altogether, except for liveness.

Deadlock is not checked in any run: commands are started by people, and a line
without open requests, an exhausted budget or a request that is VERIFIED is a
state in which the system really stops.

### Fairness

It is weak fairness of the steps of a command that has started, never of the
start of one: nobody owes the system a command.  A backend call ends because its
subprocess has a timeout (`codex_sdk.py`, the role timeouts of `config.py`), a
verifier command too; in `CodexBroker` the timeouts themselves are the fair steps
(`subprocess.run`, `join`), and neither the backend nor the caller owes anything.
The worker of the Memory ticks as long as it lives, since its loop does nothing
else.  `RequestSettles` is about a request that somebody drives: it assumes that
`advance` is called again and again.  `LeaseComesBack` and `ChecksEnd` are checked
without stolen leases and dead processes: with them leases come back by timeout,
and the property would say nothing about the commands.

### What the violated runs show

* `request_retry`: after a failed full check the feedback names `retry_writer`,
  but a full check needs a committed candidate and a Writer an uncommitted one.
  The only ways out are a new request or a manual reset.
* `task_overrun`: an abandoned task goes on to wait for an approval, because the
  runner saves its own copy of the record.
* `promotion_overlap`: a rollback activates the release that was read when its
  promotion was prepared (`service.py` 5225, 5503), also after a canary that
  failed, when the promotion never was active.  Another promotion that became
  active meanwhile is taken out of service while its row stays ACTIVE.

Further behaviour met while modelling, stated in the comments of the properties
it limits: a full check compares the candidate with its decision for the last time at
`service.py` 4835, reads the diff for the semantic verifier from the live worktree at
4874 and runs the verifier there (4642), so that an edit in between, which no lease
keeps out, is what gets reviewed, while the verdict and the check are recorded for the
digest of the decision: that verdicts are "bound to the request, patch digest, ..." (the
PRD of the operator governance, lines 59-60) holds of the record only, and
`PassedWasReviewed` says what is left; a copy of a study's Memory or manifest, or of its H0 release, that fails on
its way is taken away by no error path, which knows of a copy only once it was made
(`memory_snapshot` is still None at 1112; the release's `chmod`s are outside of its
`try`), and blocks the name for good (443, 478, 400): `OnlyBrokenCopiesStay` says
that this is exactly what failures leave; an experiment whose lease was taken can
complete while a check that has read the rows is under review, so that the last run
when it passes need not be the one that decided (`LastRunDecides`); a call whose settlement fails stays reserved for ever; an exception
after `check_started` leaves the check active; a crash between the approval of a
scope and the reopening of the request leaves a VERIFIED request under a scope it
was not verified for; a stolen lease lets a check that is accepted after a close
make the log unreadable; a Writer that lost its lease before its start was recorded
is no longer the active run, so that with failing transactions and five attempts it
may apply its files to a VERIFIED request, whose projection then names no commit and
from which nothing can be released (`VerifiedIsTheWriters` is about a commit that is
on record); a raising backend leaves a task in `writing`; two drivers
may commit what no check of that run passed; a case named like a schema error
hides a report; `scheduler.max_auto_iterations` is read by nobody.

## 4. Proofs

### `ExperimentLineProofs`

For any number of commands, requests, checkpoint names and commits and any set
of faults: types (`TypeCorrect`), a linear history (`HistoryIsLinear`), a request
integrated at most once (`IntegrationIsUnique`), at most one command between
branch and row (`OneAtATime`), every difference of branch and row accounted for
(`RefIsAccounted`), only committed heads in the remote (`PublishedIsCommitted`),
and a diverged line that never moves again (`DivergenceStops`).

The safety properties are not inductive.  `IInv` adds three parts: `LocalsFit`
(what a command remembers fits the step it is at), `CommitsApart` (commits that
are being built are different from each other and from everything committed or
orphaned) and `RowsBound` (a candidate's row carries the generation its request
is bound to).  The argument does not use the leases at all, which is why theft
does no harm: `git update-ref` succeeds only if the branch still is at the head
the command started from.  While one command is between branch and row, the
branch is at a commit that nobody else has as its starting head
(`CommitsApart`), so nobody else gets in; if the command ends there, the branch
is at an orphan, and the same argument closes the line for good.  The row's
compare-and-swap then can only fail on the generation.  One lemma per action,
joined by `Invariance`.

The refinement, `Spec => ImplementsAuthority` (`Implementation`), and
`CheckpointsAreSound` (`CheckpointsFreezeCandidates`), for every instance.  `Advance`
is the abstract integration or rollback, `AdvanceCheckpoint` the abstract
checkpoint, and every other step stutters.  That a commit is new to the history is
`CommitsApart`; that a request is, follows from `RowsBound`: a row of it would
carry the generation that the compare-and-swap just found in the line.

What needs a new invariant is that a checkpoint freezes the head of a candidate:
`create_checkpoint` looks at the last integration and the metrics once, and the
lease it then holds may be taken over while it copies files.  `Freezes` says what
is left of that look when the row is written (`CommandFits`): metrics, rows and
commits only grow (`Grows`), and while the generation has not moved, no row was
added.  The same holds of the tree a rollback built.

`ActiveReleaseStays` is the one result that rests on the lease: the release of the
active checkpoint is the active one whenever no command is switching it.  Link and
row are two stores, so a second command between the two would undo a switch that is
not its own.  The hypothesis `NoTakeover` is that no fault lets a lease be taken
from a command at work: neither theft nor a process that died.  Store and Git may
fail at every step.  Then every command on the line has its lease, so there is one
(`OneOnLine`), and `Careful` says, step by step, which of the two releases the
link is at and that the row has not moved since the command read it.

### `BudgetProofs`

For any number of processes, requests, calls and cases: types (`TypeCorrect`), grants
in turn (`GrantsAreInTurn`), the four limits of a grant (`BudgetIsKept`,
`ConcurrencyIsKept`, `NumbersAreInTurn`), unique keys (`NoKeyIsReplayed`), and an
append-only ledger written under the grant in force (`LedgerIsKept`).

The invariant `IInv` adds to these `ChecksHold`: what a command found out in its
first transaction still holds when the second one runs.  An approval found a
request that follows the latest grant and keeps its cases (`Entitled`); grants
are written once and requests never change, so that stays true however many
other approvals come in between, and the second insert for a wave is refused.
The limits of calls need no such argument, because `Reserve` checks and inserts
in one transaction; what they need is that a settlement only changes the status
of a row that is still reserved, so that the counts of earlier rows
(`Prior`) never move.  TLC checks two waves; the third follows from the proof.

### `PromotionProofs`

For any number of commands, requests, promotions and pull requests, in every
regime: the active release passed its canary and its directory exists
(`ActivePassed`), and what a row calls merged was merged as the very commit that
passed a full check (`MergedVerified`).

Commands write back copies of rows that may be old, so the invariant says the
same of a row in the table (`RowSound`) and of the copy in a command's hands
(`LocalSound`).  It holds of old copies because the facts it is about only grow:
passed checks, canaries that passed, release directories and merged pull requests
are never taken back (`Grows`, `RowKept`).  So a rollback may restore a wrong
release, as `promotion_overlap` shows, but never one that was not active from
the start or had not passed its canary (`Known`), although the leases may be lost
at any time.

The rest needs leases, and says so in each property.  Three tables, `Reaches`,
`Passes` and `Writes`, give for each step of a command the statuses its row may
have, the step it passes to and what it writes; `NextKeeps` shows that every action
keeps to them, and the proofs that follow look at the tables instead of the actions.
`CommandsExclude`: while no lease is stolen, a command at work holds the lease of
its request, nobody else works on its promotion, and the row it read when it started
is still the one in the table (`Guarded`).  Hence `RolledBackStays`: no command
writes an old copy over a row that was rolled back, also with crashes.

`LinkAgrees` has three parts.  Rows and requests (`EndsClosed`) and canaries
(`CanaryIsRun`) follow from the tables.  That the link shows the newest active
promotion holds if promotions follow one another (`Serial`; `promotion_overlap`
shows why), and is the longest argument here.  At most one promotion may still move
the link (`OneLive`).  The active ones form a chain in which each was prepared on
the one before it (`Chain`); its end is what an unfinished promotion was prepared
on, and what the link is at unless a command is between link and row (`AtLink`).

### `RequestLifecycleProofs`

For any number of commands, attempts, checks and scope versions and every set of
faults: types (`ProjectionIsTyped`), and that whatever a promotion or an integration
took was committed by the service and passed a full check
(`TakenOnlyWhenChecked`).  While leases hold, the log stays readable
(`EventsStayReadable`), a VERIFIED request is what its last Writer run left,
committed and checked (`VerifiedIsChecked`), and a cancelled run stays out
(`CancelledRunsStayOut`), although commands die and transactions fail.

The invariant has three layers.  `Types` says what a command remembers at each step.
`Evidence` does not mention leases: no two commands have the same run or check, a
check runs until its own command saves it, and one that may still pass is about a
commit of the service; since commits and passed checks are never taken back
(`Grows`), theft does no harm to what is released.  `Locked` is about leases that
hold: a command that holds the lease (`Holding`) relies on the phase, on its run not
being cancelled and on what its check is about (`Relies`), and every other step that
could disturb it needs the lease as well.  The Writer is the exception, since its
backend runs without the lease; that its late answer cannot disturb a VERIFIED
request is why `Stands` says that the last run is over and keeps the content it left.

The rest of `ProjectionIsSound` (`ProjectionStaysSound`) and of `VerifiedStands`
(`VerifiedStandsAlways`) is proved on top of this invariant, each part under the
faults it allows.

An active run can end (`Ends`) whenever no command dies and no transaction fails:
a run that was announced is not active before its event, and an active run that is
no longer RUNNING has a command that is about to end it.  None of this needs the
lease, so it holds when leases are stolen.

The rest is about edits only.  `Serves` says that a Writer command whose run was not
cancelled has the active run, and that until it is over its run is the last one and
started from what the completed run before it left (`Continues`).  It is stable
because two commands never have the same run (`OwnRows`): if the active run is the
one of this command, whoever else is still in a backend was cancelled
(`OthersCancelled`), so no late answer completes a row in the middle of the history.
`Scoped` says that a checking command has the last check, under the scope in effect:
the full check that verifies a request is therefore the latest one that passed, and
the scope can only move on through a command that then reopens the request.

### `AdmissionProofs`

For any files, owners, people, patches and regimes: types (`TypesAreOK`), a VERIFIED
request is covered by the scope in effect and approved as its risk asks
(`VerifiedStaysCovered`), what the pull request check admits is covered by approvals
it verified itself (`AdmittedStaysCovered`), and every decision rests on an approval
that was given for it and not replaced since (`DecisionsStandOnApprovals`).

The commands decide from the newest approval of each kind, and ids of rows made in
one moment are random.  So the proofs begin with what the operators return: that the
largest of some ids exists (`LargestExists`, although ids may be negative), and that
the effective approval of a version is one of the rows, as new as any.  The invariant
then says who wrote a row (`Authors`: only humans sign and review on GitHub), what
there can be before and after the commit (`Bundled`: no row names a commit that is not
there yet, and the bundle keeps the rows it was made of), and what a check under way
and the gate of a promotion found (`Judged`).  A later approval, scope or constitution changes what the next decision
finds, never what the last one rested on.

### `ExecutionTaskProofs`

For any number of runners and humans and every fault, types (`TypesAreOK`).  With one
runner and one human, what the human reviews is the worktree that verifier and
evaluator passed, and no run is under way on it, for any number of runs
(`ReviewsStand`).  The hypothesis `OneOfEach` is what the property is about: nothing
is locked, so two runners change the worktree under each other, and so do two humans
(section 5).  It also excludes archives during a run, which no command that follows
the documented gates makes.

`Whereabouts` says that the task is in one directory whose record names it, or marked
and about to be moved (`Leaving`), what of the two commands can see it there
(`AtHome`), and that a move is one that was marked (`Moves`).  `Reviews` says what the
runner knows at each step about the worktree as it is (`Shows`), and that a human who
is about to write back a reviewed state loaded one, which the runner cannot have
started from (`Decides`): a reviewed task is not runnable, so a human's old copy never
meets a new run.

### `CodexBrokerProofs`

For every prescribed sequence of roles, every backlog and any number of commands and
calls: a command passes only with its whole sequence, what was let through is always
a beginning of it, and no command ran without the sandbox it requires
(`BrokerStaysStrict`); nothing is let through after the verdict (`VerdictIsLast`).  `LeftAlone` is the part of the invariant that is not a property:
a command that left answers to nothing, and at the verdict the thread has ended or
its backend is at the last call.

### `ServicesProofs`

The properties of all seven services and all of `DecisionsStay`, as theorems
about the behaviours of `Services`, for any number of commands, rows, studies, tasks,
pids and attempts.  A step of the composition is a step of a component or leaves it
alone (`Steps`), so each invariant is proved about a component's own actions.

* **Measurement** (`VerdictsStayMeasured`).  `MInv` says that every baseline is
  `Sound` (of a commit that exists, and no timeout), that the row a verdict names is
  a row that completed (`Verdict`), and how far the request has come (`Stages`).  It
  is stable for two reasons: commits are only added (`Grows`), so a baseline that was
  fresh for the request's base stays so (`BaseStays`), and only the command of a live
  row writes it (`KeepsRows`), which is why stolen leases do no harm.  Both are
  conclusions of every action's lemma, and the action properties follow from them.
  That a better run is accepted, and that what is no worse passes as many commands,
  are facts about the comparison alone (`BetterIsNoWorse`, `NoWorsePasses`).
  `Watching` is about the active check: the baseline and the candidate's head are those
  it read, its row is the last of the matching ones that had completed then, and
  every later one that has completed since was running then, for `MayMeasure` lets
  none begin meanwhile.
* **Study** (`StudyStaysWhole`, `BranchesStay`).  What a command found before it
  writes (snapshots, a fitting cohort, a branch of its own) is still there when it
  does (`Holds`, `Fitting`, `Builds`); what is left behind belongs to a command at
  work, to one that died or to a copy that failed, and the last stays, because its name
  is refused to every other command (`CleanStudies`, `CleanLines`).
* **Memory** (`MemoryStaysBacked`).  A proposal without text is still being written
  (`Texts`), a digest is never taken back (`Digested`), and what was appended but not
  marked has its approval on the way (`Approving`).
* **Worker** (`WorkerStaysNamed`, `StopStandsAlone`).  `Cornered` says, for the only
  command, whether the worker exists and whether the file names it at each step.
* **Scheduler** (`AttemptsStayGoverned`).  `Chosen`: the only driver's choice, made
  without the lease, is still due when its command runs.  `Reviewed`: the patch under
  review was made by a Writer and, where nobody edits, is still the candidate's,
  because nothing that writes begins while a check is active.
* **Broker** (`ServicesBrokerStaysStrict`).  `CodexBrokerProofs` is instantiated; the
  broker of the composition is its broker (`SameBroker`).
* **Evaluation** (`ReportsStayTrue`).  Nothing here needs induction over the rows: a
  command has done the selected cases that it has not left, and `Counted` says that
  its reports are as many as these and the unusable rows, and those that say pass as
  many as the cases that earned it.  What a case earned cannot change once it is
  done, because its facts are written by its own command while the case is the
  current one (`CaseIs`, `Untouched`).  While commands do not overlap the directory
  lists what its command has done and nothing else (`Lists`), so the diagnosis is
  counted by a bijection between names and rows, which exists unless a case is named
  like a schema error.
* **Types** (`ServicesTypesAreOK`), with the limits that the code sets.  The one that
  takes an argument is the number of checks of a request which only `advance` drives:
  each check is of a patch that a completed run left (`CheckMade`), no patch is checked
  twice in one mode (`CheckedOnce`), and a patch is checked in full only when it is the
  commit, or empty (`FullIsOfHead`), so the checks can be numbered by the runs and two
  more (`ChecksAreFew`).  Each of these holds because what the driver chose without the
  lease is still due when it runs (`StillDue`), which a second driver or a person
  would break.

### Assumptions

The named `ASSUME`s of the modules: the null values are no processes, requests,
patches, rows or records, bounds are numbers, the broker's prescribed roles are a
sequence.  TLC evaluates them in the runs.  `MeasurementAssumption` says more, and
says it of data the code ships or makes: one profile with one contract and one set of
inputs is run in one mode; a run with a harness failure has a command that did not
pass (`capture_baseline`, `service.py` 2977-3015); and each rule bounds its metric on
the side on which it gets worse, with an `absolute` of 0 for the pass rate
(`operator/constitution.yaml` 371-387).  A constitution with, say, a `maximum` on a
metric that is better when higher would refuse better runs, and one that tolerates a
drop of the pass rate would accept fewer passes.
`EvaluationAssumption` says that the rows are a sequence and that the directory of an
unusable row is named by the row's number, so that no two share one (`runner.py`
304-330, 364-371).  `BoundsAssumption` says that the bound on the checks of a request
leaves room for those of one driver, so that it cuts off nothing that the theorems
about one driver are about.

Three theorems have a hypothesis besides: `ConstantsFit` in `CodexBrokerProofs` (which
`BrokerAssumption` of `Services` discharges), `NoTakeover` and `OneOfEach`, which are
explained above; the runs `line_exclusive` and `task` satisfy them.

### What is only model-checked

Liveness (`LeaseComesBack`, `ChecksEnd`, `ComesToRest`, `EveryPartEnds`), which the
prover cannot do.  Every invariant that a run checks is also a theorem.

## 5. Not modelled

* Contents: digests, patches, prompts, logs, artifacts, the SQL schema.  Where a
  digest decides (a candidate that changed, a stale row), the model compares the
  thing itself.
* `Admission` and `RequestLifecycle` take the triage and the creation of the
  request as their initial state.  A stolen lease of a live check is in
  `RequestLifecycle` and `Measurement`.  The two events that end an accepted check are
  one step in `Measurement` and `OperatorScheduler`; `RequestLifecycle` has them apart,
  with what a stolen lease or a crash does between them.
* A failing undo or push of a line always manages to write its reconciliation row, and
  the error paths of `Study` do not fail themselves.  The automatic rollback of a
  canary uses the row that its command has, which the code reads again.  The
  `view.head` that a Writer's application leaves is 0 for "no commit", where the code
  records the base it stands on.
* `Promotion` keeps `auto_rollback_on_canary_failure` at its default; policies and
  lookups that refuse are commands that do not happen.
* The mounts, environment and system call filter of the sandbox: they are a list
  of arguments given to another program, without a state.
* The event log, context, queued feedback and iteration counts of a task of the
  Execution loop, which nothing in the loop decides on except an artifact's name.
* Two human commands at a time on one task: a deployment that runs for minutes
  writes back the record of its start over a run that feedback started
  meanwhile, so `ReviewedIsQuiet` does not hold then.
* In `Evaluation` the builder of datasets, a dataset that cannot be read, and the
  notes on improvements; the task loop, the adapters and the oracles are free.
* Clock ties of integration records (modelled for budget requests): the order of
  writing is kept, and a tie needs two integrations of one line in one second,
  each of which runs the trusted profiles.
* Line and budget are not composed: `integrate_candidate` looks at usage before it
  takes the line lease (`service.py` 2040), so a call may run beside an
  integration; no document promises otherwise.
* The transport of the Codex runtime, configuration parsing, the command line and
  the Gradio apps: no state of their own, and nothing in them waits or retries.

## 6. What could come next

1. The composition of the line and the budget, and ties of integration records.
2. Two human commands at a time on one task.
