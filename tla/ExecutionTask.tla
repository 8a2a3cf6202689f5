--------------------------- MODULE ExecutionTask ---------------------------
(***************************************************************************)
(* One task of the Execution loop: the runner that drives Writer, verifier *)
(* and evaluator (runner.py), the commands of the human (service.py), and  *)
(* the directories the task lives in (task_store.py).                      *)
(*                                                                         *)
(* Nothing is locked.  Every command loads task.yaml, works on its copy of *)
(* the record and writes the whole of it back.  A task directory is looked *)
(* up by its name, first among the active tasks, then in the archive.      *)
(*                                                                         *)
(* The worktree's content is the number of Writer runs that changed it.    *)
(* The verifier's and the evaluator's verdicts are free; iteration counts, *)
(* queued feedback, context and the event log are left out.                *)
(***************************************************************************)
EXTENDS Naturals, FiniteSets

CONSTANTS Runners,   \* the worker, or `autobugfix run` commands
          Humans,    \* other commands that may run at the same time
          Results,   \* what --result may be given to archive
          MaxRuns,   \* bound on the Writer runs
          Regimes,   \* what a behaviour is allowed, see regime
          NoRecord   \* a directory without task.yaml

VARIABLES regime,     \* chosen once: whether tasks are archived, and the faults;
                      \* "overlap" lets a human command start during a run
          home,       \* the task's directories: the active one and the archives
          content,    \* of the task worktree
          evidence,   \* test-result.md, diff.patch and the evaluator's verdict
          pc, loc     \* where each command is, and what it remembers

vars == <<regime, home, content, evidence, pc, loc>>

Procs    == Runners \cup Humans
Places   == {"active"} \cup Results
Runnable == {"ready", "feedback_available", "writer_rework_required"}
InFlight == {"writing", "verifying", "evaluating"}
Reviewed == {"waiting_human_ppe_approval", "ppe_approved", "ppe_deployed", "accepted"}

States == Runnable \cup InFlight \cup Reviewed \cup
          {"blocked", "paused", "abandoned", "archived"}
Records == [state : States, result : Results \cup {"none"}]

ASSUME TaskAssumption ==
  /\ Runners \cap Humans = {}
  /\ "active" \notin Results /\ "none" \notin Results
  /\ MaxRuns \in Nat /\ NoRecord \notin Records
  /\ Regimes \subseteq [faults : SUBSET {"raise", "crash", "overlap"}, archives : BOOLEAN]

Absent == [dir |-> "none", rec |-> NoRecord]
Nothing == [rec |-> NoRecord, place |-> "active", next |-> "none",
            tested |-> 0, passed |-> FALSE]

\* create_task: the directory with its subdirectories, and a ready record.
Init ==
  /\ regime \in Regimes
  /\ home = [x \in Places |->
       IF x = "active"
       THEN [dir |-> "full", rec |-> [state |-> "ready", result |-> "none"]]
       ELSE Absent]
  /\ content = 0
  /\ evidence = [tested |-> 0, passed |-> FALSE, diff |-> 0, reviewed |-> 0]
  /\ pc = [p \in Procs |-> "idle"] /\ loc = [p \in Procs |-> Nothing]

-----------------------------------------------------------------------------
(* The store.                                                              *)

\* find_task_dir: the active directory if there is one, else one of the
\* archived task.yaml files.
Found(h) == IF h["active"].dir # "none" THEN {"active"}
            ELSE {r \in Results : h[r].rec # NoRecord}

\* The records that load may return.
Loads == {h \in {home[x].rec : x \in Found(home)} : h # NoRecord}

\* save: the record goes where its own archived_path says; a directory that
\* is missing is made, without its subdirectories.
Place(rec) == IF rec.result = "none" THEN "active" ELSE rec.result

Kept(dir) == IF dir = "none" THEN "bare" ELSE dir

\* (mutated) the directory is taken to exist
Saved_NoMkdir(rec) == [home EXCEPT ![Place(rec)] = [dir |-> @.dir, rec |-> rec]]

Saved(rec) == [home EXCEPT ![Place(rec)] = [dir |-> Kept(@.dir), rec |-> rec]]

Goto(p, label, memory) ==
  /\ pc' = [pc EXCEPT ![p] = label]
  /\ loc' = [loc EXCEPT ![p] = memory]

\* The command returns or raises.
Finish(p) == Goto(p, "idle", Nothing)

-----------------------------------------------------------------------------
(* TaskRunner.run.                                                         *)

\* The worker's tick, or a run command, finds the task runnable.
Run(r) ==
  /\ pc[r] = "idle" /\ content < MaxRuns
  /\ \E rec \in Loads :
       /\ rec.state \in Runnable
       /\ Goto(r, "save", [Nothing EXCEPT !.rec = rec, !.next = "writing"])
  /\ UNCHANGED <<home, content, evidence>>

\* _save_state writes the runner's own copy with the next state.
SaveState(r) ==
  /\ pc[r] = "save"
  /\ LET rec == [loc[r].rec EXCEPT !.state = loc[r].next]
     IN /\ home' = Saved(rec)
        /\ \E place \in Found(home') :
             CASE loc[r].next = "writing" ->
                    Goto(r, "writer", [loc[r] EXCEPT !.rec = rec, !.place = place])
               [] loc[r].next = "verifying"  -> Goto(r, "verify", [loc[r] EXCEPT !.rec = rec])
               [] loc[r].next = "evaluating" -> Goto(r, "evaluate", [loc[r] EXCEPT !.rec = rec])
               [] OTHER                      -> Finish(r)
  /\ UNCHANGED <<content, evidence>>

\* runs/ is missing when the directory was moved away meanwhile.
HasRuns(r) == home[loc[r].place].dir = "full"

WriterReturns(r) ==
  /\ pc[r] = "writer" /\ content < MaxRuns
  /\ content' = content + 1
  /\ IF HasRuns(r)
     THEN Goto(r, "save", [loc[r] EXCEPT !.next = "verifying"])
     ELSE Finish(r)
  /\ UNCHANGED <<home, evidence>>

Verify(r, passed) ==
  /\ pc[r] = "verify"
  /\ Goto(r, "evidence", [loc[r] EXCEPT !.tested = content, !.passed = passed])
  /\ UNCHANGED <<home, content, evidence>>

\* (mutated) the verifier's exit code is not looked at
Verdict_Ignored(r) == "evaluating"

Verdict(r) == IF loc[r].passed THEN "evaluating" ELSE "writer_rework_required"

\* test-result.md and diff.patch.
SaveEvidence(r) ==
  /\ pc[r] = "evidence"
  /\ home' = [home EXCEPT ![loc[r].place] = [dir |-> Kept(@.dir), rec |-> @.rec]]
  /\ evidence' = [evidence EXCEPT !.tested = loc[r].tested, !.passed = loc[r].passed,
                                  !.diff = content]
  /\ Goto(r, "save", [loc[r] EXCEPT !.next = Verdict(r)])
  /\ UNCHANGED <<content>>

\* (mutated) a run whose evaluator asks for changes ends without a word
Evaluate_ForgetsChanges(r, decision) ==
  /\ pc[r] = "evaluate"
  /\ evidence' = IF decision = "pass" THEN [evidence EXCEPT !.reviewed = loc[r].tested]
                 ELSE evidence
  /\ IF HasRuns(r) /\ decision # "needs_changes"
     THEN Goto(r, "save", [loc[r] EXCEPT !.next =
            IF decision = "pass" THEN "waiting_human_ppe_approval" ELSE "blocked"])
     ELSE Finish(r)
  /\ UNCHANGED <<home, content>>

Evaluate(r, decision) ==
  /\ pc[r] = "evaluate"
  /\ evidence' = IF decision = "pass" THEN [evidence EXCEPT !.reviewed = loc[r].tested]
                 ELSE evidence
  /\ IF HasRuns(r)
     THEN Goto(r, "save", [loc[r] EXCEPT !.next =
            CASE decision = "pass"    -> "waiting_human_ppe_approval"
              [] decision = "blocked" -> "blocked"
              [] OTHER                -> "writer_rework_required"])
     ELSE Finish(r)
  /\ UNCHANGED <<home, content>>

-----------------------------------------------------------------------------
(* Commands of the human.                                                  *)

Ready(h) ==
  /\ pc[h] = "idle"
  /\ "overlap" \in regime.faults \/ \A r \in Runners : pc[r] = "idle"

\* The command has loaded rec and will write it back.
Holds(h, rec) == Goto(h, "write", [Nothing EXCEPT !.rec = rec])

AddFeedback(h) ==
  /\ Ready(h)
  /\ \E rec \in Loads : Holds(h, [rec EXCEPT !.state = "feedback_available"])
  /\ UNCHANGED <<home, content, evidence>>

Allows(action, state) ==
  CASE action = "approve-ppe" -> state = "waiting_human_ppe_approval"
    [] action = "accepted"    -> state \in Reviewed \ {"accepted"}
    [] action = "resume"      -> state = "paused"
    [] OTHER                  -> TRUE

Target == [x \in {"approve-ppe", "accepted", "abandoned", "pause", "resume"} |->
  CASE x = "approve-ppe" -> "ppe_approved"
    [] x = "pause"       -> "paused"
    [] x = "resume"      -> "ready"
    [] OTHER             -> x]

ApplyGate(h, action) ==
  /\ Ready(h)
  /\ \E rec \in Loads :
       /\ Allows(action, rec.state)
       /\ Holds(h, [rec EXCEPT !.state = Target[action]])
  /\ UNCHANGED <<home, content, evidence>>

\* deploy_ppe loads the record, runs the command of the repository, and
\* writes the record when it is done.
DeployPpe(h) ==
  /\ Ready(h)
  /\ \E rec \in Loads :
       /\ rec.state = "ppe_approved"
       /\ Goto(h, "deploy", [Nothing EXCEPT !.rec = rec])
  /\ UNCHANGED <<home, content, evidence>>

Deployed(h, outcome) ==
  /\ pc[h] = "deploy"
  /\ Holds(h, [loc[h].rec EXCEPT !.state = outcome])
  /\ UNCHANGED <<home, content, evidence>>

Write(h) ==
  /\ pc[h] = "write"
  /\ home' = Saved(loc[h].rec)
  /\ Finish(h)
  /\ UNCHANGED <<content, evidence>>

Archive(h, result) ==
  /\ regime.archives /\ Ready(h)
  /\ \E rec \in Loads : rec.state \in {"accepted", "abandoned", "blocked", "paused"}
  /\ Goto(h, "mark", [Nothing EXCEPT !.place = result])
  /\ UNCHANGED <<home, content, evidence>>

\* The record is loaded again and marked in the active directory.
ArchiveMark(h) ==
  /\ pc[h] = "mark"
  /\ IF home["active"].rec # NoRecord /\ home[loc[h].place].dir = "none"
     THEN /\ home' = [home EXCEPT !["active"].rec.state = "archived",
                                  !["active"].rec.result = loc[h].place]
          /\ Goto(h, "move", loc[h])
     ELSE Finish(h) /\ UNCHANGED home
  /\ UNCHANGED <<content, evidence>>

\* shutil.move; into a directory that exists meanwhile it moves below it.
ArchiveMove(h) ==
  /\ pc[h] = "move"
  /\ home' = [x \in Places |->
       IF x = "active" THEN Absent
       ELSE IF x = loc[h].place /\ home[x].dir = "none" THEN home["active"]
       ELSE home[x]]
  /\ Finish(h)
  /\ UNCHANGED <<content, evidence>>

-----------------------------------------------------------------------------
(* Faults.                                                                 *)

\* The backend of the Writer or of the evaluator raises; nothing catches it.
BackendRaises(r) ==
  /\ "raise" \in regime.faults /\ pc[r] \in {"writer", "evaluate"}
  /\ content' = IF pc[r] = "writer" /\ content < MaxRuns THEN content + 1 ELSE content
  /\ Finish(r)
  /\ UNCHANGED <<home, evidence>>

Crash(p) ==
  /\ "crash" \in regime.faults /\ pc[p] # "idle"
  /\ Finish(p)
  /\ UNCHANGED <<home, content, evidence>>

RunnerStep(r) ==
  /\ \/ SaveState(r) \/ WriterReturns(r) \/ SaveEvidence(r)
     \/ \E passed \in BOOLEAN : Verify(r, passed)
     \/ \E decision \in {"pass", "needs_changes", "blocked"} : Evaluate(r, decision)
  /\ UNCHANGED regime

HumanStep(h) ==
  \/ \E outcome \in {"ppe_deployed", "blocked"} : Deployed(h, outcome)
  \/ Write(h) \/ ArchiveMark(h) \/ ArchiveMove(h)

Command(h) ==
  \/ AddFeedback(h)
  \/ \E action \in DOMAIN Target : ApplyGate(h, action)
  \/ DeployPpe(h)
  \/ \E result \in Results : Archive(h, result)

Next ==
  /\ \/ \E r \in Runners : Run(r) \/ RunnerStep(r) \/ BackendRaises(r)
     \/ \E h \in Humans : Command(h) \/ HumanStep(h)
     \/ \E p \in Procs : Crash(p)
  /\ UNCHANGED regime

Spec == Init /\ [][Next]_vars

\* A run that started goes on: backends and the verifier have timeouts.
FairSpec == Spec /\ \A r \in Runners : WF_vars(RunnerStep(r))

-----------------------------------------------------------------------------
(* Properties.                                                             *)

\* Every directory is absent or as the store can leave it, and every command
\* remembers a record of the task.
TypeOK ==
  /\ home \in [Places -> [dir : {"none", "bare", "full"}, rec : Records \cup {NoRecord}]]
  /\ \A x \in Places : home[x].dir = "none" => home[x].rec = NoRecord
  /\ content \in 0 .. MaxRuns
  /\ evidence \in [tested : 0 .. MaxRuns, passed : BOOLEAN, diff : 0 .. MaxRuns,
                   reviewed : 0 .. MaxRuns]
  /\ pc \in [Procs -> {"idle", "save", "writer", "verify", "evidence", "evaluate",
                       "write", "deploy", "mark", "move"}]
  /\ loc \in [Procs -> [rec : Records \cup {NoRecord}, place : Places,
                        next : States \cup {"none"}, tested : 0 .. MaxRuns,
                        passed : BOOLEAN]]

Shown == {rec \in Loads : rec.state \in Reviewed}

\* What the human is asked to review, approves, deploys or accepts is the
\* worktree as it is: the verifier passed on it, diff.patch shows it and the
\* evaluator passed that diff, however commands and the run overlapped.
ReviewedIsVerified ==
  Shown # {} =>
    /\ evidence.passed
    /\ evidence.tested = content /\ evidence.diff = content /\ evidence.reviewed = content

\* No run is under way on a task that the human reviews, so nothing changes
\* the worktree between the review and the acceptance.
ReviewedIsQuiet ==
  Shown # {} => \A r \in Runners : pc[r] = "idle"

\* What the human reviews is verified, and nothing changes it meanwhile.
ReviewStands == ReviewedIsVerified /\ ReviewedIsQuiet

\* "Human gate owns PPE approval, acceptance, and archive"
\* (autobugfix-loop-harness-contract.md): a run never takes a task out of a
\* state that models.py lists as terminal.
RunLeavesTerminal ==
  [][\A r \in Runners, old \in Loads :
       /\ pc[r] # pc'[r]
       /\ old.state \in {"accepted", "abandoned", "archived"}
       => \A new \in Loads' : new.state \in {"accepted", "abandoned", "archived"}]_vars

\* "repeatedly drives an isolated Codex Writer ... until the task reaches a
\* reproducible outcome" (README.md): no task stays in the middle of a run,
\* unless a backend raised or a command died.
ComesToRest ==
  regime.faults \subseteq {"overlap"} /\ (\E rec \in Loads : rec.state \in InFlight) ~>
  (\A rec \in Loads : rec.state \notin InFlight)
=============================================================================
