------------------------------ MODULE Evaluation ------------------------------
(***************************************************************************)
(* A run of the Eval harness (eval/runner.py, eval/scorers.py and          *)
(* eval/diagnosis.py): it reads a dataset, runs the task loop and the      *)
(* oracle of each selected case below one run directory, and writes the    *)
(* observation and the report of each case, a summary and a diagnosis.     *)
(*                                                                         *)
(* Whatever goes wrong inside a case is a harness error of that case.  The *)
(* task loop, adapters and oracles are free; what a case showed is a set   *)
(* of Shown facts and the oracle's status.                                 *)
(***************************************************************************)
EXTENDS Naturals, Sequences, FiniteSets

CONSTANTS Runs,          \* commands that use one run directory
          Datasets,      \* [rows, selector, faults]; row: [id, fine, patch]
          SchemaErrors,  \* directory name for an unusable row, by its number
          Missing

VARIABLES dataset,
          used,          \* whether the run directory has any file
          observed,      \* observation.yaml, by directory name
          reported,      \* report.yaml, by directory name
          summary, diagnosis,
          facts,         \* what happened, <<<<run, case>>, fact>>
          epc, eloc      \* control and local variables of each command

files == <<used, observed, reported, summary, diagnosis>>
evvars == <<dataset, files, facts, epc, eloc>>

Shown  == {"generated", "verified", "gate"}
Stages == {"case_schema", "harness", "writer", "execution_verifier",
           "execution_evaluator", "oracle", "none"}
Rows   == dataset.rows
Names  == {Rows[i].id : i \in DOMAIN Rows} \cup {SchemaErrors[i] : i \in DOMAIN Rows}

\* The variables of _run_case when it starts.
Blank == [oracle |-> "error", shows |-> {}]

Init ==
  /\ dataset \in Datasets
  /\ used = FALSE /\ summary = Missing /\ diagnosis = Missing /\ facts = {}
  /\ observed = [n \in Names |-> Missing] /\ reported = [n \in Names |-> Missing]
  /\ epc = [p \in Runs |-> "new"]
  /\ eloc = [p \in Runs |-> [row |-> 1, cases |-> {}, reports |-> << >>, seen |-> Blank]]

Goto(p, label) == epc' = [epc EXCEPT ![p] = label]
Fault(f) == f \in dataset.faults

-----------------------------------------------------------------------------
(* score_observation.                                                      *)

\* The first stage that failed.
Stage(row, seen) ==
  CASE seen.oracle = "error"                      -> "harness"
    [] row.patch /\ "generated" \notin seen.shows -> "writer"
    [] "verified" \notin seen.shows               -> "execution_verifier"
    [] "gate" \notin seen.shows                   -> "execution_evaluator"
    [] seen.oracle # "passed"                     -> "oracle"
    [] OTHER                                      -> "none"

-----------------------------------------------------------------------------
(* run_eval up to the first case.                                          *)

Vacant(p) == "overlap" \in dataset.faults
             \/ \A q \in Runs \ {p} : epc[q] \in {"new", "ended"}

\* A directory with files is refused; an empty one is taken over.
Begins(p) ==
  /\ epc[p] = "new" /\ Vacant(p)
  /\ Goto(p, IF used THEN "ended" ELSE "parse")
  /\ UNCHANGED <<dataset, files, facts, eloc>>

\* EvalCase.from_row, and identifiers that an earlier row has.
Rejected(i) ==
  \/ ~ Rows[i].fine
  \/ \E j \in 1 .. i - 1 : Rows[j].fine /\ Rows[j].id = Rows[i].id

Accepted == {i \in DOMAIN Rows : ~ Rejected(i)}
Selected == {i \in Accepted : dataset.selector \in {"all", Rows[i].id}}

Reports(p, name, stage) ==
  reported' = [reported EXCEPT ![name] = [run |-> p, stage |-> stage]]

\* One row of the dataset: a case, or a report of its schema error.
ParseRow(p) ==
  LET i == eloc[p].row IN
  /\ epc[p] = "parse" /\ i <= Len(Rows)
  /\ IF Rejected(i)
     THEN /\ used' = TRUE /\ Reports(p, SchemaErrors[i], "case_schema")
          /\ eloc' = [eloc EXCEPT ![p].row = i + 1,
                                  ![p].reports = Append(@, "case_schema")]
     ELSE /\ eloc' = [eloc EXCEPT ![p].row = i + 1, ![p].cases = @ \cup {i}]
          /\ UNCHANGED <<used, reported>>
  /\ UNCHANGED <<dataset, observed, summary, diagnosis, facts, epc>>

\* Schema errors count whatever was selected; nothing at all raises.
Select(p) ==
  /\ epc[p] = "parse" /\ eloc[p].row > Len(Rows)
  /\ eloc' = [eloc EXCEPT ![p].cases = @ \cap Selected]
  /\ IF eloc'[p].cases = {} /\ eloc[p].reports = << >>
     THEN Goto(p, "ended") /\ UNCHANGED used
     ELSE Goto(p, "cases") /\ used' = TRUE
  /\ UNCHANGED <<dataset, observed, reported, summary, diagnosis, facts>>

-----------------------------------------------------------------------------
(* _run_case.                                                              *)

First(S) == CHOOSE i \in S : \A j \in S : i <= j

\* The cases that are left are run in the order of the dataset.
Current(p) == First(eloc[p].cases)

Case(p) == Rows[Current(p)]

Happened(p, what) == facts' = facts \cup ({<<p, Case(p).id>>} \X what)

\* (mutated) the handler takes over what the oracle said
Spoiled_KeepsOracle(seen) == seen

\* What the handler of _run_case observes.
Spoiled(seen) == [seen EXCEPT !.oracle = "error"]

OpenCase(p) ==
  /\ epc[p] = "cases" /\ eloc[p].cases # {}
  /\ eloc' = [eloc EXCEPT ![p].seen = Blank]
  /\ Goto(p, "execute")
  /\ UNCHANGED <<dataset, files, facts>>

\* Adapter, isolated checkout, configuration and task loop come to their end.
Execute(p, shows) ==
  /\ epc[p] = "execute"
  /\ eloc' = [eloc EXCEPT ![p].seen.shows = shows]
  /\ Happened(p, shows)
  /\ Goto(p, "oracle")
  /\ UNCHANGED <<dataset, files>>

\* The adapter verifies the worktree that the task left.
Judge(p, status) ==
  /\ epc[p] = "oracle"
  /\ eloc' = [eloc EXCEPT ![p].seen.oracle = status]
  /\ Happened(p, {status})
  /\ Goto(p, "observe")
  /\ UNCHANGED <<dataset, files>>

\* An exception in the case, also when its results cannot be written.
CaseRaises(p) ==
  /\ \/ epc[p] \in {"execute", "oracle"}
     \/ epc[p] \in {"observe", "report"} /\ Fault("io")
  /\ eloc' = [eloc EXCEPT ![p].seen = Spoiled(@)]
  /\ Happened(p, {"raised"})
  /\ Goto(p, "handled")
  /\ UNCHANGED <<dataset, files>>

\* _write_case_report, first the observation.
Observe(p) ==
  /\ epc[p] \in {"observe", "handled"}
  /\ observed' = [observed EXCEPT ![Case(p).id] =
                    [run |-> p, seen |-> eloc[p].seen]]
  /\ Goto(p, IF epc[p] = "observe" THEN "report" ELSE "last_report")
  /\ UNCHANGED <<dataset, used, reported, summary, diagnosis, facts, eloc>>

WriteReport(p) ==
  LET stage == Stage(Case(p), eloc[p].seen) IN
  /\ epc[p] \in {"report", "last_report"}
  /\ Reports(p, Case(p).id, stage)
  /\ eloc' = [eloc EXCEPT ![p].reports = Append(@, stage), ![p].cases = @ \ {Current(p)}]
  /\ Goto(p, "cases")
  /\ UNCHANGED <<dataset, used, observed, summary, diagnosis, facts>>

-----------------------------------------------------------------------------
(* The end of run_eval.                                                    *)

\* summary.yaml counts the reports of the run.
Summarise(p) ==
  LET reports == eloc[p].reports IN
  /\ epc[p] = "cases" /\ eloc[p].cases = {}
  /\ summary' = [run |-> p, count |-> Len(reports),
                 passed |-> Cardinality({k \in DOMAIN reports : reports[k] = "none"})]
  /\ Goto(p, "diagnose")
  /\ UNCHANGED <<dataset, used, observed, reported, diagnosis, facts, eloc>>

\* diagnose_run reads the reports that are in the directory.
Diagnose(p) ==
  /\ epc[p] = "diagnose"
  /\ diagnosis' = {n \in Names : reported[n] # Missing /\ reported[n].stage # "none"}
  /\ Goto(p, "ended")
  /\ UNCHANGED <<dataset, used, observed, reported, summary, facts, eloc>>

Dies(p) ==
  /\ Fault("crash") /\ epc[p] \notin {"new", "ended"}
  /\ Goto(p, "ended")
  /\ UNCHANGED <<dataset, files, facts, eloc>>

Next ==
  \E p \in Runs :
    \/ Begins(p) \/ ParseRow(p) \/ Select(p) \/ OpenCase(p)
    \/ \E shows \in SUBSET Shown : ("gate" \in shows => "verified" \in shows)
                                   /\ Execute(p, shows)
    \/ \E status \in {"passed", "failed", "error"} : Judge(p, status)
    \/ CaseRaises(p) \/ Observe(p) \/ WriteReport(p)
    \/ Summarise(p) \/ Diagnose(p) \/ Dies(p)

Spec == Init /\ [][Next]_evvars

-----------------------------------------------------------------------------
(* Every value stays in its type; the type invariant of the module.        *)
TypeOK ==
  /\ dataset \in Datasets /\ used \in BOOLEAN
  /\ \A n \in Names :
       /\ reported[n] # Missing =>
            used /\ reported[n].run \in Runs /\ reported[n].stage \in Stages
       /\ observed[n] # Missing => observed[n].run \in Runs
  /\ diagnosis # Missing => diagnosis \subseteq Names
  /\ \A p \in Runs :
       /\ epc[p] \in {"new", "parse", "cases", "execute", "oracle", "observe",
                      "handled", "report", "last_report", "diagnose", "ended"}
       /\ epc[p] = "execute" => eloc[p].seen = Blank
       /\ Len(eloc[p].reports) <= Len(Rows)

Happens(p, i, what) == \A w \in what : <<<<p, Rows[i].id>>, w>> \in facts

\* What run p should call passed.
Earned(p, i) ==
  /\ Happens(p, i, {"verified", "gate", "passed"})
  /\ Rows[i].patch => Happens(p, i, {"generated"})
  /\ ~ Happens(p, i, {"raised"})

(* A report that says pass stands for a case in which the task's verifier, *)
(* its evaluator and the oracle agreed, there was a patch if one is due,   *)
(* and nothing raised, not even after the oracle (_run_case).              *)
PassIsEarned ==
  \A n \in Names :
    reported[n] # Missing /\ reported[n].stage = "none" =>
      \E i \in Accepted : Rows[i].id = n /\ Earned(reported[n].run, i)

(* The summary counts each selected case and each unusable row once, and   *)
(* as passed exactly the cases that earned it, whatever other commands do  *)
(* in the directory (run_eval).                                            *)
SummaryIsTrue ==
  summary # Missing =>
    /\ summary.count = Cardinality(DOMAIN Rows \ Accepted) + Cardinality(Selected)
    /\ summary.passed = Cardinality({i \in Selected : Earned(summary.run, i)})

(* A run directory has the reports of one run, also when the first one     *)
(* died and was started again; commands that overlap are not kept apart    *)
(* (the check of the directory in run_eval).                               *)
OneRunPerDirectory ==
  ~ Fault("overlap") =>
    \A m, n \in Names :
      reported[m] # Missing /\ reported[n] # Missing => reported[m].run = reported[n].run

\* A case has the name of the directory of another row's schema error.
NamesClash == \E i \in Accepted, j \in DOMAIN Rows \ Accepted :
                Rows[i].id = SchemaErrors[j]

(* The diagnosis, which is made from the directory, names as many cases as *)
(* the summary, which is made from memory, counts as not passed; only a    *)
(* case named like a schema error hides one (diagnose_run, run_eval).      *)
DiagnosisIsComplete ==
  diagnosis # Missing /\ ~ Fault("overlap") /\ ~ NamesClash =>
    Cardinality(diagnosis) = summary.count - summary.passed

(* Scoring a directory again from its observations, whenever that is done, *)
(* says the same as the reports that are there, unless commands overlap or *)
(* a case is named like a schema error (score_path).                       *)
RescoreAgrees ==
  ~ Fault("overlap") =>
    \A i \in Accepted :
      LET n == Rows[i].id IN
      /\ observed[n] # Missing /\ reported[n] # Missing
      /\ ~ NamesClash
      => reported[n].stage = Stage(Rows[i], observed[n].seen)
=============================================================================
