----------------------------- MODULE MCServices -----------------------------
(***************************************************************************)
(* Model checking of the seven services on small instances.                *)
(***************************************************************************)
EXTENDS Services

CONSTANTS p1, p2, s1, s2

(* Three profiles, one of them strict and one with other inputs; of the    *)
(* outcomes one is better than another and one is a timeout with its loss. *)
Rule(better, absolute, percent, from, minimum) ==
  [better |-> better, absolute |-> absolute, percent |-> percent, from |-> from,
   minimum |-> minimum, maximum |-> Unset]
MCRules == [pass_rate             |-> Rule("higher", 0, Unset, 0, Unset),
            artifact_completeness |-> Rule("higher", Unset, Unset, 0, 2),
            runtime_seconds       |-> Rule("lower", Unset, 20, 5, Unset),
            codex_calls           |-> Rule("lower", Unset, 25, 0, Unset)]
Setup(contr, inputs, mode) ==
  [profile |-> "e2e", contract |-> contr, inputs |-> inputs, mode |-> mode]
Outcome(passes, harness, lost, time) ==
  [passes |-> passes, harness |-> harness, lost |-> lost, time |-> time]

MCSetups   == {Setup(1, "x", "measure"), Setup(2, "x", "strict"), Setup(1, "y", "measure")}
MCOutcomes == {Outcome(2, FALSE, 0, 10), Outcome(1, FALSE, 0, 10),
               Outcome(1, TRUE, 1, 13)}

(* Two studies of one cohort; overlapping commands are about one study.    *)
MCStudyRegimes == {[faults |-> {"crash", "overlap"}, studies |-> {s1}, procs |-> {p1, p2}],
                   [faults |-> {"io"}, studies |-> {s1, s2}, procs |-> {p1}]}

(* A sequence with a repeated role; the cfg allows more calls than it has. *)
MCRequired == <<"writer", "evaluator", "writer">>

(* Two tasks for the order of the worker, one for commands that overlap.   *)
MCMemoryRegimes == {[faults |-> {}, tasks |-> 2, procs |-> {p1}],
                    [faults |-> {"crash"}, tasks |-> 1, procs |-> {p1}],
                    [faults |-> {"overlap"}, tasks |-> 1, procs |-> {p1, p2}]}

MCWorkerRegimes == {{}, {"overlap"}, {"crash"}}

(* The bounds of the cfg are enough for all the attempts of one driver.    *)
MCSchedulerRegimes == {{}, {"crash"}, {"two"}, {"human"}}

(* A row that is not usable, a second row of one name, a selection, and a  *)
(* case that is named like the schema error of another row.                *)
Row(id, fine, due) == [id |-> id, fine |-> fine, patch |-> due]
Dataset(rows, selector, faults) ==
  [rows |-> rows, selector |-> selector, faults |-> faults]

MCSchemaErrors == <<"e1", "e2", "e3">>
MCDatasets == {
  Dataset(<<Row("a", TRUE, TRUE), Row("b", TRUE, FALSE)>>, "all", {"io"}),
  Dataset(<<Row("a", TRUE, TRUE), Row("b", FALSE, TRUE), Row("a", TRUE, TRUE)>>,
          "all", {"crash"}),
  Dataset(<<Row("a", TRUE, TRUE), Row("b", TRUE, TRUE), Row("c", FALSE, TRUE)>>,
          "b", {"crash"}),
  Dataset(<<Row("e2", TRUE, TRUE), Row("b", FALSE, TRUE)>>, "all", {}),
  Dataset(<<Row("a", TRUE, TRUE)>>, "b", {}),
  Dataset(<<Row("a", TRUE, TRUE)>>, "all", {"overlap"})}

(* The regimes of the components that rest are of no account.              *)
Resting ==
  /\ part # "measurement" => contract = 1
  /\ part # "study" => regime.faults = {"io"}
  /\ part # "broker" => plan = [broker |-> TRUE, commands |-> 1, required |-> TRUE,
                                inherited |-> FALSE, bubblewrap |-> TRUE]
  /\ part # "memory" => mregime.faults = {}
  /\ part # "worker" => wregime = {}
  /\ part # "scheduler" => oregime = {} /\ needs /\ ocalls = 1
  /\ "two" \in oregime => needs /\ ocalls # 1
  /\ part # "eval" => dataset.selector = "b" /\ dataset.faults = {}

MCInit == Init /\ Resting

MCFair == /\ WF_(B!cbvars)(part = "broker" /\ B!Fair)
          /\ WF_(N!mmvars)(part = "memory" /\ N!Tick)
          /\ WF_(O!osvars)(part = "scheduler" /\ O!Fair)

MCSpec == MCInit /\ [][Next]_vars /\ MCFair
=============================================================================
