----------------------------- MODULE CodexBroker -----------------------------
(***************************************************************************)
(* The commands of a validation or experiment profile, each in a sandbox   *)
(* (_run_command of operator/validator.py), and the Codex broker: a thread *)
(* of the harness that makes the Codex calls of the sandboxed command,     *)
(* one after the other and in the order the profile prescribes.            *)
(*                                                                         *)
(* A call is a connection.  The sandboxed side gives up on it when its     *)
(* socket times out, and all of it dies with the command; the thread does  *)
(* not notice before it answers, and an answer to nobody ends it.  What    *)
(* the mounts and the environment of the sandbox contain is left out.      *)
(***************************************************************************)
EXTENDS Naturals, Sequences

CONSTANTS Roles,
          Required,     \* required_role_sequence
          Backlog,      \* connections that wait; listen(1) lets two of them in
          MaxCommands, MaxCalls,   \* bounds
          NoCall

VARIABLES plan,         \* the profile, and where the harness runs
          phase,        \* of the harness
          exit,         \* exit code of the current command
          results,      \* of the commands that ended
          thread, serving, queue, stop,
          accepted,     \* roles whose calls were let through
          calls         \* connections so far

cbvars == <<plan, phase, exit, results, thread, serving, queue, stop, accepted, calls>>
talk   == <<thread, serving, queue, stop, accepted, calls>>

Plans == [broker : BOOLEAN, commands : 1 .. MaxCommands, required : BOOLEAN,
          inherited : BOOLEAN, bubblewrap : BOOLEAN]

Init == /\ plan \in Plans
        /\ phase = "next" /\ exit = 126 /\ results = << >>
        /\ thread = "none" /\ serving = NoCall /\ queue = << >> /\ stop = FALSE
        /\ accepted = << >> /\ calls = 0

-----------------------------------------------------------------------------
(* The harness.                                                            *)

\* One command for a broker, which wants a sandbox of its own, and a sandbox
\* whenever it is required.
Refused(s) ==
  \/ s.broker /\ (s.commands # 1 \/ s.inherited \/ ~ s.bubblewrap)
  \/ s.required /\ ~ s.inherited /\ ~ s.bubblewrap

Refuse ==
  /\ phase = "next" /\ Len(results) < plan.commands
  /\ Refused(plan)
  /\ phase' = "refused"
  /\ UNCHANGED <<plan, exit, results, talk>>

\* The socket is bound and the thread started before the command.
Begin ==
  /\ phase = "next" /\ Len(results) < plan.commands
  /\ ~ Refused(plan)
  /\ phase' = "running" /\ exit' = 126
  /\ thread' = IF plan.broker THEN "idle" ELSE "none"
  /\ UNCHANGED <<plan, results, serving, queue, stop, accepted, calls>>

\* No host credentials, or the socket or artifacts are in the way.
OpenFails ==
  /\ phase = "next" /\ Len(results) < plan.commands
  /\ ~ Refused(plan) /\ plan.broker
  /\ phase' = "verdict" /\ exit' = 126
  /\ UNCHANGED <<plan, results, talk>>

Deserted(c) == IF c = NoCall THEN NoCall ELSE [c EXCEPT !.there = FALSE]

\* The command exits with code, or is killed at its timeout with 124; the
\* processes it had started end with the sandbox.
Leaves(code) ==
  /\ phase = "running"
  /\ phase' = "closing" /\ exit' = code
  /\ queue' = [i \in DOMAIN queue |-> Deserted(queue[i])]
  /\ serving' = Deserted(serving)
  /\ UNCHANGED <<plan, results, thread, stop, accepted, calls>>

CommandExits(code) == Leaves(code)
CommandTimesOut    == Leaves(124)

\* __exit__: the event, and the socket with everybody who waits at it.
Close ==
  /\ phase = "closing"
  /\ phase' = IF plan.broker THEN "joining" ELSE "verdict"
  /\ stop' = plan.broker
  /\ queue' = << >>
  /\ UNCHANGED <<plan, exit, results, thread, serving, accepted, calls>>

Join ==
  /\ phase = "joining" /\ thread = "ended"
  /\ phase' = "verdict"
  /\ UNCHANGED <<plan, exit, results, talk>>

\* (mutated) join without a timeout
JoinExpires_Never == FALSE /\ UNCHANGED cbvars

\* The backend is still busy; __exit__ raises, the exit code stays.
JoinExpires ==
  /\ phase = "joining" /\ thread = "busy"
  /\ phase' = "verdict"
  /\ UNCHANGED <<plan, exit, results, talk>>

\* (mutated) the exit code of the command decides
Final_Unchecked(code) == code

\* completion_error counts only against a command that succeeded.
Final(code) ==
  IF plan.broker /\ code = 0 /\ accepted # Required THEN 125 ELSE code

Verdict ==
  /\ phase = "verdict"
  /\ results' = Append(results, Final(exit))
  /\ phase' = "next"
  /\ UNCHANGED <<plan, exit, talk>>

-----------------------------------------------------------------------------
(* The calls (_call_broker in the sandbox, _handle in the thread).         *)

\* fine: a request that passes all the checks but the sequence.
Connect(role, fine) ==
  /\ phase = "running" /\ plan.broker
  /\ calls < MaxCalls /\ Len(queue) < Backlog
  /\ calls' = calls + 1
  /\ queue' = Append(queue, [role |-> role, fine |-> fine, there |-> TRUE])
  /\ UNCHANGED <<plan, phase, exit, results, thread, serving, stop, accepted>>

\* The sandboxed side stops waiting for the answer.
GiveUp ==
  /\ phase = "running"
  /\ \/ \E i \in DOMAIN queue :
          /\ queue[i].there
          /\ queue' = [queue EXCEPT ![i] = Deserted(@)]
          /\ UNCHANGED serving
     \/ /\ serving # NoCall /\ serving.there
        /\ serving' = Deserted(serving)
        /\ UNCHANGED queue
  /\ UNCHANGED <<plan, phase, exit, results, thread, stop, accepted, calls>>

Accept ==
  /\ thread = "idle" /\ ~ stop /\ queue # << >>
  /\ serving' = Head(queue) /\ queue' = Tail(queue)
  /\ thread' = "reading"
  /\ UNCHANGED <<plan, phase, exit, results, stop, accepted, calls>>

InTurn(c) ==
  c.fine /\ Len(accepted) < Len(Required) /\ Required[Len(accepted) + 1] = c.role

\* The answer is written outside of the try: without a reader it ends the
\* thread, and the socket stays open.
Answers ==
  /\ thread' = IF serving.there THEN "idle" ELSE IF stop THEN "ended" ELSE "dead"
  /\ serving' = NoCall

\* The call counts as soon as it is let through, before the backend runs.
Handle ==
  /\ thread = "reading"
  /\ IF InTurn(serving)
     THEN /\ accepted' = Append(accepted, serving.role)
          /\ thread' = "busy" /\ UNCHANGED serving
     ELSE Answers /\ UNCHANGED accepted
  /\ UNCHANGED <<plan, phase, exit, results, queue, stop, calls>>

\* With a result or an exception, either is an answer.
BackendReturns ==
  /\ thread = "busy"
  /\ Answers
  /\ UNCHANGED <<plan, phase, exit, results, queue, stop, accepted, calls>>

ThreadStops ==
  /\ stop /\ thread \in {"idle", "dead"}
  /\ thread' = "ended"
  /\ UNCHANGED <<plan, phase, exit, results, serving, queue, stop, accepted, calls>>

Harness == Refuse \/ Begin \/ OpenFails \/ Close \/ Join \/ JoinExpires \/ Verdict
Thread  == Accept \/ Handle \/ BackendReturns \/ ThreadStops
Command == \/ \E code \in {0, 1} : CommandExits(code)
           \/ CommandTimesOut \/ GiveUp
           \/ \E role \in Roles, fine \in BOOLEAN : Connect(role, fine)

Next == Harness \/ Thread \/ Command

\* What goes on by itself: the harness, its timeout for the command, and the
\* thread except for the backend and a caller that does not send.
Fair == \/ Refuse \/ Begin \/ Close \/ Join \/ JoinExpires \/ Verdict
        \/ CommandTimesOut \/ ThreadStops
        \/ phase # "running" /\ Handle

Spec == Init /\ [][Next]_cbvars /\ WF_cbvars(Fair)

-----------------------------------------------------------------------------
Ran  == results # << >> \/ phase \notin {"next", "refused"}
Over == \/ phase = "refused"
        \/ phase = "next" /\ Len(results) = plan.commands

(* Every value stays in its type; the type invariant of the module.        *)
TypeOK ==
  /\ plan \in Plans /\ exit \in {0, 1, 124, 126}
  /\ phase \in {"next", "refused", "running", "closing", "joining", "verdict"}
  /\ thread \in {"none", "idle", "reading", "busy", "dead", "ended"}
  /\ serving # NoCall <=> thread \in {"reading", "busy"}
  /\ \A i \in DOMAIN results : results[i] \in {0, 1, 124, 125, 126}
  /\ Len(queue) <= Backlog /\ Len(results) <= plan.commands

(* A command passes only when all the calls its profile prescribes were    *)
(* let through in that order; a thread that died, a backend that still     *)
(* runs or a refused call cannot make up for one (completion_error).       *)
PassedUsedTheWholeSequence ==
  plan.broker => \A i \in DOMAIN results : results[i] = 0 => accepted = Required

(* What was let through is at any time a beginning of that sequence, also  *)
(* when calls are abandoned, retried or sent at the same time.             *)
CallsAreInOrder ==
  /\ Len(accepted) <= Len(Required)
  /\ accepted = SubSeq(Required, 1, Len(accepted))

(* Whatever the host has, a command that requires a sandbox is not run     *)
(* without, and a broker only serves a sandbox that the harness made.      *)
SandboxIsThere ==
  /\ Ran /\ plan.required => plan.inherited \/ plan.bubblewrap
  /\ thread # "none" => plan.bubblewrap /\ ~ plan.inherited

(* Calls are let through in the prescribed order, a command passes only    *)
(* with all of them, and none that requires a sandbox runs without,        *)
(* whatever is abandoned, retried, late or dead (completion_error,         *)
(* _run_command).                                                          *)
BrokerIsStrict == PassedUsedTheWholeSequence /\ CallsAreInOrder /\ SandboxIsThere

(* Once there is a verdict no call is let through any more, though the     *)
(* backend of the last one may still run (__exit__, _serve).               *)
NothingAfterTheVerdict ==
  [][phase = "next" /\ results # << >> => accepted' = accepted]_cbvars

(* Every profile comes to its verdicts, also when the backend hangs or the *)
(* thread died and the command waits for an answer (timeouts of            *)
(* subprocess.run and join).                                               *)
EndsWithVerdict == <>Over
=============================================================================
