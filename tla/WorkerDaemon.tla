---------------------------- MODULE WorkerDaemon ----------------------------
(***************************************************************************)
(* How a worker is started and stopped (start_worker, stop_worker and      *)
(* worker_status of worker.py; memory_worker.py has the same for the       *)
(* worker of the Memory).                                                  *)
(*                                                                         *)
(* The pid file is all that is known of a worker: whether one runs is      *)
(* whether any process has that pid.  A worker whose tick raises ends and  *)
(* leaves the file, and its pid may be given to another program.           *)
(***************************************************************************)
EXTENDS Naturals

CONSTANTS Procs,      \* start and stop commands that may run at the same time
          Pids, NoPid,
          Regimes     \* sets of "overlap", "crash"

VARIABLES wregime,
          pidfile,    \* worker.pid, NoPid if there is none
          workers,    \* pids of running workers
          others,     \* pids of other programs
          wpc, wloc     \* where a command is, and the pid it has read or started

wvars == <<wregime, pidfile, workers, others, wpc, wloc>>

Init == /\ wregime \in Regimes
        /\ pidfile = NoPid /\ workers = {} /\ others = {}
        /\ wpc = [p \in Procs |-> "idle"] /\ wloc = [p \in Procs |-> NoPid]

Goto(p, label, pid) == /\ wpc' = [wpc EXCEPT ![p] = label]
                       /\ wloc' = [wloc EXCEPT ![p] = pid]

Begins(p, label, pid) ==
  /\ wpc[p] = "idle"
  /\ "overlap" \in wregime \/ \A q \in Procs : wpc[q] = "idle"
  /\ Goto(p, label, pid)

\* os.kill(pid, 0): whoever has the pid.
Running == pidfile \in workers \cup others

-----------------------------------------------------------------------------
(* start_worker: if none runs, the process and then its pid.               *)

\* (mutated) started without a look at the status
StartBegins_Always(p) ==
  /\ Begins(p, "spawn", NoPid)
  /\ UNCHANGED <<wregime, pidfile, workers, others>>

StartBegins(p) ==
  /\ ~ Running
  /\ Begins(p, "spawn", NoPid)
  /\ UNCHANGED <<wregime, pidfile, workers, others>>

Spawn(p, pid) ==
  /\ wpc[p] = "spawn" /\ pid \notin workers \cup others
  /\ workers' = workers \cup {pid}
  /\ Goto(p, "write", pid)
  /\ UNCHANGED <<wregime, pidfile, others>>

WritePid(p) ==
  /\ wpc[p] = "write"
  /\ pidfile' = wloc[p]
  /\ Goto(p, "idle", NoPid)
  /\ UNCHANGED <<wregime, workers, others>>

-----------------------------------------------------------------------------
(* stop_worker.                                                            *)

StopBegins(p) ==
  /\ Begins(p, IF pidfile = NoPid THEN "unlink" ELSE "kill", pidfile)
  /\ UNCHANGED <<wregime, pidfile, workers, others>>

\* SIGTERM to whoever has the pid; with nobody there it raises and the file
\* stays.
Kill(p) ==
  /\ wpc[p] = "kill"
  /\ Goto(p, IF wloc[p] \in workers \cup others THEN "unlink" ELSE "idle", NoPid)
  /\ workers' = workers \ {wloc[p]} /\ others' = others \ {wloc[p]}
  /\ UNCHANGED <<wregime, pidfile>>

Unlink(p) ==
  /\ wpc[p] = "unlink"
  /\ pidfile' = NoPid
  /\ Goto(p, "idle", NoPid)
  /\ UNCHANGED <<wregime, workers, others>>

-----------------------------------------------------------------------------
WorkerEnds(pid) ==
  /\ pid \in workers /\ workers' = workers \ {pid}
  /\ UNCHANGED <<wregime, pidfile, others, wpc, wloc>>

OtherStarts(pid) ==
  /\ pid \notin workers \cup others /\ others' = others \cup {pid}
  /\ UNCHANGED <<wregime, pidfile, workers, wpc, wloc>>

OtherEnds(pid) ==
  /\ pid \in others /\ others' = others \ {pid}
  /\ UNCHANGED <<wregime, pidfile, workers, wpc, wloc>>

Dies(p) ==
  /\ "crash" \in wregime /\ wpc[p] # "idle"
  /\ Goto(p, "idle", NoPid)
  /\ UNCHANGED <<wregime, pidfile, workers, others>>

Next == \/ \E p \in Procs : \/ StartBegins(p) \/ WritePid(p) \/ StopBegins(p)
                            \/ Kill(p) \/ Unlink(p) \/ Dies(p)
                            \/ \E pid \in Pids : Spawn(p, pid)
        \/ \E pid \in Pids : WorkerEnds(pid) \/ OtherStarts(pid) \/ OtherEnds(pid)

Spec == Init /\ [][Next]_wvars

-----------------------------------------------------------------------------
(* Every value stays in its type; the type invariant of the module.        *)
TypeOK ==
  /\ pidfile \in Pids \cup {NoPid}
  /\ workers \subseteq Pids /\ others \subseteq Pids /\ workers \cap others = {}
  /\ \A p \in Procs : wpc[p] \in {"write", "kill"} <=> wloc[p] \in Pids

(* While commands follow one another and finish there is one worker at     *)
(* most, and between commands the pid file names it; pids that are given   *)
(* away again and workers that ended by themselves do not change that.     *)
WorkerIsNamed ==
  wregime = {} =>
    /\ \A k, n \in workers : k = n
    /\ workers # {} /\ (\A p \in Procs : wpc[p] = "idle") => workers = {pidfile}

(* A stop that comes to its end has left no worker behind.                 *)
StopLeavesNone ==
  [][wregime = {} /\ (\E p \in Procs : wpc[p] = "unlink" /\ wpc'[p] = "idle")
       => workers' = {}]_wvars
=============================================================================
