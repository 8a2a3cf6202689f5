-------------------------------- MODULE Memory --------------------------------
(***************************************************************************)
(* The Memory pipeline (memory/service.py, memory/store.py and the loop of *)
(* memory_worker.py): evidence of accepted tasks is collected into packets,*)
(* packets are digested, a maintainer proposes a patch for a digest, and a *)
(* human approves it into the active Memory or rejects it.                 *)
(*                                                                         *)
(* Everything is a file and nothing is locked.  Commands overlap in the    *)
(* regimes with "overlap" and die in those with "crash"; the worker ticks  *)
(* at any time, and a tick that raises ends it.  A file is written in one  *)
(* step.  The day that is part of a proposal's id stands still, so a task  *)
(* has one proposal.                                                       *)
(***************************************************************************)
EXTENDS Naturals, Sequences, FiniteSets

CONSTANTS Procs,        \* commands that may run at the same time
          MaxTask,      \* tasks, by the order of their directories
          Regimes,      \* faults ("overlap", "crash"), commands and tasks in play
          MaxApprovals, \* bound on the appended approvals
          HalfMade,     \* a packet directory without its packet
          None

Tasks == 1 .. MaxTask

VARIABLES mregime,
          task,         \* the task's record and where its directory is
          raw,          \* None, HalfMade or the packet
          digest,       \* None or the packet it was made of
          proposal,     \* None or [status, text]: whether it has its patch
          rejected,     \* None or the proposal that was moved there
          active,       \* sections appended to active/user-preferences.md
          worker,       \* "up" or "down"
          mpc, mloc

files == <<raw, digest, proposal, rejected, active>>
mmvars == <<mregime, task, files, worker, mpc, mloc>>

Packets   == [accepted : BOOLEAN, full : BOOLEAN]
Proposals == [status : {"pending", "approved", "rejected"}, text : BOOLEAN]

Idle == [task |-> None, moved |-> FALSE, packet |-> [accepted |-> FALSE, full |-> FALSE]]

Init ==
  /\ mregime \in Regimes
  /\ task = [t \in Tasks |-> [state |-> "other", result |-> "none", moved |-> FALSE]]
  /\ raw = [t \in Tasks |-> None] /\ digest = [t \in Tasks |-> None]
  /\ proposal = [t \in Tasks |-> None] /\ rejected = [t \in Tasks |-> None]
  /\ active = << >> /\ worker = "up"
  /\ mpc = [p \in Procs |-> "idle"] /\ mloc = [p \in Procs |-> Idle]

Alone == "overlap" \notin mregime.faults

Calm  == Alone => \A p \in Procs : mpc[p] = "idle"

\* An archive command that has not moved its task yet.
Archiving == \E t \in Tasks : task[t].state = "archived" /\ ~ task[t].moved

\* No command runs, or the mregime lets commands overlap; an archive command
\* may have died halfway.
MayBegin == Calm /\ (Archiving => mregime.faults # {})

Goto(p, label, memory) == /\ mpc' = [mpc EXCEPT ![p] = label]
                          /\ mloc' = [mloc EXCEPT ![p] = memory]

Done(p)   == Goto(p, "idle", Idle)
Mine(p)   == mloc[p].task
Asks(p, t, label) == /\ p \in mregime.procs /\ mpc[p] = "idle" /\ MayBegin
                     /\ Goto(p, label, [Idle EXCEPT !.task = t])

-----------------------------------------------------------------------------
(* The tasks, as far as Memory looks at them.                              *)

Accepted(r) == \/ r.state = "accepted"
               \/ r.state = "archived" /\ r.result = "accepted"

\* A gate or feedback gives an active task another state, accepted or other.
Gate(t, state) ==
  /\ MayBegin /\ t <= mregime.tasks
  /\ task[t].state # "archived"
  /\ task' = [task EXCEPT ![t].state = state]
  /\ UNCHANGED <<mregime, files, worker, mpc, mloc>>

\* archive: the record first, with any result, then the directory.
Archive(t, result) ==
  /\ MayBegin /\ t <= mregime.tasks
  /\ task[t].state # "archived"
  /\ task' = [task EXCEPT ![t].state = "archived", ![t].result = result]
  /\ UNCHANGED <<mregime, files, worker, mpc, mloc>>

ArchiveMoves(t) ==
  /\ Calm
  /\ task[t].state = "archived" /\ ~ task[t].moved
  /\ task' = [task EXCEPT ![t].moved = TRUE]
  /\ UNCHANGED <<mregime, files, worker, mpc, mloc>>

-----------------------------------------------------------------------------
(* collect.                                                                *)

Collectable(r) == Accepted(r)

CollectBegins(p, t) ==
  /\ Collectable(task[t]) /\ Asks(p, t, "record")
  /\ UNCHANGED <<mregime, task, files, worker>>

\* collect_task_packet loads the record again and looks up the directory.
CollectRecord(p) ==
  /\ mpc[p] = "record"
  /\ LET r == task[Mine(p)] IN
     Goto(p, "artifacts", [mloc[p] EXCEPT !.packet.accepted = Accepted(r),
                                         !.moved = r.moved])
  /\ UNCHANGED <<mregime, task, files, worker>>

\* The artifacts, none if the directory was moved meanwhile, and a directory
\* for the packet.
CollectMkdir(p) ==
  /\ mpc[p] = "artifacts"
  /\ raw' = [raw EXCEPT ![Mine(p)] = IF @ = None THEN HalfMade ELSE @]
  /\ Goto(p, "packet", [mloc[p] EXCEPT
       !.packet.full = (mloc[p].moved = task[Mine(p)].moved), !.moved = FALSE])
  /\ UNCHANGED <<mregime, task, digest, proposal, rejected, active, worker>>

CollectPacket(p) ==
  /\ mpc[p] = "packet"
  /\ raw' = [raw EXCEPT ![Mine(p)] = mloc[p].packet]
  /\ Done(p)
  /\ UNCHANGED <<mregime, task, digest, proposal, rejected, active, worker>>

-----------------------------------------------------------------------------
(* Digests.                                                                *)

HasPacket(t) == raw[t] \notin {None, HalfMade}

Digests(t) == digest' = [digest EXCEPT ![t] = raw[t]]

Digest(t) ==
  /\ MayBegin /\ HasPacket(t) /\ Digests(t)
  /\ UNCHANGED <<mregime, task, raw, proposal, rejected, active, worker, mpc, mloc>>

Waiting == {t \in Tasks : raw[t] # None /\ digest[t] = None}

\* tick(1): the first directory without a digest.  A directory without its
\* packet raises, and nothing catches that.
Tick ==
  /\ worker = "up" /\ Waiting # {}
  /\ LET t == CHOOSE x \in Waiting : \A y \in Waiting : x <= y IN
     IF HasPacket(t)
     THEN Digests(t) /\ UNCHANGED worker
     ELSE worker' = "down" /\ UNCHANGED digest
  /\ UNCHANGED <<mregime, task, raw, proposal, rejected, active, mpc, mloc>>

WorkerStarts ==
  /\ worker = "down" /\ worker' = "up"
  /\ UNCHANGED <<mregime, task, files, mpc, mloc>>

-----------------------------------------------------------------------------
(* Proposals.                                                              *)

\* The digest is read and the maintainer asked before anything is written.
MaintainBegins(p, t) ==
  /\ digest[t] # None
  /\ Asks(p, t, "propose")
  /\ UNCHANGED <<mregime, task, files, worker>>

\* proposal.yaml, whatever the proposal's status was.
MaintainWrites(p) ==
  /\ mpc[p] = "propose"
  /\ proposal' = [proposal EXCEPT ![Mine(p)] =
       [status |-> "pending", text |-> @ # None /\ @.text]]
  /\ Goto(p, "patch", mloc[p])
  /\ UNCHANGED <<mregime, task, raw, digest, rejected, active, worker>>

\* patch.md; without its directory the write raises.
MaintainPatches(p) ==
  /\ mpc[p] = "patch"
  /\ proposal' = [proposal EXCEPT ![Mine(p)] =
       IF @ = None THEN None ELSE [@ EXCEPT !.text = TRUE]]
  /\ Done(p)
  /\ UNCHANGED <<mregime, task, raw, digest, rejected, active, worker>>

\* (mutated) the status is written first
Approve_Late(p, t) ==
  /\ proposal[t] # None /\ Len(active) < MaxApprovals
  /\ Asks(p, t, "status")
  /\ proposal' = [proposal EXCEPT ![t].status = "approved"]
  /\ UNCHANGED <<mregime, task, raw, digest, rejected, active, worker>>

\* approve: the section goes into the active Memory, with the patch if there
\* is one; the status is not looked at.
Approve(p, t) ==
  /\ proposal[t] # None /\ Len(active) < MaxApprovals
  /\ Asks(p, t, "status")
  /\ active' = Append(active, [task |-> t, text |-> proposal[t].text])
  /\ UNCHANGED <<mregime, task, raw, digest, proposal, rejected, worker>>

\* A proposal that was moved away meanwhile raises here.
ApproveMarks(p) ==
  /\ mpc[p] = "status"
  /\ proposal' = [proposal EXCEPT ![Mine(p)] =
       IF @ = None THEN None ELSE [@ EXCEPT !.status = "approved"]]
  /\ Done(p)
  /\ UNCHANGED <<mregime, task, raw, digest, rejected, active, worker>>

\* reject: refused only when this id was rejected before.
Reject(p, t) ==
  /\ proposal[t] # None /\ rejected[t] = None
  /\ Asks(p, t, "move")
  /\ proposal' = [proposal EXCEPT ![t].status = "rejected"]
  /\ UNCHANGED <<mregime, task, raw, digest, rejected, active, worker>>

\* shutil.move; into a directory that another reject has made, it goes below.
RejectMoves(p) ==
  /\ mpc[p] = "move"
  /\ IF proposal[Mine(p)] = None THEN UNCHANGED <<proposal, rejected>>
     ELSE /\ rejected' = [rejected EXCEPT ![Mine(p)] =
                            IF @ = None THEN proposal[Mine(p)] ELSE @]
          /\ proposal' = [proposal EXCEPT ![Mine(p)] = None]
  /\ Done(p)
  /\ UNCHANGED <<mregime, task, raw, digest, active, worker>>

Dies(p) ==
  /\ "crash" \in mregime.faults /\ mpc[p] # "idle"
  /\ Done(p)
  /\ UNCHANGED <<mregime, task, files, worker>>

Collect(p)  == \/ \E t \in Tasks : CollectBegins(p, t)
               \/ CollectRecord(p) \/ CollectMkdir(p) \/ CollectPacket(p)
Maintain(p) == \/ \E t \in Tasks : MaintainBegins(p, t)
               \/ MaintainWrites(p) \/ MaintainPatches(p)
Decide(p)   == \/ \E t \in Tasks : Approve(p, t) \/ Reject(p, t)
               \/ ApproveMarks(p) \/ RejectMoves(p)

TaskMoves == \E t \in Tasks :
               \/ \E s \in {"accepted", "other"} : Gate(t, s)
               \/ \E r \in {"accepted", "abandoned"} : Archive(t, r)
               \/ ArchiveMoves(t)

Next == \/ TaskMoves \/ Tick \/ WorkerStarts
        \/ \E t \in Tasks : Digest(t)
        \/ \E p \in Procs : Collect(p) \/ Maintain(p) \/ Decide(p) \/ Dies(p)

\* The worker's loop goes on as long as it lives.
Spec == Init /\ [][Next]_mmvars /\ WF_mmvars(Tick)

-----------------------------------------------------------------------------
(* Every value stays in its type; the type invariant of the module.        *)
TypeOK ==
  /\ \A t \in Tasks :
       /\ raw[t] \in Packets \cup {None, HalfMade}
       /\ digest[t] \in Packets \cup {None}
       /\ proposal[t] # None => proposal[t].status \in {"pending", "approved", "rejected"}
       /\ rejected[t] # None => rejected[t].text \in BOOLEAN
  /\ Len(active) <= MaxApprovals
  /\ \A p \in Procs : Mine(p) = None <=> mpc[p] = "idle"

(* A packet and a digest are evidence of an accepted task, complete with   *)
(* its artifacts, unless something overlapped with the collection.         *)
PacketsAreAccepted ==
  Alone => \A t \in Tasks : \A packet \in {raw[t], digest[t]} \ {None, HalfMade} :
             packet.full /\ packet.accepted

(* What is in the active Memory was proposed from a digest of that task;   *)
(* when commands neither overlap nor die it comes with its text (maintain, *)
(* approve).                                                               *)
ActiveIsBacked ==
  \A i \in DOMAIN active :
    /\ digest[active[i].task] # None
    /\ mregime.faults = {} => active[i].text

(* A proposal that counts as approved is in the active Memory, even when   *)
(* the approving command died (the order of approve).                      *)
ApprovedIsActive ==
  \A t \in Tasks :
    proposal[t] # None /\ proposal[t].status = "approved" =>
      \E i \in DOMAIN active : active[i].task = t

(* Under one hand, a proposal that was moved to the rejected ones is no    *)
(* longer among the proposals with its rejection (reject).                 *)
RejectedHasGone ==
  mregime.faults = {} => \A t \in Tasks :
    proposal[t] # None /\ proposal[t].status = "rejected" =>
      \E p \in Procs : mpc[p] = "move" /\ Mine(p) = t

(* Every packet gets its digest as long as the worker lives: digested      *)
(* directories do not use up the one task of a tick (tick).                *)
EventuallyDigested ==
  \A t \in Tasks : HasPacket(t) ~> (digest[t] # None \/ worker = "down")
=============================================================================
