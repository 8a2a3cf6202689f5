------------------------ MODULE ExperimentLineProofs ------------------------
(***************************************************************************)
(* Proofs about ExperimentLine, for any number of commands, requests,      *)
(* checkpoints and commits, and for every combination of faults: the       *)
(* invariant and what follows from it, and then the refinement of          *)
(* LineAuthority with sound checkpoints, which also needs to know what a   *)
(* command that is about to write its row found out when it started, when  *)
(* it looked before it had any lease that holds.                           *)
(***************************************************************************)
EXTENDS ExperimentLine, TLAPS

LEMMA AppendFacts ==
  ASSUME NEW S, NEW s \in Seq(S), NEW e \in S
  PROVE  /\ Append(s, e) \in Seq(S)
         /\ Len(Append(s, e)) = Len(s) + 1
         /\ DOMAIN Append(s, e) = 1 .. (Len(s) + 1)
         /\ \A i \in 1 .. Len(s) : Append(s, e)[i] = s[i]
         /\ Append(s, e)[Len(s) + 1] = e
  OBVIOUS

LEMMA InitIInv == Init => IInv
<1> SUFFICES ASSUME Init PROVE IInv
  OBVIOUS
<1> USE ConstantsAssumption DEF Init
<1>1. StoreTypes /\ GitTypes
  BY DEF StoreTypes, GitTypes, CommitIds, Base, AllNames, Rows, CommitRecords
<1>2. FileTypes /\ CommandTypes
  BY DEF FileTypes, CommandTypes, AllNames, Resources, Labels, Locals, Idle
<1>3. LinearHistory /\ RefFollowsLine /\ RemoteIsCommitted /\ RowsBound
  BY DEF LinearHistory, RefFollowsLine, RemoteIsCommitted, RowsBound, Base
<1>4. OneInFlight /\ LocalsFit /\ CommitsApart
  BY DEF OneInFlight, LocalsFit, Fits, CommitsApart, InFlight, Built, Committed,
         Idle, Base, AllNames
<1> QED BY <1>1, <1>2, <1>3, <1>4 DEF IInv, TypeOK

-----------------------------------------------------------------------------
(* What a step leaves alone.                                               *)

\* Requests keep their binding once they exist.
BindingKept ==
  \A r \in Requests : req[r].phase # "NONE" =>
    req'[r].phase # "NONE" /\ req'[r].gen = req[r].gen

\* No command comes to hold a built commit, and one that was between the ref
\* and the row either still is or leaves its commit to the orphans.
NothingBuilt ==
  \A q \in Procs :
    /\ Built(q)' => Built(q) /\ loc'[q].result = loc[q].result
                             /\ loc'[q].head = loc[q].head
    /\ InFlight(q)' => InFlight(q)
    /\ InFlight(q) => InFlight(q)' \/ loc[q].result \in orphans'

\* The orphans grow by nothing but commits that their commands let go.
OrphansLetGo ==
  /\ orphans \subseteq orphans'
  /\ orphans' \subseteq orphans \cup
       {loc[q].result : q \in {x \in Procs : Built(x) /\ ~ Built(x)'}}

\* A command that does not move still fits, while the stores only grow.
LEMMA Undisturbed ==
  ASSUME NEW q \in Procs, Fits(q), CommandTypes, BindingKept,
         pc'[q] = pc[q], loc'[q] = loc[q],
         UNCHANGED <<line, log, ckpts>>
  PROVE  Fits(q)'
<1>1. Committed' = Committed
  BY DEF Committed
<1>2. \A r \in Requests : req[r].phase # "NONE" /\ req[r].gen = loc[q].gen
        => req'[r].phase # "NONE" /\ req'[r].gen = loc[q].gen
  BY DEF BindingKept
<1> QED BY <1>1, <1>2 DEF Fits

\* The parts of the invariant, taken apart, and what it says of one command.
LEMMA Parts ==
  ASSUME IInv
  PROVE  /\ StoreTypes /\ GitTypes /\ FileTypes /\ CommandTypes
         /\ LinearHistory /\ RefFollowsLine /\ OneInFlight
         /\ RemoteIsCommitted /\ LocalsFit /\ CommitsApart /\ RowsBound
BY DEF IInv, TypeOK

LEMMA OneCommand ==
  ASSUME IInv, NEW p \in Procs
  PROVE  /\ pc[p] \in Labels /\ loc[p] \in Locals /\ Fits(p)
         /\ InFlight(p) => Built(p)
<1>1. pc[p] \in Labels /\ loc[p] \in Locals /\ Fits(p)
  BY Parts DEF CommandTypes, LocalsFit
<1>2. InFlight(p) => Built(p)
  BY <1>1 DEF InFlight, Built, Fits, Locals
<1> QED BY <1>1, <1>2

\* The head of the line is a committed result, or H0's commit.
LEMMA HeadCommitted ==
  ASSUME IInv
  PROVE  line.head \in Committed
<1>1. log = << >> \/ Len(log) \in DOMAIN log
  BY Parts DEF StoreTypes
<1> QED BY <1>1, Parts DEF LinearHistory, Committed

\* A command that goes to another place keeps every command well-typed.
LEMMA Moving ==
  ASSUME CommandTypes, NEW p \in Procs, NEW l \in Labels, NEW m \in Locals,
         lease' \in [Resources -> [owner : Procs \cup {Nobody, Ghost},
                                   stale : BOOLEAN]],
         pc' = [pc EXCEPT ![p] = l], loc' = [loc EXCEPT ![p] = m]
  PROVE  /\ CommandTypes' /\ pc'[p] = l /\ loc'[p] = m
         /\ \A q \in Procs : q # p => pc'[q] = pc[q] /\ loc'[q] = loc[q]
BY DEF CommandTypes

\* A request that changes its phase keeps the requests well-typed.
LEMMA PhaseTypes ==
  ASSUME StoreTypes, NEW r \in Requests,
         NEW ph \in {"NONE", "PENDING", "VERIFIED", "CLOSED"}
  PROVE  [req EXCEPT ![r].phase = ph] \in
           [Requests -> [phase : {"NONE", "PENDING", "VERIFIED", "CLOSED"},
                         base : CommitIds \cup {0}, gen : Nat]]
<1> DEFINE e == [req[r] EXCEPT !.phase = ph]
<1>1. e \in [phase : {"NONE", "PENDING", "VERIFIED", "CLOSED"},
             base : CommitIds \cup {0}, gen : Nat]
  BY DEF StoreTypes
<1>2. [req EXCEPT ![r].phase = ph] = [req EXCEPT ![r] = e]
  OBVIOUS
<1> HIDE DEF e
<1> QED BY <1>1, <1>2 DEF StoreTypes

LEMMA RowTypes ==
  ASSUME StoreTypes, NEW i \in DOMAIN log
  PROVE  log[i].expGen \in Nat
<1>1. log[i] \in Rows
  BY DEF StoreTypes
<1> QED BY <1>1 DEF Rows

LEMMA IdleTyped == Idle \in Locals /\ "idle" \in Labels
BY DEF Idle, Locals, Labels

\* Taking or releasing a lease keeps the leases well-typed.
LEMMA LeaseTypes ==
  ASSUME CommandTypes, NEW p \in Procs, NEW x \in Resources
  PROVE  LET L == [Resources -> [owner : Procs \cup {Nobody, Ghost},
                                 stale : BOOLEAN]]
         IN  /\ [lease EXCEPT ![x] = Held(p)] \in L
             /\ [lease EXCEPT ![x] = Held(Nobody)] \in L
             /\ [lease EXCEPT ![x].stale = TRUE] \in L
             /\ ReleasedBy(p) \in L
BY DEF CommandTypes, Held, ReleasedBy

LEMMA QuietStep ==
  ASSUME IInv, TypeOK', LocalsFit', BindingKept, NothingBuilt, OrphansLetGo,
         UNCHANGED <<line, log, ckpts, commits, ref>>,
         remote' = remote \/ remote' \in Committed
  PROVE  IInv'
<1>0. /\ TypeOK /\ LinearHistory /\ RefFollowsLine /\ OneInFlight
      /\ RemoteIsCommitted /\ LocalsFit /\ CommitsApart /\ RowsBound
  BY DEF IInv
<1>1. Committed' = Committed
  BY DEF Committed
<1>2. LinearHistory'
  BY <1>0 DEF LinearHistory
<1>3. RemoteIsCommitted'
  BY <1>0 DEF RemoteIsCommitted, Committed
<1>4. RowsBound'
  BY <1>0 DEF RowsBound, BindingKept
<1>5. RefFollowsLine'
  <2>1. CASE ref = line.head
    BY <2>1 DEF RefFollowsLine
  <2>2. CASE ref \in orphans
    BY <2>2 DEF RefFollowsLine, OrphansLetGo
  <2>3. CASE \E q \in Procs : InFlight(q) /\ ref = loc[q].result
    <3> PICK q \in Procs : InFlight(q) /\ ref = loc[q].result
      BY <2>3
    <3>1. CASE InFlight(q)'
      <4>1. Built(q)'
        BY <3>1, LocalsFit' DEF InFlight, Built, LocalsFit, Fits, TypeOK, CommandTypes, Locals
      <4> QED BY <3>1, <4>1 DEF NothingBuilt, RefFollowsLine
    <3>2. CASE loc[q].result \in orphans'
      BY <3>2 DEF RefFollowsLine
    <3> QED BY <3>1, <3>2 DEF NothingBuilt
  <2> QED BY <1>0, <2>1, <2>2, <2>3 DEF RefFollowsLine
<1>6. OneInFlight'
  <2> SUFFICES ASSUME NEW q \in Procs, InFlight(q)'
               PROVE  /\ ref' = loc'[q].result /\ line'.head = loc'[q].head
                      /\ \A x \in Procs : InFlight(x)' => x = q
    BY DEF OneInFlight
  <2>1. Built(q)'
    BY LocalsFit' DEF InFlight, Built, LocalsFit, Fits, TypeOK, CommandTypes, Locals
  <2> QED BY <1>0, <2>1 DEF OneInFlight, NothingBuilt
<1>7. CommitsApart'
  <2>1. /\ Committed' \subseteq 1 .. Len(commits')
        /\ \A n \in AllNames : ckpts'[n] \in Committed' \cup {0}
    BY <1>0, <1>1 DEF CommitsApart
  <2>2. orphans' \subseteq 1 .. Len(commits') /\ orphans' \cap Committed' = {}
    BY <1>0, <1>1 DEF CommitsApart, OrphansLetGo
  <2>3. ASSUME NEW q \in Procs, Built(q)'
        PROVE  /\ loc'[q].result \in 1 .. Len(commits')
               /\ loc'[q].result \notin Committed' \cup orphans'
               /\ commits'[loc'[q].result].parent = loc'[q].head
               /\ \A x \in Procs : Built(x)' /\ loc'[x].result = loc'[q].result => x = q
    BY <1>0, <1>1, <2>3 DEF CommitsApart, NothingBuilt, OrphansLetGo
  <2> QED BY <2>1, <2>2, <2>3 DEF CommitsApart
<1> QED BY <1>2, <1>3, <1>4, <1>5, <1>6, <1>7 DEF IInv

\* The stores below the line change while no command moves.
LEMMA StoreStep ==
  ASSUME IInv, StoreTypes', FileTypes', CommandTypes', BindingKept,
         UNCHANGED <<line, log, ckpts, commits, ref, remote, pc, loc, orphans>>
  PROVE  IInv'
<1>1. TypeOK'
  BY Parts DEF TypeOK, GitTypes
<1>2. LocalsFit'
  BY Parts, Undisturbed DEF LocalsFit
<1>3. NothingBuilt /\ OrphansLetGo
  BY DEF NothingBuilt, OrphansLetGo, Built, InFlight
<1> QED BY <1>1, <1>2, <1>3, QuietStep

\* One command moves and touches neither the line nor its branch.
LEMMA CommandStep ==
  ASSUME IInv, NEW p \in Procs, StoreTypes', FileTypes', CommandTypes',
         BindingKept, Fits(p)',
         \A q \in Procs : q # p => pc'[q] = pc[q] /\ loc'[q] = loc[q],
         Built(p)' => Built(p) /\ loc'[p].result = loc[p].result
                               /\ loc'[p].head = loc[p].head,
         InFlight(p)' => InFlight(p),
         InFlight(p) => InFlight(p)' \/ loc[p].result \in orphans',
         orphans' = orphans \/ ( /\ Built(p) /\ ~ Built(p)'
                                 /\ orphans' = orphans \cup {loc[p].result} ),
         UNCHANGED <<line, log, ckpts, commits, ref>>,
         remote' = remote \/ remote' \in Committed
  PROVE  IInv'
<1>1. TypeOK'
  <2>1. Committed \subseteq CommitIds
    BY Parts, ConstantsAssumption DEF GitTypes, CommitsApart, CommitIds
  <2>2. Built(p) => loc[p].result \in CommitIds
    BY Parts, ConstantsAssumption DEF GitTypes, CommitsApart, CommitIds
  <2> QED BY <2>1, <2>2, Parts DEF TypeOK, GitTypes
<1>2. LocalsFit'
  <2>1. ASSUME NEW q \in Procs, q # p PROVE Fits(q)'
    BY <2>1, Parts, Undisturbed DEF LocalsFit
  <2> QED BY <2>1 DEF LocalsFit
<1>3. ASSUME NEW q \in Procs, q # p
      PROVE  (Built(q)' <=> Built(q)) /\ (InFlight(q)' <=> InFlight(q))
             /\ loc'[q] = loc[q]
  BY <1>3 DEF Built, InFlight
<1>4. NothingBuilt
  BY <1>3 DEF NothingBuilt
<1>5. OrphansLetGo
  BY DEF OrphansLetGo
<1> QED BY <1>1, <1>2, <1>4, <1>5, QuietStep

\* A command that returns or raises leaves an idle slot behind.
LEMMA Returning ==
  ASSUME IInv, NEW p \in Procs, Finish(p)
  PROVE  /\ CommandTypes' /\ pc'[p] = "idle" /\ loc'[p] = Idle
         /\ \A q \in Procs : q # p => pc'[q] = pc[q] /\ loc'[q] = loc[q]
BY Parts, Moving, IdleTyped, LeaseTypes DEF Finish, Goto, Resources

\* A command that is not between the ref and the row does so.
LEMMA FinishStep ==
  ASSUME IInv, NEW p \in Procs, Finish(p), ~ InFlight(p),
         StoreTypes', FileTypes', BindingKept,
         UNCHANGED <<line, log, ckpts, commits, ref, remote, orphans>>
  PROVE  IInv'
<1>1. /\ CommandTypes' /\ pc'[p] = "idle" /\ loc'[p] = Idle
      /\ \A q \in Procs : q # p => pc'[q] = pc[q] /\ loc'[q] = loc[q]
  BY Returning
<1>2. Fits(p)' /\ ~ Built(p)' /\ ~ InFlight(p)'
  BY <1>1 DEF Fits, Built, InFlight, Idle
<1> QED BY <1>1, <1>2, CommandStep

-----------------------------------------------------------------------------
(* The actions that touch neither the line nor its branch.                 *)

LEMMA CreateRequestIInv ==
  ASSUME IInv, NEW r \in Requests, CreateRequest(r)
  PROVE  IInv'
<1> USE DEF CreateRequest, files, git
<1>1. line.head \in CommitIds /\ line.gen \in Nat
  BY Parts DEF StoreTypes
<1>2. req' \in [Requests -> [phase : {"NONE", "PENDING", "VERIFIED", "CLOSED"},
                             base : CommitIds \cup {0}, gen : Nat]]
  BY <1>1, Parts DEF StoreTypes
<1>3. StoreTypes' /\ FileTypes' /\ CommandTypes'
  BY <1>2, Parts DEF StoreTypes, FileTypes, CommandTypes
<1>4. BindingKept
  BY Parts DEF BindingKept, StoreTypes
<1> QED BY <1>3, <1>4, StoreStep

LEMMA VerifiedIInv ==
  ASSUME IInv, NEW r \in Requests, Verified(r)
  PROVE  IInv'
<1> USE DEF Verified, files, git
<1>1. req' = [req EXCEPT ![r].phase = "VERIFIED"]
  OBVIOUS
<1>2. req' \in [Requests -> [phase : {"NONE", "PENDING", "VERIFIED", "CLOSED"},
                            base : CommitIds \cup {0}, gen : Nat]]
  BY ONLY <1>1, Parts, PhaseTypes, IInv, r \in Requests
<1>3. StoreTypes' /\ FileTypes' /\ CommandTypes'
  BY <1>1, <1>2, Parts DEF StoreTypes, FileTypes, CommandTypes
<1>4. BindingKept
  BY Parts DEF BindingKept, StoreTypes
<1> QED BY <1>3, <1>4, StoreStep

LEMMA RecordMetricIInv ==
  ASSUME IInv, RecordMetric
  PROVE  IInv'
<1> USE DEF RecordMetric, files, git
<1>1. StoreTypes' /\ FileTypes' /\ CommandTypes'
  BY Parts DEF StoreTypes, FileTypes, CommandTypes
<1>2. BindingKept
  BY DEF BindingKept
<1> QED BY <1>1, <1>2, StoreStep

LEMMA LeaseExpiresIInv ==
  ASSUME IInv, NEW x \in Resources, LeaseExpires(x)
  PROVE  IInv'
<1> USE DEF LeaseExpires, stores, files, git
<1>1. lease' = [lease EXCEPT ![x] = [lease[x] EXCEPT !.stale = TRUE]]
  OBVIOUS
<1>2. [lease[x] EXCEPT !.stale = TRUE] \in
        [owner : Procs \cup {Nobody, Ghost}, stale : BOOLEAN]
  BY Parts DEF CommandTypes
<1>3. StoreTypes' /\ FileTypes' /\ CommandTypes'
  BY <1>1, <1>2, Parts DEF StoreTypes, FileTypes, CommandTypes
<1>4. BindingKept
  BY DEF BindingKept
<1> QED BY <1>3, <1>4, StoreStep

LEMMA IntegrateReopensIInv ==
  ASSUME IInv, NEW p \in Procs, NEW r \in Requests, IntegrateReopens(p, r)
  PROVE  IInv'
<1> USE DEF IntegrateReopens, files, git
<1>1. req' = [req EXCEPT ![r].phase = "PENDING"]
  OBVIOUS
<1>2. req' \in [Requests -> [phase : {"NONE", "PENDING", "VERIFIED", "CLOSED"},
                            base : CommitIds \cup {0}, gen : Nat]]
  BY ONLY <1>1, Parts, PhaseTypes, IInv, r \in Requests
<1>3. StoreTypes' /\ FileTypes'
  BY <1>1, <1>2, Parts DEF StoreTypes, FileTypes
<1>4. CommandTypes'
  BY Parts, LeaseTypes DEF CommandTypes, Resources
<1>5. BindingKept
  BY Parts DEF BindingKept, StoreTypes
<1> QED BY <1>3, <1>4, <1>5, StoreStep

LEMMA IntegrateStartIInv ==
  ASSUME IInv, NEW p \in Procs, NEW r \in Requests, NEW push \in BOOLEAN,
         IntegrateStart(p, r, push)
  PROVE  IInv'
<1> USE DEF IntegrateStart, stores, files, git
<1> DEFINE m == [Idle EXCEPT !.op = "integrate", !.who = r, !.head = line.head,
                             !.gen = line.gen, !.push = push]
<1>1. /\ m \in Locals /\ "line_lease" \in Labels
      /\ m.op = "integrate" /\ m.who = r /\ m.head = line.head /\ m.gen = line.gen
  BY Parts DEF StoreTypes, Locals, Idle, Labels
<1> HIDE DEF m
<1>2. /\ CommandTypes' /\ pc'[p] = "line_lease" /\ loc'[p] = m
      /\ \A q \in Procs : q # p => pc'[q] = pc[q] /\ loc'[q] = loc[q]
  BY <1>1, Parts, Moving, LeaseTypes DEF m, Goto, Resources
<1>3. StoreTypes' /\ FileTypes' /\ BindingKept
  BY Parts DEF StoreTypes, FileTypes, BindingKept
<1>4. Fits(p)'
  BY <1>1, <1>2, Parts, HeadCommitted DEF Fits, StoreTypes, BoundToLine, Committed
<1>5. ~ Built(p)' /\ ~ InFlight(p)' /\ ~ InFlight(p)
  BY <1>2 DEF Built, InFlight
<1> QED BY <1>2, <1>3, <1>4, <1>5, CommandStep

LEMMA IntegrateLeaseIInv ==
  ASSUME IInv, NEW p \in Procs, IntegrateLease(p)
  PROVE  IInv'
<1> USE DEF IntegrateLease
<1>1. CASE Aborts(p)
  <2>1. ~ InFlight(p) /\ BindingKept /\ StoreTypes' /\ FileTypes'
    BY <1>1, Parts DEF InFlight, BindingKept, StoreTypes, FileTypes, Aborts, stores,
       files
  <2> QED BY <1>1, <2>1, FinishStep DEF Aborts, stores, git
<1>2. CASE /\ lease' = [lease EXCEPT !["line"] = Held(p)]
           /\ Goto(p, "build")
           /\ UNCHANGED <<stores, git, files, loc, orphans>>
  <2>1. loc' = [loc EXCEPT ![p] = loc[p]] /\ "build" \in Labels
    BY <1>2, Parts DEF CommandTypes, Labels
  <2>2. /\ CommandTypes' /\ pc'[p] = "build" /\ loc'[p] = loc[p]
        /\ \A q \in Procs : q # p => pc'[q] = pc[q] /\ loc'[q] = loc[q]
    BY <1>2, <2>1, Parts, OneCommand, Moving, LeaseTypes DEF Goto, Resources
  <2>3. StoreTypes' /\ FileTypes' /\ BindingKept
    BY <1>2, Parts DEF StoreTypes, FileTypes, BindingKept, stores, files
  <2>4. Fits(p)'
    BY <1>2, <2>2, OneCommand DEF Fits, Committed, stores
  <2>5. ~ Built(p)' /\ ~ InFlight(p)' /\ ~ InFlight(p)
    BY <2>2 DEF Built, InFlight
  <2> QED BY <1>2, <2>2, <2>3, <2>4, <2>5, CommandStep DEF stores, git
<1> QED BY <1>1, <1>2

LEMMA RollbackStartIInv ==
  ASSUME IInv, NEW p \in Procs, NEW n \in AllNames, NEW push \in BOOLEAN,
         RollbackStart(p, n, push)
  PROVE  IInv'
<1> USE DEF RollbackStart, stores, files, git
<1> DEFINE m == [Idle EXCEPT !.op = "rollback", !.who = n, !.head = line.head,
                             !.gen = line.gen, !.push = push]
<1>1. /\ m \in Locals /\ "build" \in Labels
      /\ m.op = "rollback" /\ m.who = n /\ m.head = line.head /\ m.gen = line.gen
  BY Parts DEF StoreTypes, Locals, Idle, Labels
<1> HIDE DEF m
<1>2. /\ CommandTypes' /\ pc'[p] = "build" /\ loc'[p] = m
      /\ \A q \in Procs : q # p => pc'[q] = pc[q] /\ loc'[q] = loc[q]
  BY <1>1, Parts, Moving, LeaseTypes DEF m, Goto, Resources
<1>3. StoreTypes' /\ FileTypes' /\ BindingKept
  BY Parts DEF StoreTypes, FileTypes, BindingKept
<1>4. Fits(p)'
  BY <1>1, <1>2, Parts, HeadCommitted DEF Fits, StoreTypes, Committed
<1>5. ~ Built(p)' /\ ~ InFlight(p)' /\ ~ InFlight(p)
  BY <1>2 DEF Built, InFlight
<1> QED BY <1>2, <1>3, <1>4, <1>5, CommandStep

LEMMA CheckpointStartIInv ==
  ASSUME IInv, NEW p \in Procs, NEW n \in AllNames, CheckpointStart(p, n)
  PROVE  IInv'
<1> USE DEF CheckpointStart, stores, files, git
<1> DEFINE m == [Idle EXCEPT !.op = "checkpoint", !.who = n, !.head = line.head,
                             !.gen = line.gen]
<1>1. /\ m \in Locals /\ "copy" \in Labels
      /\ m.op = "checkpoint" /\ m.who = n /\ m.head = line.head /\ m.gen = line.gen
  BY Parts DEF StoreTypes, Locals, Idle, Labels
<1> HIDE DEF m
<1>2. /\ CommandTypes' /\ pc'[p] = "copy" /\ loc'[p] = m
      /\ \A q \in Procs : q # p => pc'[q] = pc[q] /\ loc'[q] = loc[q]
  BY <1>1, Parts, Moving, LeaseTypes DEF m, Goto, Resources
<1>3. StoreTypes' /\ FileTypes' /\ BindingKept
  BY Parts DEF StoreTypes, FileTypes, BindingKept
<1>4. Fits(p)'
  BY <1>1, <1>2, Parts, HeadCommitted DEF Fits, StoreTypes, Committed, AllNames
<1>5. ~ Built(p)' /\ ~ InFlight(p)' /\ ~ InFlight(p)
  BY <1>2 DEF Built, InFlight
<1> QED BY <1>2, <1>3, <1>4, <1>5, CommandStep

LEMMA CheckpointCopyIInv ==
  ASSUME IInv, NEW p \in Procs, CheckpointCopy(p)
  PROVE  IInv'
<1> USE DEF CheckpointCopy, stores, git
<1>1. loc[p].who \in Names /\ ~ InFlight(p) /\ link \in AllNames
  BY OneCommand, Parts DEF Fits, InFlight, FileTypes
<1>2. StoreTypes' /\ FileTypes' /\ BindingKept
  BY <1>1, Parts DEF StoreTypes, FileTypes, BindingKept, AllNames
<1>3. CASE loc[p].who \in releases
  BY <1>1, <1>2, <1>3, FinishStep
<1>4. CASE loc[p].who \notin releases
  <2> DEFINE m == [loc[p] EXCEPT !.prev = link]
  <2>1. /\ m \in Locals /\ "link" \in Labels /\ loc' = [loc EXCEPT ![p] = m]
        /\ m.op = loc[p].op /\ m.who = loc[p].who /\ m.head = loc[p].head
        /\ m.gen = loc[p].gen /\ m.result = loc[p].result /\ m.prev = link
    BY <1>1, <1>4, OneCommand DEF Locals, Labels
  <2> HIDE DEF m
  <2>2. /\ CommandTypes' /\ pc'[p] = "link" /\ loc'[p] = m
        /\ \A q \in Procs : q # p => pc'[q] = pc[q] /\ loc'[q] = loc[q]
    BY <1>4, <2>1, Parts, Moving DEF Goto, CommandTypes
  <2>3. Fits(p)'
    BY <1>1, <1>4, <2>1, <2>2, OneCommand DEF Fits, Committed
  <2>4. ~ Built(p)' /\ ~ InFlight(p)'
    BY <1>1, <2>1, <2>2, OneCommand DEF Built, InFlight, Fits
  <2> QED BY <1>1, <1>2, <2>2, <2>3, <2>4, CommandStep
<1> QED BY <1>3, <1>4

LEMMA BuildFailsIInv ==
  ASSUME IInv, NEW p \in Procs, BuildFails(p)
  PROVE  IInv'
<1> USE DEF BuildFails, Aborts, stores, files, git
<1>1. ~ InFlight(p) /\ BindingKept /\ StoreTypes' /\ FileTypes'
  BY Parts DEF InFlight, BindingKept, StoreTypes, FileTypes
<1> QED BY <1>1, FinishStep

\* A command that goes on and remembers nothing new.
LEMMA GotoStep ==
  ASSUME IInv, NEW p \in Procs, NEW l \in Labels, Goto(p, l),
         StoreTypes', FileTypes',
         UNCHANGED <<line, log, ckpts, req, lease, commits, ref, loc>>
  PROVE  /\ CommandTypes' /\ pc'[p] = l /\ loc'[p] = loc[p] /\ BindingKept
         /\ \A q \in Procs : q # p => pc'[q] = pc[q] /\ loc'[q] = loc[q]
BY Parts DEF CommandTypes, Goto, BindingKept

LEMMA ActivateIInv ==
  ASSUME IInv, NEW p \in Procs, Activate(p)
  PROVE  IInv'
<1> USE DEF Activate, stores, git
<1> DEFINE l == IF loc[p].op = "rollback" THEN "update_ref" ELSE "advance"
<1>1. l \in Labels /\ loc[p].who \in AllNames
  BY OneCommand DEF Labels, Fits, AllNames
<1>2. StoreTypes' /\ FileTypes'
  BY <1>1, Parts DEF StoreTypes, FileTypes
<1>3. /\ CommandTypes' /\ pc'[p] = l /\ loc'[p] = loc[p] /\ BindingKept
      /\ \A q \in Procs : q # p => pc'[q] = pc[q] /\ loc'[q] = loc[q]
  BY <1>1, <1>2, GotoStep
<1>4. Fits(p)'
  BY <1>3, OneCommand DEF Fits, Committed
<1>5. (Built(p)' => Built(p)) /\ ~ InFlight(p)' /\ ~ InFlight(p)
  BY <1>3, OneCommand DEF Built, InFlight, Fits
<1> QED BY <1>2, <1>3, <1>4, <1>5, CommandStep

LEMMA FreezeFailsIInv ==
  ASSUME IInv, NEW p \in Procs, FreezeFails(p)
  PROVE  IInv'
<1> USE DEF FreezeFails, stores, git
<1>1. ~ InFlight(p) /\ BindingKept /\ StoreTypes' /\ FileTypes'
  BY Parts DEF InFlight, BindingKept, StoreTypes, FileTypes
<1> QED BY <1>1, FinishStep

LEMMA AdvanceFailsIInv ==
  ASSUME IInv, NEW p \in Procs, AdvanceFails(p)
  PROVE  IInv'
<1> USE DEF AdvanceFails, stores, files, git
<1> DEFINE l == IF loc[p].op = "checkpoint" THEN "restore" ELSE "undo"
<1>1. l \in Labels /\ StoreTypes' /\ FileTypes'
  BY Parts DEF Labels, StoreTypes, FileTypes
<1>2. /\ CommandTypes' /\ pc'[p] = l /\ loc'[p] = loc[p] /\ BindingKept
      /\ \A q \in Procs : q # p => pc'[q] = pc[q] /\ loc'[q] = loc[q]
  BY <1>1, GotoStep
<1>3. Fits(p)'
  BY <1>2, OneCommand DEF Fits, Committed, Locals
<1>4. (Built(p)' <=> Built(p)) /\ (InFlight(p)' <=> InFlight(p))
  BY <1>2, OneCommand DEF Built, InFlight, Fits, Locals
<1> QED BY <1>1, <1>2, <1>3, <1>4, CommandStep

LEMMA UndoFailsIInv ==
  ASSUME IInv, NEW p \in Procs, UndoFails(p)
  PROVE  IInv'
<1> USE DEF UndoFails, files, git
<1>1. StoreTypes' /\ FileTypes' /\ BindingKept /\ Built(p)
  BY Parts, OneCommand DEF StoreTypes, FileTypes, BindingKept, Built, Fits
<1>2. /\ CommandTypes' /\ pc'[p] \in {"idle", "restore"}
      /\ loc'[p] = IF pc'[p] = "idle" THEN Idle ELSE loc[p]
      /\ pc'[p] = "restore" => loc[p].op = "rollback"
      /\ \A q \in Procs : q # p => pc'[q] = pc[q] /\ loc'[q] = loc[q]
  <2>1. CASE loc[p].op = "integrate"
    <3>1. Finish(p)
      BY <2>1
    <3> QED BY <3>1, Returning
  <2>2. CASE loc[p].op # "integrate"
    <3>1. /\ loc[p].op = "rollback" /\ "restore" \in Labels /\ Goto(p, "restore")
          /\ UNCHANGED <<line, log, ckpts, req, lease, commits, ref, loc>>
      BY <2>2, OneCommand DEF Fits, Labels
    <3>2. /\ CommandTypes' /\ pc'[p] = "restore" /\ loc'[p] = loc[p]
          /\ \A q \in Procs : q # p => pc'[q] = pc[q] /\ loc'[q] = loc[q]
      BY <3>1, <1>1, GotoStep
    <3> QED BY <3>1, <3>2
  <2> QED BY <2>1, <2>2
<1>3. Fits(p)'
  <2>1. CASE pc'[p] = "idle"
    BY <2>1, <1>2 DEF Fits, Idle
  <2>2. CASE pc'[p] = "restore"
    BY <2>2, <1>2, OneCommand DEF Fits, Committed
  <2> QED BY <2>1, <2>2, <1>2
<1>4. ~ Built(p)' /\ ~ InFlight(p)'
  BY <1>2 DEF Built, InFlight
<1> QED BY <1>1, <1>2, <1>3, <1>4, CommandStep

LEMMA RestoreIInv ==
  ASSUME IInv, NEW p \in Procs, Restore(p)
  PROVE  IInv'
<1> USE DEF Restore, stores, git
<1>1. ~ InFlight(p) /\ BindingKept /\ StoreTypes' /\ FileTypes'
  BY Parts, OneCommand DEF InFlight, BindingKept, StoreTypes, FileTypes, Fits
<1> QED BY <1>1, FinishStep

LEMMA PushSkippedIInv ==
  ASSUME IInv, NEW p \in Procs, PushSkipped(p)
  PROVE  IInv'
<1> USE DEF PushSkipped, stores, files, git
<1>1. "close" \in Labels /\ StoreTypes' /\ FileTypes'
  BY Parts DEF Labels, StoreTypes, FileTypes
<1>2. /\ CommandTypes' /\ pc'[p] = "close" /\ loc'[p] = loc[p] /\ BindingKept
      /\ \A q \in Procs : q # p => pc'[q] = pc[q] /\ loc'[q] = loc[q]
  BY <1>1, GotoStep
<1>3. Fits(p)'
  BY <1>2, OneCommand DEF Fits, Committed
<1>4. ~ Built(p)' /\ ~ InFlight(p)' /\ ~ InFlight(p)
  BY <1>2 DEF Built, InFlight
<1> QED BY <1>1, <1>2, <1>3, <1>4, CommandStep

LEMMA PushIInv ==
  ASSUME IInv, NEW p \in Procs, Push(p)
  PROVE  IInv'
<1> USE DEF Push, stores, files
<1>1. "close" \in Labels /\ StoreTypes' /\ FileTypes'
  BY Parts DEF Labels, StoreTypes, FileTypes
<1>2. /\ CommandTypes' /\ pc'[p] = "close" /\ loc'[p] = loc[p] /\ BindingKept
      /\ \A q \in Procs : q # p => pc'[q] = pc[q] /\ loc'[q] = loc[q]
  BY <1>1, GotoStep
<1>3. Fits(p)'
  BY <1>2, OneCommand DEF Fits, Committed
<1>4. ~ Built(p)' /\ ~ InFlight(p)' /\ ~ InFlight(p)
  BY <1>2 DEF Built, InFlight
<1>5. loc[p].result \in Committed
  BY OneCommand DEF Fits, Committed
<1> QED BY <1>1, <1>2, <1>3, <1>4, <1>5, CommandStep

LEMMA PushFailsIInv ==
  ASSUME IInv, NEW p \in Procs, PushFails(p)
  PROVE  IInv'
<1> USE DEF PushFails, files, git
<1>1. Position(p) \in DOMAIN log
  BY OneCommand DEF Position, Fits
<1>2. ~ InFlight(p) /\ BindingKept /\ StoreTypes' /\ FileTypes'
  BY <1>1, Parts DEF InFlight, BindingKept, StoreTypes, FileTypes
<1> QED BY <1>2, FinishStep

LEMMA PushRefusedIInv ==
  ASSUME IInv, NEW p \in Procs, PushRefused(p)
  PROVE  IInv'
<1> USE DEF PushRefused, Aborts, stores, files, git
<1>1. ~ InFlight(p) /\ BindingKept /\ StoreTypes' /\ FileTypes'
  BY Parts DEF InFlight, BindingKept, StoreTypes, FileTypes
<1> QED BY <1>1, FinishStep

LEMMA CloseIInv ==
  ASSUME IInv, NEW p \in Procs, Close(p)
  PROVE  IInv'
<1> USE DEF Close, files, git
<1>1. CASE loc[p].op = "integrate"
  <2> DEFINE r == loc[p].who
  <2>1. r \in Requests /\ req' = [req EXCEPT ![r].phase = "CLOSED"]
    BY <1>1, OneCommand DEF Fits
  <2> HIDE DEF r
  <2>2. req' \in [Requests -> [phase : {"NONE", "PENDING", "VERIFIED", "CLOSED"},
                              base : CommitIds \cup {0}, gen : Nat]]
    BY ONLY <2>1, Parts, PhaseTypes, IInv
  <2>3. StoreTypes' /\ FileTypes'
    BY <2>1, <2>2, Parts DEF StoreTypes, FileTypes
  <2>4. BindingKept /\ ~ InFlight(p)
    BY <2>1, Parts DEF BindingKept, StoreTypes, InFlight
  <2> QED BY <2>3, <2>4, FinishStep
<1>2. CASE loc[p].op # "integrate"
  <2>1. ~ InFlight(p) /\ BindingKept /\ StoreTypes' /\ FileTypes'
    BY <1>2, Parts DEF InFlight, BindingKept, StoreTypes, FileTypes
  <2> QED BY <2>1, FinishStep
<1> QED BY <1>1, <1>2

LEMMA CrashIInv ==
  ASSUME IInv, NEW p \in Procs, Crash(p)
  PROVE  IInv'
<1> USE DEF Crash, stores, files, git
<1>1. StoreTypes' /\ FileTypes' /\ BindingKept
  BY Parts DEF StoreTypes, FileTypes, BindingKept
<1>2. lease' \in [Resources -> [owner : Procs \cup {Nobody, Ghost}, stale : BOOLEAN]]
  <2>1. ASSUME NEW x \in Resources
        PROVE  lease'[x] \in [owner : Procs \cup {Nobody, Ghost}, stale : BOOLEAN]
    BY Parts DEF CommandTypes
  <2> QED BY <2>1
<1>3. /\ CommandTypes' /\ pc'[p] = "idle" /\ loc'[p] = Idle
      /\ \A q \in Procs : q # p => pc'[q] = pc[q] /\ loc'[q] = loc[q]
  BY <1>2, Parts, Moving, IdleTyped DEF Goto
<1>4. Fits(p)' /\ ~ Built(p)' /\ ~ InFlight(p)'
  BY <1>3 DEF Fits, Built, InFlight, Idle
<1>5. InFlight(p) => Built(p)
  BY OneCommand
<1> QED BY <1>1, <1>3, <1>4, <1>5, CommandStep

-----------------------------------------------------------------------------
(* The actions that build commits, move the branch, or move the line.      *)

LEMMA BuildIInv ==
  ASSUME IInv, NEW p \in Procs, Build(p)
  PROVE  IInv'
<1> USE DEF Build, stores, files
<1> DEFINE new == Len(commits) + 1
           l   == IF loc[p].op = "integrate" THEN "update_ref" ELSE "link"
           m   == [loc[p] EXCEPT !.result = new, !.prev = link]
           c   == [parent |-> loc[p].head, tree |-> TreeOf(p)]
<1>1. /\ new \in CommitIds /\ Len(commits) \in Nat /\ link \in AllNames
      /\ commits \in Seq(CommitRecords)
  BY Parts, ConstantsAssumption DEF GitTypes, CommitIds, FileTypes
<1>2. /\ loc[p].op \in {"integrate", "rollback"} /\ loc[p].head \in Committed
      /\ ~ Built(p) /\ ~ InFlight(p)
  BY OneCommand DEF Fits, Built, InFlight
<1>3. c \in CommitRecords
  <2>1. Committed \subseteq 1 .. Len(commits) /\ loc[p].head \in CommitIds
    BY <1>1, <1>2, Parts, ConstantsAssumption DEF CommitsApart, CommitIds, GitTypes
  <2>2. CASE loc[p].op = "integrate"
    BY <1>1, <2>1, <2>2 DEF TreeOf, CommitRecords
  <2>3. CASE loc[p].op = "rollback"
    <3>1. ckpts[loc[p].who] \in Committed
      BY <2>3, OneCommand, Parts DEF Fits, CommitsApart
    <3>2. commits[ckpts[loc[p].who]] \in CommitRecords
      BY <1>1, <2>1, <3>1
    <3> QED BY <2>1, <2>3, <3>2 DEF TreeOf, CommitRecords
  <2> QED BY <1>2, <2>2, <2>3
<1>4. /\ m \in Locals /\ l \in Labels
      /\ m.op = loc[p].op /\ m.who = loc[p].who /\ m.head = loc[p].head
      /\ m.gen = loc[p].gen /\ m.result = new /\ m.prev = link
  BY <1>1, OneCommand DEF Locals, Labels
<1> HIDE DEF c
<1>5. /\ CommandTypes' /\ pc'[p] = l /\ loc'[p] = m
      /\ \A q \in Procs : q # p => pc'[q] = pc[q] /\ loc'[q] = loc[q]
  BY <1>4, Parts, Moving DEF Goto, CommandTypes
<1> HIDE DEF m
<1>6. /\ commits' \in Seq(CommitRecords) /\ Len(commits') = new
      /\ \A i \in 1 .. Len(commits) : commits'[i] = commits[i]
      /\ commits'[new] = c
  BY <1>1, <1>3, AppendFacts DEF c
<1>7. TypeOK'
  BY <1>1, <1>5, <1>6, Parts DEF TypeOK, StoreTypes, GitTypes, FileTypes
<1>8. Committed' = Committed /\ BindingKept
  BY DEF Committed, BindingKept
<1>9. LocalsFit'
  <2>1. Fits(p)'
    BY <1>1, <1>2, <1>4, <1>5, <1>8, OneCommand DEF Fits
  <2>2. ASSUME NEW q \in Procs, q # p PROVE Fits(q)'
    BY <1>5, <1>8, <2>2, Parts, Undisturbed DEF LocalsFit
  <2> QED BY <2>1, <2>2 DEF LocalsFit
<1>10. ASSUME NEW q \in Procs
       PROVE  /\ InFlight(q)' <=> InFlight(q)
              /\ q # p => (Built(q)' <=> Built(q)) /\ loc'[q] = loc[q]
              /\ InFlight(q) => q # p
  BY <1>2, <1>4, <1>5 DEF InFlight, Built
<1>11. CommitsApart'
  <2>1. /\ Committed' \subseteq 1 .. Len(commits')
        /\ orphans' \subseteq 1 .. Len(commits') /\ orphans' \cap Committed' = {}
        /\ \A n \in AllNames : ckpts'[n] \in Committed' \cup {0}
    BY <1>1, <1>6, <1>8, Parts DEF CommitsApart
  <2>2. new \notin Committed \cup orphans
    BY <1>1, Parts DEF CommitsApart
  <2>3. ASSUME NEW q \in Procs, Built(q)'
        PROVE  /\ loc'[q].result \in 1 .. Len(commits')
               /\ loc'[q].result \notin Committed' \cup orphans'
               /\ commits'[loc'[q].result].parent = loc'[q].head
               /\ \A x \in Procs : Built(x)' /\ loc'[x].result = loc'[q].result => x = q
    <3>1. \A x \in Procs : x # p /\ Built(x)' => loc'[x].result \in 1 .. Len(commits)
      BY <1>10, Parts DEF CommitsApart
    <3>2. CASE q = p
      <4>1. loc'[q].result = new /\ loc'[q].head = loc[p].head
        BY <1>4, <1>5, <3>2
      <4>2. /\ loc'[q].result \in 1 .. Len(commits')
            /\ loc'[q].result \notin Committed' \cup orphans'
            /\ commits'[loc'[q].result].parent = loc'[q].head
        BY <1>1, <1>6, <1>8, <2>2, <4>1 DEF c
      <4>3. \A x \in Procs : Built(x)' /\ loc'[x].result = loc'[q].result => x = q
        BY <1>1, <3>1, <3>2, <4>1
      <4> QED BY <4>2, <4>3
    <3>3. CASE q # p
      <4>1. Built(q) /\ loc'[q] = loc[q]
        BY <1>10, <2>3, <3>3
      <4>2. /\ loc[q].result \in 1 .. Len(commits)
            /\ loc[q].result \notin Committed \cup orphans
            /\ commits[loc[q].result].parent = loc[q].head
            /\ \A x \in Procs : Built(x) /\ loc[x].result = loc[q].result => x = q
        BY <4>1, Parts DEF CommitsApart
      <4>3. loc'[p].result = new
        BY <1>4, <1>5
      <4>4. ASSUME NEW x \in Procs, Built(x)', loc'[x].result = loc'[q].result
            PROVE  x = q
        <5>1. x # p
          <6> SUFFICES ASSUME x = p PROVE FALSE
            OBVIOUS
          <6>1. loc[q].result = Len(commits) + 1
            BY <4>1, <4>3, <4>4
          <6> QED BY ONLY <1>1, <4>2, <6>1
        <5> QED BY <1>10, <4>1, <4>2, <4>4, <5>1
      <4>5. /\ loc[q].result \in 1 .. Len(commits')
            /\ commits'[loc[q].result] = commits[loc[q].result]
        BY <1>1, <1>6, <4>2
      <4> QED BY <1>8, <4>1, <4>2, <4>4, <4>5
    <3> QED BY <3>2, <3>3
  <2> QED BY <2>1, <2>3 DEF CommitsApart
<1>12. LinearHistory'
  <2>1. \A i \in DOMAIN log : commits'[log[i].result] = commits[log[i].result]
    BY <1>6, Parts DEF CommitsApart, Committed
  <2> QED BY <2>1, Parts DEF LinearHistory
<1>13. RefFollowsLine' /\ OneInFlight'
  BY <1>10, Parts DEF RefFollowsLine, OneInFlight
<1>14. RemoteIsCommitted' /\ RowsBound'
  BY Parts DEF RemoteIsCommitted, RowsBound
<1> QED BY <1>7, <1>9, <1>11, <1>12, <1>13, <1>14 DEF IInv

\* Only a command whose commit is not in the history holds the branch away
\* from the line, so a branch that shows a committed head shows the line's.
LEMMA RefAtCommitted ==
  ASSUME IInv, ref \in Committed
  PROVE  ref = line.head /\ \A q \in Procs : ~ InFlight(q)
<1>1. \A q \in Procs : ~ InFlight(q)
  BY OneCommand, Parts DEF OneInFlight, CommitsApart
<1> QED BY <1>1, Parts DEF RefFollowsLine, CommitsApart

LEMMA UpdateRefIInv ==
  ASSUME IInv, NEW p \in Procs, UpdateRef(p)
  PROVE  IInv'
<1> USE DEF UpdateRef
<1>0. /\ loc[p].op \in {"integrate", "rollback"} /\ loc[p].head \in Committed
      /\ ~ InFlight(p) /\ Built(p)
  BY OneCommand DEF Fits, InFlight, Built
<1>1. CASE Aborts(p)
  <2>1. BindingKept /\ StoreTypes' /\ FileTypes'
    BY <1>1, Parts DEF BindingKept, StoreTypes, FileTypes, Aborts, stores, files
  <2> QED BY <1>0, <1>1, <2>1, FinishStep DEF Aborts, stores, git
<1>2. CASE /\ loc[p].op = "rollback" /\ Goto(p, "restore")
           /\ UNCHANGED <<stores, lease, git, files, loc, orphans>>
  <2>1. "restore" \in Labels /\ StoreTypes' /\ FileTypes'
    BY <1>2, Parts DEF Labels, StoreTypes, FileTypes, stores, files
  <2>2. /\ CommandTypes' /\ pc'[p] = "restore" /\ loc'[p] = loc[p] /\ BindingKept
        /\ \A q \in Procs : q # p => pc'[q] = pc[q] /\ loc'[q] = loc[q]
    BY <1>2, <2>1, GotoStep DEF stores, git
  <2>3. Fits(p)'
    BY <1>2, <2>2, OneCommand DEF Fits, Committed, stores
  <2>4. ~ Built(p)' /\ ~ InFlight(p)'
    BY <2>2 DEF Built, InFlight
  <2> QED BY <1>0, <1>2, <2>1, <2>2, <2>3, <2>4, CommandStep DEF stores, git
<1>3. CASE /\ ref = loc[p].head /\ ref' = loc[p].result /\ Goto(p, "advance")
           /\ UNCHANGED <<stores, lease, commits, remote, files, loc, orphans>>
  <2> USE <1>3 DEF stores, files
  <2>1. line.head = loc[p].head /\ \A q \in Procs : ~ InFlight(q)
    BY <1>0, RefAtCommitted
  <2>2. "advance" \in Labels /\ StoreTypes' /\ FileTypes'
    BY Parts DEF Labels, StoreTypes, FileTypes
  <2>3. /\ CommandTypes' /\ pc'[p] = "advance" /\ loc'[p] = loc[p] /\ BindingKept
        /\ \A q \in Procs : q # p => pc'[q] = pc[q] /\ loc'[q] = loc[q]
    BY Parts DEF CommandTypes, Goto, BindingKept, Labels
  <2>4. Committed' = Committed
    BY DEF Committed
  <2>5. ASSUME NEW q \in Procs
        PROVE  (Built(q)' <=> Built(q)) /\ (InFlight(q)' => q = p) /\ InFlight(p)'
               /\ loc'[q] = loc[q]
    BY <1>0, <2>1, <2>3 DEF Built, InFlight
  <2>6. LocalsFit'
    <3>1. Fits(p)'
      BY <1>0, <2>3, <2>4, OneCommand DEF Fits
    <3>2. ASSUME NEW q \in Procs, q # p PROVE Fits(q)'
      BY <2>3, <3>2, Parts, Undisturbed DEF LocalsFit
    <3> QED BY <3>1, <3>2 DEF LocalsFit
  <2>7. TypeOK'
    <3>1. loc[p].result \in CommitIds
      BY <1>0, Parts, ConstantsAssumption DEF GitTypes, CommitsApart, CommitIds
    <3> QED BY <2>2, <2>3, <3>1, Parts DEF TypeOK, GitTypes
  <2>8. RefFollowsLine' /\ OneInFlight'
    BY <2>1, <2>5 DEF RefFollowsLine, OneInFlight
  <2>9. CommitsApart'
    BY <2>4, <2>5, Parts DEF CommitsApart
  <2>10. LinearHistory' /\ RemoteIsCommitted' /\ RowsBound'
    BY Parts DEF LinearHistory, RemoteIsCommitted, RowsBound
  <2> QED BY <2>6, <2>7, <2>8, <2>9, <2>10 DEF IInv
<1> QED BY <1>1, <1>2, <1>3 DEF RefCas

\* A command that does not move still fits when the line advances.
LEMMA Overtaken ==
  ASSUME NEW q \in Procs, Fits(q), loc[q] \in Locals, BindingKept,
         pc'[q] = pc[q], loc'[q] = loc[q],
         line.gen \in Nat, line'.gen \in Nat, line.gen <= line'.gen,
         Committed \subseteq Committed',
         \A n \in AllNames : ckpts[n] # 0 => ckpts'[n] # 0,
         \A i \in DOMAIN log : i \in DOMAIN log' /\ log'[i] = log[i]
  PROVE  Fits(q)'
<1>1. /\ loc[q].op = "integrate" => /\ loc[q].who \in Requests
                                    /\ req'[loc[q].who].phase # "NONE"
                                    /\ req'[loc[q].who].gen = loc[q].gen
      /\ loc[q].op = "rollback" => loc[q].who \in AllNames /\ ckpts'[loc[q].who] # 0
  BY DEF Fits, BindingKept
<1>2. pc[q] # "idle" => loc[q].head \in Committed' /\ loc[q].gen <= line'.gen
  BY DEF Fits, Locals
<1>3. pc[q] = "push" => \E i \in DOMAIN log' : log'[i].result = loc[q].result
  BY DEF Fits
<1> QED BY <1>1, <1>2, <1>3 DEF Fits

LEMMA AdvanceIInv ==
  ASSUME IInv, NEW p \in Procs, Advance(p)
  PROVE  IInv'
<1> USE DEF Advance, git, files
<1> DEFINE n == Len(log) + 1
           row == Row(p)
<1>1. /\ loc[p].op \in {"integrate", "rollback"} /\ InFlight(p) /\ Built(p)
      /\ line.head = loc[p].head /\ line.gen = loc[p].gen
  BY OneCommand DEF Fits, Locals, InFlight, Unmoved
<1>2. /\ ref = loc[p].result /\ \A q \in Procs : InFlight(q) => q = p
      /\ loc[p].result \in 1 .. Len(commits)
      /\ loc[p].result \notin Committed \cup orphans
      /\ commits[loc[p].result].parent = loc[p].head
      /\ \A q \in Procs : Built(q) /\ loc[q].result = loc[p].result => q = p
  BY <1>1, Parts DEF OneInFlight, CommitsApart
<1>3. /\ line.head \in CommitIds /\ line.gen \in Nat /\ log \in Seq(Rows)
      /\ Len(log) \in Nat /\ loc[p].result \in CommitIds
  BY <1>2, Parts, ConstantsAssumption DEF StoreTypes, GitTypes, CommitIds
<1>4. /\ row \in Rows /\ row.expHead = line.head /\ row.expGen = line.gen
      /\ row.result = loc[p].result /\ row.who = loc[p].who
      /\ row.kind = "CANDIDATE" <=> loc[p].op = "integrate"
  BY <1>1, <1>3, OneCommand DEF Row, Rows, Fits
<1>5. line' = [head |-> loc[p].result, gen |-> line.gen + 1,
               ckpt |-> IF loc[p].op = "rollback" THEN loc[p].who ELSE line.ckpt]
  BY <1>1
<1> HIDE DEF row
<1>6. /\ log' \in Seq(Rows) /\ Len(log') = n /\ DOMAIN log' = 1 .. n
      /\ DOMAIN log = 1 .. Len(log)
      /\ \A i \in DOMAIN log : i \in DOMAIN log' /\ log'[i] = log[i]
      /\ log'[n] = row
  BY <1>3, <1>4, AppendFacts DEF row
<1>7. /\ CommandTypes' /\ pc'[p] = "push" /\ loc'[p] = loc[p] /\ BindingKept
      /\ \A q \in Procs : q # p => pc'[q] = pc[q] /\ loc'[q] = loc[q]
  BY Parts DEF CommandTypes, Goto, BindingKept, Labels
<1>8. Committed' = Committed \cup {loc[p].result}
  BY <1>3, <1>4, <1>6 DEF Committed
<1>9. TypeOK'
  <2>1. line' \in [head : CommitIds, gen : Nat, ckpt : AllNames]
    BY <1>3, <1>5, OneCommand, Parts DEF StoreTypes, Fits
  <2> QED BY <1>6, <1>7, <2>1, Parts DEF TypeOK, StoreTypes, GitTypes, FileTypes
<1>10. LinearHistory'
  <2>1. line'.head = log'[n].result /\ log' # << >>
    BY <1>3, <1>4, <1>5, <1>6
  <2>2. /\ line.head = IF log = << >> THEN Base ELSE log[Len(log)].result
        /\ \A i \in DOMAIN log :
             /\ log[i].expHead = IF i = 1 THEN Base ELSE log[i - 1].result
             /\ commits[log[i].result].parent = log[i].expHead
             /\ log[i].expGen < line.gen
             /\ \A j \in DOMAIN log : i < j => log[i].expGen < log[j].expGen
    BY Parts DEF LinearHistory
  <2>3. ASSUME NEW i \in DOMAIN log'
        PROVE  /\ log'[i].expHead = IF i = 1 THEN Base ELSE log'[i - 1].result
               /\ commits'[log'[i].result].parent = log'[i].expHead
               /\ log'[i].expGen < line'.gen
               /\ \A j \in DOMAIN log' : i < j => log'[i].expGen < log'[j].expGen
    <3>1. line'.gen = line.gen + 1 /\ i \in 1 .. n
      BY <1>5, <1>6
    <3>2. CASE i = n
      <4>1. i - 1 = Len(log) /\ (i = 1 <=> log = << >>)
        BY <1>3, <3>2
      <4>2. i # 1 => log'[i - 1] = log[Len(log)]
        <5>1. i # 1 => Len(log) \in DOMAIN log
          BY <1>3, <1>6, <3>2
        <5> QED BY <1>6, <4>1, <5>1
      <4>3. log'[i] = row /\ commits' = commits
        BY <1>6, <3>2
      <4>4. row.expHead = IF i = 1 THEN Base ELSE log'[i - 1].result
        BY <1>4, <2>2, <4>1, <4>2
      <4>5. commits[row.result].parent = row.expHead /\ row.expGen < line'.gen
        BY <1>1, <1>2, <1>3, <1>4, <3>1
      <4>6. \A j \in DOMAIN log' : ~ (i < j)
        BY <1>3, <1>6, <3>2
      <4> QED BY <4>3, <4>4, <4>5, <4>6
    <3>3. CASE i # n
      <4>1. i \in DOMAIN log /\ log'[i] = log[i] /\ (i # 1 => i - 1 \in DOMAIN log)
        BY <1>3, <1>6, <3>1, <3>3
      <4>2. i # 1 => log'[i - 1] = log[i - 1]
        BY <1>6, <4>1
      <4>3. log[i].expGen \in Nat /\ log[i].expGen < line.gen
        BY <2>2, <4>1, Parts, RowTypes
      <4>4. ASSUME NEW j \in DOMAIN log', i < j
            PROVE  log'[i].expGen < log'[j].expGen
        <5>1. CASE j = n
          BY <1>4, <1>6, <4>1, <4>3, <5>1
        <5>2. CASE j # n
          <6>1. j \in DOMAIN log
            BY <1>3, <1>6, <5>2
          <6> QED BY <1>6, <2>2, <4>1, <4>4, <6>1
        <5> QED BY <5>1, <5>2
      <4>5. log'[i].expGen < line'.gen
        BY <1>3, <3>1, <4>1, <4>3
      <4>6. commits'[log'[i].result].parent = log'[i].expHead
        BY <2>2, <4>1
      <4>7. log'[i].expHead = IF i = 1 THEN Base ELSE log'[i - 1].result
        BY <2>2, <4>1, <4>2
      <4> QED BY <4>4, <4>5, <4>6, <4>7
    <3> QED BY <3>2, <3>3
  <2> QED BY <1>6, <2>1, <2>3 DEF LinearHistory
<1>11. ASSUME NEW q \in Procs
       PROVE  /\ ~ InFlight(q)' /\ ~ Built(p)'
              /\ q # p => (Built(q)' <=> Built(q)) /\ loc'[q] = loc[q]
  BY <1>2, <1>7 DEF InFlight, Built
<1>12. RefFollowsLine' /\ OneInFlight'
  BY <1>2, <1>5, <1>11 DEF RefFollowsLine, OneInFlight
<1>13. RemoteIsCommitted'
  BY <1>6, Parts DEF RemoteIsCommitted
<1>14. LocalsFit'
  <2>1. Fits(p)'
    <3>1. n \in DOMAIN log' /\ log'[n].result = loc[p].result
      BY <1>3, <1>4, <1>6
    <3>2. loc[p].head \in Committed' /\ loc[p].gen <= line'.gen
      BY <1>1, <1>3, <1>5, <1>8, OneCommand DEF Fits
    <3> QED BY <1>1, <1>7, <3>1, <3>2, OneCommand DEF Fits
  <2>2. ASSUME NEW q \in Procs, q # p PROVE Fits(q)'
    <3>1. line'.gen \in Nat /\ line.gen <= line'.gen
      BY <1>3, <1>5
    <3> QED BY <1>3, <1>6, <1>7, <1>8, <2>2, <3>1, OneCommand, Overtaken
  <2> QED BY <2>1, <2>2 DEF LocalsFit
<1>15. CommitsApart'
  <2>1. /\ Committed' \subseteq 1 .. Len(commits')
        /\ orphans' \subseteq 1 .. Len(commits') /\ orphans' \cap Committed' = {}
        /\ \A x \in AllNames : ckpts'[x] \in Committed' \cup {0}
    BY <1>2, <1>8, Parts DEF CommitsApart
  <2>2. ASSUME NEW q \in Procs, Built(q)'
        PROVE  /\ loc'[q].result \in 1 .. Len(commits')
               /\ loc'[q].result \notin Committed' \cup orphans'
               /\ commits'[loc'[q].result].parent = loc'[q].head
               /\ \A x \in Procs : Built(x)' /\ loc'[x].result = loc'[q].result => x = q
    <3>1. q # p /\ Built(q) /\ loc'[q] = loc[q] /\ loc[q].result # loc[p].result
      BY <1>2, <1>11, <2>2
    <3> QED BY <1>8, <1>11, <3>1, Parts DEF CommitsApart
  <2> QED BY <2>1, <2>2 DEF CommitsApart
<1>16. RowsBound'
  <2>1. SUFFICES ASSUME NEW i \in DOMAIN log', log'[i].kind = "CANDIDATE"
                 PROVE  /\ log'[i].who \in Requests /\ req'[log'[i].who].phase # "NONE"
                        /\ req'[log'[i].who].gen = log'[i].expGen
    BY DEF RowsBound
  <2>2. CASE i = n
    BY <1>1, <1>4, <1>6, <2>1, <2>2, OneCommand DEF Fits
  <2>3. CASE i # n
    <3>1. i \in DOMAIN log /\ log'[i] = log[i]
      BY <1>3, <1>6, <2>3
    <3> QED BY <2>1, <3>1, Parts DEF RowsBound
  <2> QED BY <2>2, <2>3
<1> QED BY <1>9, <1>10, <1>12, <1>13, <1>14, <1>15, <1>16 DEF IInv

LEMMA AdvanceCheckpointIInv ==
  ASSUME IInv, NEW p \in Procs, AdvanceCheckpoint(p)
  PROVE  IInv'
<1> USE DEF AdvanceCheckpoint, git, files
<1>1. /\ loc[p].who \in Names /\ loc[p].head \in Committed
      /\ ~ InFlight(p) /\ ~ Built(p) /\ line.gen = loc[p].gen
      /\ line.gen \in Nat
  BY OneCommand, Parts DEF Fits, InFlight, Built, Unmoved, StoreTypes
<1>2. /\ line'.head = line.head /\ line'.gen = line.gen + 1
      /\ line' \in [head : CommitIds, gen : Nat, ckpt : AllNames]
  <2>1. line' = [head |-> line.head, gen |-> line.gen + 1, ckpt |-> loc[p].who]
    BY <1>1, Parts DEF StoreTypes
  <2>2. line.head \in CommitIds /\ loc[p].who \in AllNames
    BY <1>1, Parts DEF StoreTypes, AllNames
  <2> QED BY ONLY <1>1, <2>1, <2>2
<1>3. /\ CommandTypes' /\ pc'[p] = "idle" /\ loc'[p] = Idle
      /\ \A q \in Procs : q # p => pc'[q] = pc[q] /\ loc'[q] = loc[q]
  BY Returning
<1>4. Committed' = Committed /\ BindingKept
  BY DEF Committed, BindingKept
<1>5. \A x \in AllNames : ckpts'[x] = IF x = loc[p].who THEN loc[p].head ELSE ckpts[x]
  BY <1>1, Parts DEF StoreTypes
<1>6. Committed \subseteq CommitIds \ {0}
  BY Parts, ConstantsAssumption DEF CommitsApart, GitTypes, CommitIds
<1>7. TypeOK'
  <2>1. ckpts' \in [AllNames -> CommitIds \cup {0}]
    BY <1>1, <1>6, Parts DEF StoreTypes
  <2> QED BY <1>2, <1>3, <2>1, Parts DEF TypeOK, StoreTypes, GitTypes, FileTypes
<1>8. ASSUME NEW q \in Procs
      PROVE  /\ (Built(q)' <=> Built(q)) /\ (InFlight(q)' <=> InFlight(q))
             /\ Built(q) => loc'[q] = loc[q]
  BY <1>1, <1>3 DEF Built, InFlight, Idle
<1>9. LocalsFit'
  <2>1. Fits(p)'
    BY <1>3 DEF Fits, Idle
  <2>2. ASSUME NEW q \in Procs, q # p PROVE Fits(q)'
    <3>1. line'.gen \in Nat /\ line.gen <= line'.gen
      BY <1>1, <1>2
    <3>2. \A x \in AllNames : ckpts[x] # 0 => ckpts'[x] # 0
      BY <1>1, <1>5, <1>6
    <3> QED BY <1>1, <1>3, <1>4, <2>2, <3>1, <3>2, OneCommand, Overtaken
  <2> QED BY <2>1, <2>2 DEF LocalsFit
<1>10. LinearHistory'
  <2>1. \A i \in DOMAIN log : log[i].expGen \in Nat
    BY Parts, RowTypes
  <2> QED BY <1>1, <1>2, <2>1, Parts DEF LinearHistory
<1>11. RefFollowsLine' /\ OneInFlight'
  BY <1>2, <1>8, OneCommand, Parts DEF RefFollowsLine, OneInFlight
<1>12. CommitsApart'
  BY <1>1, <1>4, <1>5, <1>8, Parts DEF CommitsApart
<1>13. RemoteIsCommitted' /\ RowsBound'
  BY Parts DEF RemoteIsCommitted, RowsBound
<1> QED BY <1>7, <1>9, <1>10, <1>11, <1>12, <1>13 DEF IInv

LEMMA UndoIInv ==
  ASSUME IInv, NEW p \in Procs, Undo(p)
  PROVE  IInv'
<1> USE DEF Undo, stores, files
<1>1. /\ InFlight(p) /\ Built(p) /\ loc[p].op \in {"integrate", "rollback"}
      /\ loc[p].head \in Committed
  BY OneCommand DEF InFlight, Fits
<1>2. line.head = loc[p].head /\ \A q \in Procs : InFlight(q) => q = p
  BY <1>1, Parts DEF OneInFlight
<1>3. StoreTypes' /\ FileTypes' /\ BindingKept /\ Committed' = Committed
  BY Parts DEF StoreTypes, FileTypes, BindingKept, Committed
<1>4. /\ CommandTypes' /\ pc'[p] \in {"idle", "restore"}
      /\ loc'[p] = IF pc'[p] = "idle" THEN Idle ELSE loc[p]
      /\ pc'[p] = "restore" => loc[p].op = "rollback"
      /\ \A q \in Procs : q # p => pc'[q] = pc[q] /\ loc'[q] = loc[q]
  <2>1. CASE loc[p].op = "integrate"
    <3>1. Finish(p)
      BY <2>1
    <3> QED BY <3>1, Returning
  <2>2. CASE loc[p].op = "rollback"
    <3>1. Goto(p, "restore") /\ UNCHANGED <<lease, loc>>
      BY <2>2
    <3> QED BY <2>2, <3>1, Parts DEF CommandTypes, Goto, Labels
  <2> QED BY <1>1, <2>1, <2>2
<1>5. LocalsFit'
  <2>1. Fits(p)'
    <3>1. CASE pc'[p] = "idle"
      BY <3>1, <1>4 DEF Fits, Idle
    <3>2. CASE pc'[p] = "restore"
      BY <3>2, <1>3, <1>4, OneCommand DEF Fits
    <3> QED BY <3>1, <3>2, <1>4
  <2>2. ASSUME NEW q \in Procs, q # p PROVE Fits(q)'
    BY <1>3, <1>4, <2>2, Parts, Undisturbed DEF LocalsFit
  <2> QED BY <2>1, <2>2 DEF LocalsFit
<1>6. ASSUME NEW q \in Procs
      PROVE  ~ InFlight(q)' /\ (Built(q)' => Built(q) /\ loc'[q] = loc[q])
  BY <1>2, <1>4 DEF InFlight, Built
<1>7. TypeOK'
  <2>1. loc[p].head \in CommitIds
    BY <1>1, Parts, ConstantsAssumption DEF GitTypes, CommitsApart, CommitIds
  <2> QED BY <1>3, <1>4, <2>1, Parts DEF TypeOK, GitTypes
<1>8. RefFollowsLine' /\ OneInFlight'
  BY <1>2, <1>6 DEF RefFollowsLine, OneInFlight
<1>9. CommitsApart'
  BY <1>3, <1>6, Parts DEF CommitsApart
<1>10. LinearHistory' /\ RemoteIsCommitted' /\ RowsBound'
  BY Parts DEF LinearHistory, RemoteIsCommitted, RowsBound
<1> QED BY <1>5, <1>7, <1>8, <1>9, <1>10 DEF IInv

-----------------------------------------------------------------------------
(* The theorems.                                                           *)

LEMMA NextIInv ==
  ASSUME IInv, [Next]_vars
  PROVE  IInv'
<1>1. ASSUME NEW r \in Requests, CreateRequest(r) \/ Verified(r) PROVE IInv'
  BY <1>1, CreateRequestIInv, VerifiedIInv
<1>2. ASSUME NEW p \in Procs, Start(p) PROVE IInv'
  BY <1>2, IntegrateStartIInv, IntegrateReopensIInv, RollbackStartIInv,
     CheckpointStartIInv DEF Start
<1>3. ASSUME NEW p \in Procs, Step(p) PROVE IInv'
  BY <1>3, IntegrateLeaseIInv, CheckpointCopyIInv, BuildIInv, BuildFailsIInv,
     ActivateIInv, FreezeFailsIInv, UpdateRefIInv, AdvanceIInv,
     AdvanceCheckpointIInv, AdvanceFailsIInv, UndoIInv, UndoFailsIInv,
     RestoreIInv, PushSkippedIInv, PushIInv, PushFailsIInv, PushRefusedIInv,
     CloseIInv DEF Step
<1>4. CASE UNCHANGED vars
  <2>1. StoreTypes' /\ FileTypes' /\ CommandTypes' /\ BindingKept
    BY <1>4, Parts DEF vars, stores, files, StoreTypes, FileTypes, CommandTypes,
       BindingKept
  <2> QED BY <1>4, <2>1, StoreStep DEF vars, stores, git
<1> QED BY <1>1, <1>2, <1>3, <1>4, CrashIInv, RecordMetricIInv, LeaseExpiresIInv
        DEF Next

\* The strengthening holds in every reachable state.
THEOREM Invariance == Spec => []IInv
BY InitIInv, NextIInv, PTL DEF Spec

\* Every variable keeps its type.
THEOREM TypeCorrect == Spec => []TypeOK
<1>1. IInv => TypeOK
  BY DEF IInv
<1> QED BY <1>1, Invariance, PTL

\* No update of the line is lost or forked (advance_experiment_line).
THEOREM HistoryIsLinear == Spec => []LinearHistory
<1>1. IInv => LinearHistory
  BY DEF IInv
<1> QED BY <1>1, Invariance, PTL

\* A request enters the line at most once: two candidate rows of one request
\* would carry one generation, and generations only grow.
THEOREM IntegrationIsUnique == Spec => []IntegratedAtMostOnce
<1>1. ASSUME IInv PROVE IntegratedAtMostOnce
  <2> SUFFICES ASSUME NEW i \in DOMAIN log, NEW j \in DOMAIN log,
                      log[i].kind = "CANDIDATE", log[j].kind = "CANDIDATE",
                      log[i].who = log[j].who
               PROVE  i = j
    BY DEF IntegratedAtMostOnce
  <2>1. log[i].expGen = log[j].expGen
    BY <1>1, Parts DEF RowsBound
  <2>2. i \in Nat /\ j \in Nat /\ log[i].expGen \in Nat
    BY <1>1, Parts, RowTypes DEF StoreTypes
  <2>3. ~ (i < j) /\ ~ (j < i)
    BY <1>1, <2>1, <2>2, Parts DEF LinearHistory
  <2> QED BY <2>2, <2>3
<1> QED BY <1>1, Invariance, PTL

\* At most one command is between the Git ref and the row, lease or no lease.
THEOREM OneAtATime == Spec => []OneInFlight
<1>1. IInv => OneInFlight
  BY DEF IInv
<1> QED BY <1>1, Invariance, PTL

\* The branch leaves the row only for a command in between, or an orphan.
THEOREM RefIsAccounted == Spec => []RefFollowsLine
<1>1. IInv => RefFollowsLine
  BY DEF IInv
<1> QED BY <1>1, Invariance, PTL

\* Only committed integrations are published.
THEOREM PublishedIsCommitted == Spec => []RemoteIsCommitted
<1>1. IInv => RemoteIsCommitted
  BY DEF IInv
<1> QED BY <1>1, Invariance, PTL

\* A line whose branch was left behind by a dead command never moves again:
\* only an advance moves the head, its command is between the ref and the
\* row, and then the ref shows a commit that is no orphan.
THEOREM DivergenceStops == Spec => DivergedLineStops
<1>1. ASSUME IInv, [Next]_vars, ref \in orphans PROVE UNCHANGED line.head
  <2>1. ASSUME NEW p \in Procs PROVE ~ Advance(p)
    <3> SUFFICES ASSUME Advance(p) PROVE FALSE
      OBVIOUS
    <3>1. InFlight(p) /\ Built(p)
      BY <1>1, OneCommand DEF Advance, InFlight
    <3> QED BY <1>1, <3>1, Parts DEF OneInFlight, CommitsApart
  <2>2. ASSUME NEW p \in Procs, AdvanceCheckpoint(p) PROVE UNCHANGED line.head
    BY <1>1, <2>2, Parts DEF AdvanceCheckpoint, StoreTypes
  <2>3. ASSUME NEW p \in Procs, Step(p) PROVE UNCHANGED line.head
    <3>1. CASE AdvanceCheckpoint(p)
      BY <2>2, <3>1
    <3>2. CASE \/ IntegrateLease(p) \/ CheckpointCopy(p) \/ Build(p) \/ BuildFails(p)
               \/ Activate(p) \/ FreezeFails(p) \/ UpdateRef(p) \/ AdvanceFails(p)
      BY <3>2 DEF IntegrateLease, CheckpointCopy, Build, BuildFails, Activate,
                  FreezeFails, UpdateRef, AdvanceFails, Aborts, stores
    <3>3. CASE \/ Undo(p) \/ UndoFails(p) \/ Restore(p) \/ PushSkipped(p) \/ Push(p)
               \/ PushFails(p) \/ PushRefused(p) \/ Close(p)
      BY <3>3 DEF Undo, UndoFails, Restore, PushSkipped, Push, PushFails, PushRefused,
                  Close, Aborts, stores
    <3> QED BY <2>1, <2>3, <3>1, <3>2, <3>3 DEF Step
  <2>4. ASSUME NEW p \in Procs, Start(p) \/ Crash(p) PROVE UNCHANGED line.head
    BY <2>4 DEF Start, IntegrateStart, IntegrateReopens, RollbackStart,
                CheckpointStart, Crash, stores
  <2>5. CASE \/ \E r \in Requests : CreateRequest(r) \/ Verified(r)
             \/ RecordMetric
             \/ \E x \in Resources : LeaseExpires(x)
    BY <2>5 DEF CreateRequest, Verified, RecordMetric, LeaseExpires, stores
  <2>6. CASE UNCHANGED vars
    BY <2>6 DEF vars, stores
  <2> QED BY <1>1, <2>3, <2>4, <2>5, <2>6 DEF Next
<1> QED BY <1>1, Invariance, PTL DEF Spec, DivergedLineStops

-----------------------------------------------------------------------------
(* The refinement of LineAuthority, and checkpoints.                       *)

\* A candidate integration produced the commit.
Produced(c) ==
  \E i \in DOMAIN log : log[i].kind = "CANDIDATE" /\ log[i].result = c

\* A checkpoint under way freezes a measured head that a candidate produced,
\* and as long as its compare-and-swap can succeed that is the last row.
CheckpointFits(p) ==
  loc[p].op = "checkpoint" /\ pc[p] \in {"copy", "link", "advance"} =>
    /\ loc[p].head \in metrics /\ Produced(loc[p].head)
    /\ loc[p].gen = line.gen => log # << >> /\ log[Len(log)].kind = "CANDIDATE"

\* A rollback under way built the tree of its checkpoint.
RollbackFits(p) ==
  loc[p].op = "rollback" /\ pc[p] \in {"link", "update_ref", "advance"} =>
    commits[loc[p].result].tree = commits[ckpts[loc[p].who]].tree

CommandFits(p) == CheckpointFits(p) /\ RollbackFits(p)

\* A rollback row names a checkpoint that exists.
RollbacksName ==
  \A i \in DOMAIN log : log[i].kind = "ROLLBACK" =>
    log[i].who \in AllNames /\ ckpts[log[i].who] # 0

Freezes == /\ CheckpointsAreSound /\ RollbacksName
           /\ \A p \in Procs : CommandFits(p)

-----------------------------------------------------------------------------
(* The stores only grow, and the generation tells when they do.            *)

Grows ==
  /\ metrics \subseteq metrics'
  /\ Len(log) <= Len(log')
  /\ \A i \in DOMAIN log : i \in DOMAIN log' /\ log'[i] = log[i]
  /\ \A c \in DOMAIN commits : c \in DOMAIN commits' /\ commits'[c] = commits[c]
  /\ \A n \in AllNames : ckpts[n] # 0 => ckpts'[n] = ckpts[n]
  /\ line.gen <= line'.gen /\ (line'.gen = line.gen => log' = log)

LEMMA NothingGrows ==
  ASSUME IInv, UNCHANGED <<line, log, ckpts, metrics, commits>>
  PROVE  Grows
BY Parts DEF Grows, StoreTypes

LEMMA AdvanceGrows ==
  ASSUME IInv, NEW p \in Procs, Advance(p)
  PROVE  /\ Grows
         /\ loc[p].op \in {"integrate", "rollback"} /\ Built(p)
         /\ line.head = loc[p].head /\ line.gen = loc[p].gen
         /\ line' = [head |-> loc[p].result, gen |-> line.gen + 1,
                     ckpt |-> IF loc[p].op = "rollback" THEN loc[p].who ELSE line.ckpt]
         /\ log' = Append(log, Row(p)) /\ DOMAIN log' = 1 .. (Len(log) + 1)
         /\ log'[Len(log) + 1] = Row(p) /\ Row(p) \in Rows
         /\ UNCHANGED <<ckpts, metrics, commits>>
<1>1. /\ loc[p].op \in {"integrate", "rollback"} /\ Built(p)
      /\ line.head = loc[p].head /\ line.gen = loc[p].gen
  BY OneCommand DEF Advance, Fits, Locals, Built, Unmoved
<1>2. /\ line.head \in CommitIds /\ line.gen \in Nat /\ log \in Seq(Rows)
      /\ loc[p].result \in CommitIds
  BY <1>1, Parts, ConstantsAssumption DEF StoreTypes, GitTypes, CommitIds, CommitsApart
<1>3. Row(p) \in Rows
  BY <1>1, <1>2, OneCommand DEF Row, Rows, Fits
<1>4. /\ line' = [head |-> loc[p].result, gen |-> line.gen + 1,
                  ckpt |-> IF loc[p].op = "rollback" THEN loc[p].who ELSE line.ckpt]
      /\ log' = Append(log, Row(p)) /\ UNCHANGED <<ckpts, metrics, commits>>
  BY <1>1 DEF Advance, git
<1>5. /\ DOMAIN log' = 1 .. (Len(log) + 1) /\ Len(log') = Len(log) + 1
      /\ \A i \in 1 .. Len(log) : log'[i] = log[i]
      /\ log'[Len(log) + 1] = Row(p) /\ DOMAIN log = 1 .. Len(log)
  BY ONLY <1>2, <1>3, <1>4, AppendFacts
<1>6. Grows
  <2>1. line.gen <= line'.gen /\ line'.gen # line.gen
    BY ONLY <1>2, <1>4
  <2>2. Len(log) \in Nat /\ Len(log) <= Len(log')
    BY ONLY <1>2, <1>5
  <2>3. \A i \in DOMAIN log : i \in DOMAIN log' /\ log'[i] = log[i]
    BY ONLY <1>5, <2>2
  <2> QED BY ONLY <1>4, <2>1, <2>2, <2>3 DEF Grows
<1> QED BY <1>1, <1>3, <1>4, <1>5, <1>6

LEMMA AdvanceCheckpointGrows ==
  ASSUME IInv, NEW p \in Procs, AdvanceCheckpoint(p)
  PROVE  /\ Grows
         /\ loc[p].who \in Names /\ ckpts[loc[p].who] = 0
         /\ line.head = loc[p].head /\ line.gen = loc[p].gen
         /\ ckpts' = [ckpts EXCEPT ![loc[p].who] = line.head]
         /\ line' = [line EXCEPT !.gen = @ + 1, !.ckpt = loc[p].who]
         /\ UNCHANGED <<log, metrics, commits>>
<1>1. /\ loc[p].who \in Names /\ ckpts[loc[p].who] = 0
      /\ line.head = loc[p].head /\ line.gen = loc[p].gen
      /\ ckpts' = [ckpts EXCEPT ![loc[p].who] = line.head]
      /\ line' = [line EXCEPT !.gen = @ + 1, !.ckpt = loc[p].who]
      /\ UNCHANGED <<log, metrics, commits>>
  BY OneCommand, Parts DEF AdvanceCheckpoint, Unmoved, Fits, git, StoreTypes
<1>2. Grows
  BY <1>1, Parts DEF Grows, StoreTypes, AllNames
<1> QED BY <1>1, <1>2

LEMMA BuildGrows ==
  ASSUME IInv, NEW p \in Procs, Build(p)
  PROVE  /\ Grows
         /\ Len(commits) + 1 \in DOMAIN commits'
         /\ commits'[Len(commits) + 1].tree = TreeOf(p)
         /\ UNCHANGED <<line, log, ckpts, metrics>>
<1>1. commits' = Append(commits, [parent |-> loc[p].head, tree |-> TreeOf(p)])
  BY DEF Build
<1>2. commits \in Seq(CommitRecords) /\ UNCHANGED <<line, log, ckpts, metrics>>
  BY Parts DEF Build, GitTypes, stores
<1>3. /\ \A c \in DOMAIN commits : c \in DOMAIN commits' /\ commits'[c] = commits[c]
      /\ Len(commits) + 1 \in DOMAIN commits'
      /\ commits'[Len(commits) + 1] = [parent |-> loc[p].head, tree |-> TreeOf(p)]
  BY <1>1, <1>2
<1>4. Grows
  <2>1. line.gen \in Nat /\ Len(log) \in Nat
    BY Parts DEF StoreTypes
  <2> QED BY <1>2, <1>3, <2>1 DEF Grows
<1> QED BY <1>2, <1>3, <1>4

\* What does not write the row, the log, the checkpoints, metrics or commits.
Reads(p) ==
  UNCHANGED <<line, log, ckpts, metrics, commits>>

LEMMA OtherSteps ==
  ASSUME NEW p \in Procs, Start(p) \/ Step(p) \/ Crash(p),
         ~ Advance(p), ~ AdvanceCheckpoint(p), ~ Build(p)
  PROVE  Reads(p)
BY DEF Start, Step, Crash, IntegrateStart, IntegrateReopens, RollbackStart,
       CheckpointStart, IntegrateLease, CheckpointCopy, BuildFails, Activate,
       FreezeFails, UpdateRef, AdvanceFails, Undo, UndoFails, Restore,
       PushSkipped, Push, PushFails, PushRefused, Close, Aborts, stores, git, Reads

LEMMA NextGrows ==
  ASSUME IInv, [Next]_vars
  PROVE  Grows
<1>1. ASSUME NEW p \in Procs, Start(p) \/ Step(p) \/ Crash(p) PROVE Grows
  <2>1. CASE Advance(p) \/ AdvanceCheckpoint(p) \/ Build(p)
    BY <2>1, AdvanceGrows, AdvanceCheckpointGrows, BuildGrows
  <2>2. CASE ~ Advance(p) /\ ~ AdvanceCheckpoint(p) /\ ~ Build(p)
    BY <1>1, <2>2, OtherSteps, NothingGrows DEF Reads
  <2> QED BY <2>1, <2>2
<1>2. CASE RecordMetric
  BY <1>2, Parts DEF RecordMetric, git, Grows, StoreTypes
<1>3. CASE \/ \E r \in Requests : CreateRequest(r) \/ Verified(r)
           \/ \E x \in Resources : LeaseExpires(x)
           \/ UNCHANGED vars
  BY <1>3, NothingGrows DEF CreateRequest, Verified, LeaseExpires, vars, stores, git
<1> QED BY <1>1, <1>2, <1>3 DEF Next

-----------------------------------------------------------------------------
(* What a command found out stays true.                                    *)

LEMMA ProducedKept ==
  ASSUME Grows, NEW c, Produced(c)
  PROVE  Produced(c)'
BY DEF Grows, Produced

\* The commit of a checkpoint that exists, and what a command has built.
LEMMA KnownCommits ==
  ASSUME IInv
  PROVE  /\ DOMAIN commits = 1 .. Len(commits)
         /\ \A i \in DOMAIN log : log[i].result \in DOMAIN commits
         /\ \A n \in AllNames : ckpts[n] # 0 => ckpts[n] \in DOMAIN commits
         /\ \A p \in Procs : Built(p) => loc[p].result \in DOMAIN commits
<1>1. DOMAIN commits = 1 .. Len(commits)
  BY Parts DEF GitTypes
<1> QED BY <1>1, Parts DEF CommitsApart, Committed

\* A command that does not move still knows what it knew.
LEMMA CommandKept ==
  ASSUME IInv, Grows, NEW q \in Procs, CommandFits(q),
         pc'[q] = pc[q], loc'[q] = loc[q]
  PROVE  CommandFits(q)'
<1>1. CheckpointFits(q)'
  <2> SUFFICES ASSUME loc[q].op = "checkpoint", pc[q] \in {"copy", "link", "advance"}
               PROVE  /\ loc[q].head \in metrics' /\ Produced(loc[q].head)'
                      /\ loc[q].gen = line'.gen =>
                           log' # << >> /\ log'[Len(log')].kind = "CANDIDATE"
    BY DEF CheckpointFits, Produced
  <2>1. loc[q].head \in metrics' /\ Produced(loc[q].head)'
    BY ProducedKept DEF CommandFits, CheckpointFits, Grows
  <2>2. loc[q].gen <= line.gen /\ loc[q].gen \in Nat /\ line.gen \in Nat
    BY OneCommand, Parts DEF Fits, Locals, StoreTypes
  <2>3. ASSUME loc[q].gen = line'.gen
        PROVE  log' # << >> /\ log'[Len(log')].kind = "CANDIDATE"
    <3>1. line'.gen = line.gen
      BY <2>2, <2>3 DEF Grows
    <3>2. log' = log
      BY <3>1 DEF Grows
    <3> QED BY <2>3, <3>1, <3>2 DEF CommandFits, CheckpointFits
  <2> QED BY <2>1, <2>3
<1>2. RollbackFits(q)'
  <2> SUFFICES ASSUME loc[q].op = "rollback", pc[q] \in {"link", "update_ref", "advance"}
               PROVE  commits'[loc[q].result].tree = commits'[ckpts'[loc[q].who]].tree
    BY DEF RollbackFits
  <2>1. Built(q) /\ loc[q].who \in AllNames /\ ckpts[loc[q].who] # 0
    BY OneCommand DEF Built, Fits
  <2>2. /\ loc[q].result \in DOMAIN commits
        /\ ckpts[loc[q].who] \in DOMAIN commits
    BY <2>1, KnownCommits
  <2> QED BY <2>1, <2>2 DEF Grows, CommandFits, RollbackFits
<1> QED BY <1>1, <1>2 DEF CommandFits

\* One command moves at a time.
LEMMA OthersStay ==
  ASSUME IInv, NEW p \in Procs, Start(p) \/ Step(p) \/ Crash(p),
         NEW q \in Procs, q # p
  PROVE  pc'[q] = pc[q] /\ loc'[q] = loc[q]
<1>1. CASE Start(p)
  BY <1>1, Parts DEF CommandTypes, Start, IntegrateStart, IntegrateReopens, RollbackStart,
              CheckpointStart, Goto
<1>2. CASE Step(p)
  BY <1>2, Parts DEF CommandTypes, Step, IntegrateLease, CheckpointCopy, Build, BuildFails,
       Activate, FreezeFails, UpdateRef, Advance, AdvanceCheckpoint, AdvanceFails, Undo,
       UndoFails, Restore, PushSkipped, Push, PushFails, PushRefused, Close, Aborts,
       Finish, Goto
<1>3. CASE Crash(p)
  BY <1>3, Parts DEF CommandTypes, Crash, Goto
<1> QED BY <1>1, <1>2, <1>3

\* The places where a command need not know anything.
LEMMA NothingToKnow ==
  ASSUME NEW p \in Procs, pc'[p] \notin {"copy", "link", "update_ref", "advance"}
  PROVE  CommandFits(p)'
BY DEF CommandFits, CheckpointFits, RollbackFits

LEMMA CheckpointStartFits ==
  ASSUME IInv, NEW p \in Procs, NEW n \in AllNames, CheckpointStart(p, n)
  PROVE  CommandFits(p)'
<1>1. /\ loc'[p].op = "checkpoint" /\ loc'[p].head = line.head /\ loc'[p].gen = line.gen
      /\ UNCHANGED <<line, log, metrics>>
      /\ HeadIsCandidate /\ line.head \in metrics
  BY Parts DEF CheckpointStart, CommandTypes, Idle, stores
<1>2. Len(log) \in DOMAIN log /\ log # << >>
  BY <1>1, Parts DEF HeadIsCandidate, StoreTypes
<1>3. Produced(line.head)
  BY <1>1, <1>2 DEF HeadIsCandidate, Produced
<1> QED BY <1>1, <1>2, <1>3 DEF CommandFits, CheckpointFits, RollbackFits, Produced,
                               HeadIsCandidate

\* A command that goes on without a write to the stores keeps what it knows.
LEMMA GoOnFits ==
  ASSUME IInv, NEW p \in Procs, CommandFits(p),
         CheckpointCopy(p) \/ Activate(p) \/ UpdateRef(p)
  PROVE  CommandFits(p)'
<1>1. UNCHANGED <<line, log, ckpts, metrics, commits>>
  BY DEF CheckpointCopy, Activate, UpdateRef, Aborts, stores, git
<1>2. pc[p] \in Labels /\ loc[p] \in Locals /\ Fits(p)
  BY OneCommand
<1>3. CASE CheckpointCopy(p)
  <2>1. pc[p] = "copy" /\ loc[p].op = "checkpoint"
    BY <1>2, <1>3 DEF CheckpointCopy, Fits
  <2>2. \/ pc'[p] = "idle"
        \/ /\ pc'[p] = "link" /\ loc'[p].op = "checkpoint"
           /\ loc'[p].head = loc[p].head /\ loc'[p].gen = loc[p].gen
    BY <1>2, <1>3, <2>1, Parts DEF CheckpointCopy, Goto, Finish, CommandTypes, Locals
  <2> QED BY <1>1, <2>1, <2>2
          DEF CommandFits, CheckpointFits, RollbackFits, Produced
<1>4. CASE Activate(p)
  <2>1. /\ pc[p] = "link" /\ loc' = loc
        /\ pc'[p] = IF loc[p].op = "rollback" THEN "update_ref" ELSE "advance"
    BY <1>4, Parts DEF Activate, Goto, CommandTypes
  <2> QED BY <1>1, <1>2, <2>1
          DEF CommandFits, CheckpointFits, RollbackFits, Produced, Fits
<1>5. CASE UpdateRef(p)
  <2>1. pc[p] = "update_ref" /\ loc[p].op \in {"integrate", "rollback"}
    BY <1>2, <1>5 DEF UpdateRef, Fits
  <2>2. \/ pc'[p] \in {"idle", "restore"}
        \/ pc'[p] = "advance" /\ loc' = loc
    BY <1>5, Parts DEF UpdateRef, Goto, Aborts, Finish, CommandTypes
  <2> QED BY <1>1, <2>1, <2>2
          DEF CommandFits, CheckpointFits, RollbackFits, Produced
<1> QED BY <1>3, <1>4, <1>5

LEMMA BuildFits ==
  ASSUME IInv, NEW p \in Procs, Build(p)
  PROVE  CommandFits(p)'
<1>1. /\ pc[p] = "build" /\ loc[p] \in Locals
      /\ loc[p].op \in {"integrate", "rollback"}
      /\ loc[p].op = "rollback" => loc[p].who \in AllNames /\ ckpts[loc[p].who] # 0
  BY OneCommand DEF Build, Fits
<1>2. /\ loc'[p].op = loc[p].op /\ loc'[p].who = loc[p].who
      /\ loc'[p].result = Len(commits) + 1
  BY <1>1, Parts DEF Build, CommandTypes, Locals
<1>3. CASE loc[p].op = "rollback"
  <2>1. commits'[Len(commits) + 1].tree = commits[ckpts[loc[p].who]].tree
    BY <1>3, BuildGrows DEF TreeOf
  <2>2. commits'[ckpts[loc[p].who]] = commits[ckpts[loc[p].who]] /\ ckpts' = ckpts
    BY <1>1, <1>3, BuildGrows, KnownCommits DEF Grows
  <2> QED BY <1>2, <1>3, <2>1, <2>2 DEF CommandFits, CheckpointFits, RollbackFits
<1>4. CASE loc[p].op = "integrate"
  BY <1>2, <1>4 DEF CommandFits, CheckpointFits, RollbackFits
<1> QED BY <1>1, <1>3, <1>4

LEMMA OwnFits ==
  ASSUME IInv, NEW p \in Procs, CommandFits(p), Start(p) \/ Step(p) \/ Crash(p)
  PROVE  CommandFits(p)'
<1>1. CASE Start(p)
  <2>1. ASSUME NEW r \in Requests, IntegrateReopens(p, r) PROVE CommandFits(p)'
    <3>1. UNCHANGED <<line, log, ckpts, metrics, commits, pc, loc>>
      BY <2>1 DEF IntegrateReopens, git
    <3> QED BY <3>1 DEF CommandFits, CheckpointFits, RollbackFits, Produced
  <2>2. ASSUME NEW r \in Requests, NEW push \in BOOLEAN, IntegrateStart(p, r, push)
        PROVE  CommandFits(p)'
    BY <2>2, NothingToKnow, Parts DEF IntegrateStart, Goto, CommandTypes
  <2>3. ASSUME NEW n \in AllNames, NEW push \in BOOLEAN, RollbackStart(p, n, push)
        PROVE  CommandFits(p)'
    BY <2>3, NothingToKnow, Parts DEF RollbackStart, Goto, CommandTypes
  <2> QED BY <1>1, <2>1, <2>2, <2>3, CheckpointStartFits DEF Start
<1>2. CASE Step(p)
  <2>1. CASE Build(p) \/ CheckpointCopy(p) \/ Activate(p) \/ UpdateRef(p)
    BY <2>1, BuildFits, GoOnFits
  <2>2. CASE ~ (Build(p) \/ CheckpointCopy(p) \/ Activate(p) \/ UpdateRef(p))
    <3>1. pc'[p] \in {"idle", "build", "undo", "restore", "push", "close"}
      BY <1>2, <2>2, Parts
         DEF Step, IntegrateLease, BuildFails, FreezeFails, Advance, AdvanceCheckpoint,
             AdvanceFails, Undo, UndoFails, Restore, PushSkipped, Push, PushFails,
             PushRefused, Close, Aborts, Finish, Goto, CommandTypes
    <3> QED BY <3>1, NothingToKnow
  <2> QED BY <2>1, <2>2
<1>3. CASE Crash(p)
  BY <1>3, NothingToKnow, Parts DEF Crash, Goto, CommandTypes
<1> QED BY <1>1, <1>2, <1>3

-----------------------------------------------------------------------------
(* The strengthening is invariant.                                         *)

LEMMA InitFreezes == Init => Freezes
<1> SUFFICES ASSUME Init PROVE Freezes
  OBVIOUS
<1>1. CheckpointsAreSound /\ RollbacksName
  BY ConstantsAssumption
     DEF Init, CheckpointsAreSound, RollbacksName, AllNames
<1>2. ASSUME NEW p \in Procs PROVE CommandFits(p)
  <2>1. pc[p] = "idle"
    BY DEF Init
  <2> QED BY <2>1 DEF CommandFits, CheckpointFits, RollbackFits
<1> QED BY <1>1, <1>2 DEF Freezes

LEMMA CommandsFit ==
  ASSUME IInv, Freezes, [Next]_vars, NEW q \in Procs
  PROVE  CommandFits(q)'
<1>0. Grows /\ CommandFits(q)
  BY NextGrows DEF Freezes
<1>1. ASSUME NEW p \in Procs, Start(p) \/ Step(p) \/ Crash(p)
      PROVE  CommandFits(q)'
  <2>1. CASE q = p
    BY <1>0, <1>1, <2>1, OwnFits
  <2>2. CASE q # p
    BY <1>0, <1>1, <2>2, OthersStay, CommandKept
  <2> QED BY <2>1, <2>2
<1>2. CASE \/ \E r \in Requests : CreateRequest(r) \/ Verified(r)
           \/ RecordMetric
           \/ \E x \in Resources : LeaseExpires(x)
           \/ UNCHANGED vars
  <2>1. pc'[q] = pc[q] /\ loc'[q] = loc[q]
    BY <1>2 DEF CreateRequest, Verified, RecordMetric, LeaseExpires, vars
  <2> QED BY <1>0, <2>1, CommandKept
<1> QED BY <1>1, <1>2 DEF Next

\* Only the two writes of the row touch the checkpoints or the log.
LEMMA Writers ==
  ASSUME [Next]_vars
  PROVE  \/ UNCHANGED <<line, log, ckpts>>
         \/ \E p \in Procs : Advance(p) \/ AdvanceCheckpoint(p)
<1>1. ASSUME NEW p \in Procs, Start(p) \/ Step(p) \/ Crash(p),
             ~ Advance(p), ~ AdvanceCheckpoint(p)
      PROVE  UNCHANGED <<line, log, ckpts>>
  <2>1. CASE Build(p)
    BY <2>1 DEF Build, stores
  <2>2. CASE ~ Build(p)
    BY <1>1, <2>2, OtherSteps DEF Reads
  <2> QED BY <2>1, <2>2
<1>2. CASE \/ \E r \in Requests : CreateRequest(r) \/ Verified(r)
           \/ RecordMetric
           \/ \E x \in Resources : LeaseExpires(x)
           \/ UNCHANGED vars
  BY <1>2 DEF CreateRequest, Verified, RecordMetric, LeaseExpires, vars, stores
<1> QED BY <1>1, <1>2 DEF Next

\* What CheckpointsAreSound says of one checkpoint and of one row.
Frozen(n) ==
  ckpts[n] # 0 => ckpts[n] \in metrics /\ Produced(ckpts[n])

RestoresTree(i) ==
  log[i].kind = "ROLLBACK" =>
    /\ log[i].who \in AllNames /\ ckpts[log[i].who] # 0
    /\ commits[log[i].result].tree = commits[ckpts[log[i].who]].tree

LEMMA SoundInParts ==
  (CheckpointsAreSound /\ RollbacksName) <=>
    (\A n \in Names : Frozen(n)) /\ (\A i \in DOMAIN log : RestoresTree(i))
BY DEF CheckpointsAreSound, RollbacksName, Frozen, RestoresTree, Produced

LEMMA FrozenKept ==
  ASSUME IInv, Grows, NEW n \in Names, Frozen(n), ckpts'[n] = ckpts[n]
  PROVE  Frozen(n)'
BY DEF Frozen, Produced, Grows

LEMMA RestoresTreeKept ==
  ASSUME IInv, Grows, NEW i \in DOMAIN log, RestoresTree(i)
  PROVE  RestoresTree(i)'
<1> SUFFICES ASSUME log[i].kind = "ROLLBACK"
             PROVE  RestoresTree(i)'
  BY DEF Grows, RestoresTree
<1>1. /\ log[i].who \in AllNames /\ ckpts[log[i].who] # 0
      /\ commits[log[i].result].tree = commits[ckpts[log[i].who]].tree
  BY DEF RestoresTree
<1>2. log[i].result \in DOMAIN commits /\ ckpts[log[i].who] \in DOMAIN commits
  BY <1>1, KnownCommits
<1>3. log'[i] = log[i] /\ ckpts'[log[i].who] = ckpts[log[i].who]
  BY <1>1 DEF Grows
<1>4. /\ commits'[log[i].result] = commits[log[i].result]
      /\ commits'[ckpts[log[i].who]] = commits[ckpts[log[i].who]]
  BY <1>2 DEF Grows
<1> QED BY <1>1, <1>3, <1>4 DEF RestoresTree

\* The advance of a rollback appends a row with the tree of its checkpoint.
LEMMA AdvanceFreezes ==
  ASSUME IInv, Freezes, NEW p \in Procs, Advance(p)
  PROVE  (CheckpointsAreSound /\ RollbacksName)'
<1>1. ASSUME NEW n \in Names PROVE Frozen(n)'
  BY AdvanceGrows, SoundInParts, FrozenKept DEF Freezes
<1>2. ASSUME NEW i \in DOMAIN log' PROVE RestoresTree(i)'
  <2>1. CASE i \in DOMAIN log
    BY <2>1, AdvanceGrows, SoundInParts, RestoresTreeKept DEF Freezes
  <2>2. CASE i \notin DOMAIN log
    <3>1. i = Len(log) + 1
      BY <1>2, <2>2, AdvanceGrows, Parts DEF StoreTypes
    <3>2. log'[i] = Row(p) /\ UNCHANGED <<ckpts, commits>>
      BY <3>1, AdvanceGrows
    <3>3. CASE loc[p].op = "rollback"
      <4>1. /\ loc[p].who \in AllNames /\ ckpts[loc[p].who] # 0
            /\ pc[p] = "advance"
        BY <3>3, OneCommand DEF Fits, Advance
      <4>2. commits[loc[p].result].tree = commits[ckpts[loc[p].who]].tree
        BY <3>3, <4>1 DEF Freezes, CommandFits, RollbackFits
      <4>3. log'[i].who = loc[p].who /\ log'[i].result = loc[p].result
        BY <3>2 DEF Row
      <4> QED BY <3>2, <4>1, <4>2, <4>3 DEF RestoresTree
    <3>4. CASE loc[p].op = "integrate"
      BY <3>2, <3>4 DEF Row, RestoresTree
    <3> QED BY <3>3, <3>4, AdvanceGrows
  <2> QED BY <2>1, <2>2
<1>3. ((\A n \in Names : Frozen(n)) /\ (\A i \in DOMAIN log : RestoresTree(i)))'
  BY <1>1, <1>2
<1> QED BY <1>3, SoundInParts, PTL

\* The advance of a checkpoint freezes the head it looked at.
LEMMA AdvanceCheckpointFreezes ==
  ASSUME IInv, Freezes, NEW p \in Procs, AdvanceCheckpoint(p)
  PROVE  (CheckpointsAreSound /\ RollbacksName)'
<1>1. ASSUME NEW n \in Names PROVE Frozen(n)'
  <2>1. CASE n = loc[p].who
    <3>1. loc[p].head \in metrics /\ Produced(loc[p].head)
      BY OneCommand DEF AdvanceCheckpoint, Freezes, CommandFits, CheckpointFits
    <3>2. ckpts'[n] = loc[p].head /\ UNCHANGED <<log, metrics>>
      BY <2>1, AdvanceCheckpointGrows, Parts DEF StoreTypes, AllNames
    <3> QED BY <3>1, <3>2 DEF Frozen, Produced
  <2>2. CASE n # loc[p].who
    <3>1. ckpts'[n] = ckpts[n]
      BY <2>2, AdvanceCheckpointGrows, Parts DEF StoreTypes, AllNames
    <3> QED BY <3>1, AdvanceCheckpointGrows, SoundInParts, FrozenKept DEF Freezes
  <2> QED BY <2>1, <2>2
<1>2. ASSUME NEW i \in DOMAIN log' PROVE RestoresTree(i)'
  <2>1. i \in DOMAIN log
    BY <1>2, AdvanceCheckpointGrows
  <2> QED BY <2>1, AdvanceCheckpointGrows, SoundInParts, RestoresTreeKept DEF Freezes
<1>3. ((\A n \in Names : Frozen(n)) /\ (\A i \in DOMAIN log : RestoresTree(i)))'
  BY <1>1, <1>2
<1> QED BY <1>3, SoundInParts, PTL

LEMMA NextFreezes ==
  ASSUME IInv, Freezes, [Next]_vars
  PROVE  Freezes'
<1>1. \A q \in Procs : CommandFits(q)'
  BY CommandsFit
<1>2. (CheckpointsAreSound /\ RollbacksName)'
  <2>1. CASE UNCHANGED <<line, log, ckpts>>
    <3>1. \A n \in Names : Frozen(n)'
      BY <2>1, NextGrows, SoundInParts, FrozenKept DEF Freezes
    <3>2. \A i \in DOMAIN log' : RestoresTree(i)'
      BY <2>1, NextGrows, SoundInParts, RestoresTreeKept DEF Freezes
    <3>3. ((\A n \in Names : Frozen(n)) /\ (\A i \in DOMAIN log : RestoresTree(i)))'
      BY <3>1, <3>2
    <3> QED BY <3>3, SoundInParts, PTL
  <2> QED BY <2>1, Writers, AdvanceFreezes, AdvanceCheckpointFreezes
<1> QED BY <1>1, <1>2 DEF Freezes

LEMMA FreezesAlways == Spec => []Freezes
<1>1. Init => Freezes
  BY InitFreezes
<1>2. IInv /\ Freezes /\ [Next]_vars => Freezes'
  BY NextFreezes
<1> QED BY <1>1, <1>2, Invariance, PTL DEF Spec

\* A checkpoint other than H0 froze a measured head that a candidate produced,
\* and a rollback leads to its checkpoint's tree, although create_checkpoint
\* and rollback_experiment_line look before a lease that may be taken over.
THEOREM CheckpointsFreezeCandidates == Spec => []CheckpointsAreSound
<1>1. Freezes => CheckpointsAreSound
  BY DEF Freezes
<1> QED BY <1>1, FreezesAlways, PTL

-----------------------------------------------------------------------------
(* The refinement: only the two writes of the row are steps of the         *)
(* abstract line.                                                          *)

\* A row that takes a new head and the next generation.
LEMMA MovedRow ==
  ASSUME NEW S, NEW T, NEW l \in [head : S, gen : Nat, ckpt : T], NEW c \in S
  PROVE  [l EXCEPT !.head = c, !.gen = @ + 1]
           = [head |-> c, gen |-> l.gen + 1, ckpt |-> l.ckpt]
<1>1. [l EXCEPT !.head = c] = [head |-> c, gen |-> l.gen, ckpt |-> l.ckpt]
  OBVIOUS
<1>2. [l EXCEPT !.head = c, !.gen = @ + 1]
        = [[l EXCEPT !.head = c] EXCEPT !.gen = l.gen + 1]
  OBVIOUS
<1>3. [[head |-> c, gen |-> l.gen, ckpt |-> l.ckpt] EXCEPT !.gen = l.gen + 1]
        = [head |-> c, gen |-> l.gen + 1, ckpt |-> l.ckpt]
  OBVIOUS
<1> QED BY ONLY <1>1, <1>2, <1>3

\* What a command built is new to the history.
LEMMA BuiltIsFresh ==
  ASSUME IInv, NEW p \in Procs, Built(p)
  PROVE  loc[p].result \in CommitIds /\ Authority!Fresh(loc[p].result)
<1>1. loc[p].result \in 1 .. Len(commits) /\ loc[p].result \notin Committed
  BY Parts DEF CommitsApart
<1>2. loc[p].result \in CommitIds
  BY <1>1, Parts, ConstantsAssumption DEF GitTypes, CommitIds
<1> QED BY <1>1, <1>2 DEF Authority!Fresh, Authority!Base, Committed, Base

\* No row holds the request of an integration whose compare-and-swap succeeds:
\* it would carry the generation the line still has.
LEMMA RequestIsNew ==
  ASSUME IInv, NEW p \in Procs, loc[p].op = "integrate", line.gen = loc[p].gen,
         NEW i \in DOMAIN log, log[i].kind = "CANDIDATE"
  PROVE  log[i].who # loc[p].who
<1>1. log[i].expGen < line.gen /\ log[i].expGen \in Nat /\ line.gen \in Nat
  BY Parts, RowTypes DEF LinearHistory, StoreTypes
<1>2. req[log[i].who].gen = log[i].expGen
  BY Parts DEF RowsBound
<1>3. req[loc[p].who].gen = loc[p].gen
  BY OneCommand DEF Fits
<1> QED BY <1>1, <1>2, <1>3

LEMMA AdvanceRefines ==
  ASSUME IInv, NEW p \in Procs, Advance(p)
  PROVE  Authority!Next
<1>1. /\ loc[p].op \in {"integrate", "rollback"} /\ Built(p)
      /\ line.head = loc[p].head /\ line.gen = loc[p].gen
      /\ line' = [head |-> loc[p].result, gen |-> line.gen + 1,
                  ckpt |-> IF loc[p].op = "rollback" THEN loc[p].who ELSE line.ckpt]
      /\ log' = Append(log, Row(p)) /\ UNCHANGED ckpts
  BY AdvanceGrows
<1>2. loc[p].result \in CommitIds /\ Authority!Fresh(loc[p].result)
  BY <1>1, BuiltIsFresh
<1>3. CASE loc[p].op = "integrate"
  <2>1. loc[p].who \in Requests
    BY <1>3, OneCommand DEF Fits
  <2>2. Row(p) = Authority!Record("CANDIDATE", loc[p].who, loc[p].result)
    BY <1>1, <1>3 DEF Row, Authority!Record
  <2>3. line' = [line EXCEPT !.head = loc[p].result, !.gen = @ + 1]
    <3>1. line \in [head : CommitIds, gen : Nat, ckpt : AllNames]
      BY Parts DEF StoreTypes
    <3>2. line' = [head |-> loc[p].result, gen |-> line.gen + 1, ckpt |-> line.ckpt]
      BY <1>1, <1>3
    <3> QED BY ONLY <1>2, <3>1, <3>2, MovedRow
  <2>4. \A i \in DOMAIN log : ~ (log[i].kind = "CANDIDATE" /\ log[i].who = loc[p].who)
    BY <1>1, <1>3, RequestIsNew
  <2>5. Authority!Integrate(loc[p].who, loc[p].result)
    BY <1>1, <1>2, <2>2, <2>3, <2>4 DEF Authority!Integrate
  <2> QED BY <1>2, <2>1, <2>5 DEF Authority!Next
<1>4. CASE loc[p].op = "rollback"
  <2>1. loc[p].who \in Authority!AllNames /\ ckpts[loc[p].who] # 0
    BY <1>4, OneCommand DEF Fits, AllNames, Authority!AllNames
  <2>2. Row(p) = Authority!Record("ROLLBACK", loc[p].who, loc[p].result)
    BY <1>1, <1>4 DEF Row, Authority!Record
  <2>3. line' = [head |-> loc[p].result, gen |-> line.gen + 1, ckpt |-> loc[p].who]
    BY <1>1, <1>4
  <2>4. Authority!Rollback(loc[p].who, loc[p].result)
    BY <1>1, <1>2, <2>1, <2>2, <2>3 DEF Authority!Rollback
  <2> QED BY <1>2, <2>1, <2>4 DEF Authority!Next
<1> QED BY <1>1, <1>3, <1>4

LEMMA AdvanceCheckpointRefines ==
  ASSUME IInv, Freezes, NEW p \in Procs, AdvanceCheckpoint(p)
  PROVE  Authority!Next
<1>1. /\ loc[p].who \in Names /\ ckpts[loc[p].who] = 0
      /\ line.gen = loc[p].gen
      /\ ckpts' = [ckpts EXCEPT ![loc[p].who] = line.head]
      /\ line' = [line EXCEPT !.gen = @ + 1, !.ckpt = loc[p].who]
      /\ UNCHANGED log
  BY AdvanceCheckpointGrows
<1>2. log # << >> /\ log[Len(log)].kind = "CANDIDATE"
  BY <1>1 DEF AdvanceCheckpoint, Freezes, CommandFits, CheckpointFits
<1>3. Authority!Checkpoint(loc[p].who)
  BY <1>1, <1>2 DEF Authority!Checkpoint
<1> QED BY <1>1, <1>3 DEF Authority!Next

\* The commands of integrate_candidate, rollback_experiment_line and
\* create_checkpoint, with every interleaving, expired lease, crash and failed
\* write, change the row, its history and the checkpoints only as the atomic
\* line of LineAuthority does.
THEOREM Implementation == Spec => ImplementsAuthority
<1>1. Init => Authority!Init
  BY DEF Init, Authority!Init, Base, Authority!Base, AllNames, Authority!AllNames
<1>2. IInv /\ Freezes /\ [Next]_vars => [Authority!Next]_<<line, log, ckpts>>
  BY Writers, AdvanceRefines, AdvanceCheckpointRefines
<1> QED BY <1>1, <1>2, FreezesAlways, Invariance, PTL
        DEF Spec, ImplementsAuthority, Authority!Spec

-----------------------------------------------------------------------------
(* The active release, while leases hold.                                  *)

\* The command works under the line lease.
OnLine(p) == pc[p] \in {"copy", "build", "link", "update_ref", "advance", "undo",
                        "restore", "push", "close"}

\* No lease is about to be taken over.
LeasesHold == \A x \in Resources : ~ lease[x].stale /\ lease[x].owner # Ghost

\* What the command that is on the line knows about the releases: the one it
\* is to activate, the one it would put back, and that they differ when it
\* would remove its own.
Careful(p) ==
  /\ pc[p] = "copy" => loc[p].who \notin releases
  /\ pc[p] = "link" =>
       /\ loc[p].who \in releases /\ loc[p].prev = link
       /\ loc[p].op = "checkpoint" => loc[p].who # link
  /\ Switching(p) =>
       /\ link = loc[p].who /\ loc[p].prev = line.ckpt /\ loc[p].prev \in releases
       /\ loc[p].op = "checkpoint" => loc[p].who # loc[p].prev
  /\ ~ Switching(p) => link = line.ckpt

Governed ==
  /\ LeasesHold
  /\ \A p \in Procs : OnLine(p) => lease["line"].owner = p /\ Careful(p)
  /\ ActiveReleaseAgrees

\* Nothing expires under a live holder, and no command dies.
NoTakeover == Faults \cap {"crash", "theft"} = {}

\* One command at a time is on the line, and switches the release.
LEMMA OneOnLine ==
  ASSUME Governed, NEW p \in Procs, NEW q \in Procs, OnLine(p), OnLine(q)
  PROVE  p = q
BY DEF Governed

LEMMA SwitchingIsOnLine ==
  ASSUME NEW p \in Procs
  PROVE  (Switching(p) => OnLine(p)) /\ (Switching(p)' => OnLine(p)')
BY DEF Switching, OnLine

\* A step that is no command's on the line.
LEMMA BesideTheLine ==
  ASSUME Governed, LeasesHold', UNCHANGED <<line, releases, link>>,
         \A q \in Procs : OnLine(q)' => OnLine(q) /\ lease'["line"] = lease["line"]
                                        /\ pc'[q] = pc[q] /\ loc'[q] = loc[q],
         \A q \in Procs : OnLine(q) => pc'[q] = pc[q] /\ loc'[q] = loc[q]
  PROVE  Governed'
<1>1. \A q \in Procs : OnLine(q)' => Careful(q)'
  BY DEF Governed, Careful, Switching
<1>2. \A q \in Procs : Switching(q) => Switching(q)'
  BY SwitchingIsOnLine DEF Switching
<1>3. ActiveReleaseAgrees'
  BY <1>2 DEF Governed, ActiveReleaseAgrees
<1> QED BY <1>1, <1>3 DEF Governed

\* A step of the one command on the line, or of one that takes it.
LEMMA OnTheLine ==
  ASSUME Governed, NEW p \in Procs, OnLine(p) \/ ~ \E q \in Procs : OnLine(q),
         \A q \in Procs \ {p} : pc'[q] = pc[q] /\ loc'[q] = loc[q],
         LeasesHold', OnLine(p)' => lease'["line"].owner = p,
         Careful(p)', link' \in releases'
  PROVE  Governed'
<1>1. \A q \in Procs \ {p} : ~ OnLine(q)'
  <2>1. \A q \in Procs \ {p} : ~ OnLine(q)
    BY OneOnLine
  <2> QED BY <2>1 DEF OnLine
<1>2. ActiveReleaseAgrees'
  BY DEF ActiveReleaseAgrees, Careful
<1> QED BY <1>1, <1>2 DEF Governed

\* What a command does to the leases when it ends.
LEMMA ReleasedHold ==
  ASSUME LeasesHold, NEW p \in Procs, lease' = ReleasedBy(p)
  PROVE  /\ LeasesHold'
         /\ \A x \in Resources : lease[x].owner # p => lease'[x] = lease[x]
BY ConstantsAssumption DEF LeasesHold, ReleasedBy, Held

LEMMA TakenHold ==
  ASSUME IInv, LeasesHold, NEW p \in Procs \cup {Nobody}, NEW x \in Resources,
         lease' = [lease EXCEPT ![x] = Held(p)]
  PROVE  /\ LeasesHold' /\ lease'[x].owner = p
         /\ \A y \in Resources \ {x} : lease'[y] = lease[y]
BY Parts, ConstantsAssumption DEF LeasesHold, Held, CommandTypes

\* Whoever can take the line lease is alone with the line.
LEMMA NobodyOnLine ==
  ASSUME Governed, Acquirable("line")
  PROVE  (~ \E q \in Procs : OnLine(q)) /\ link = line.ckpt /\ link \in releases
<1>1. lease["line"].owner = Nobody
  BY DEF Governed, LeasesHold, Acquirable, Resources
<1>2. \A q \in Procs : ~ OnLine(q)
  BY <1>1, ConstantsAssumption DEF Governed
<1> QED BY <1>2, SwitchingIsOnLine DEF Governed, ActiveReleaseAgrees

\* A command that ends without the line's lease.
LEMMA EndsBeside ==
  ASSUME IInv, Governed, NEW p \in Procs, ~ OnLine(p), Finish(p),
         UNCHANGED <<line, releases, link>>
  PROVE  Governed'
<1>1. /\ pc'[p] = "idle" /\ loc'[p] = Idle
      /\ \A q \in Procs : q # p => pc'[q] = pc[q] /\ loc'[q] = loc[q]
  BY Returning
<1>2. LeasesHold' /\ \A x \in Resources : lease[x].owner # p => lease'[x] = lease[x]
  BY ReleasedHold DEF Finish, Governed
<1>3. "line" \in Resources
  BY DEF Resources
<1>4. \A q \in Procs : OnLine(q)' => q # p /\ OnLine(q) /\ lease'["line"] = lease["line"]
  BY <1>1, <1>2, <1>3 DEF OnLine, Governed
<1> QED BY <1>1, <1>2, <1>4, BesideTheLine

\* A command on the line that ends with the right release active.
LEMMA EndsOnLine ==
  ASSUME IInv, Governed, NEW p \in Procs, OnLine(p), Finish(p),
         link' = line'.ckpt, link' \in releases'
  PROVE  Governed'
<1>1. /\ pc'[p] = "idle" /\ loc'[p] = Idle
      /\ \A q \in Procs : q # p => pc'[q] = pc[q] /\ loc'[q] = loc[q]
  BY Returning
<1>2. LeasesHold'
  BY ReleasedHold DEF Finish, Governed
<1>3. Careful(p)' /\ ~ OnLine(p)'
  BY <1>1 DEF Careful, Switching, OnLine
<1> QED BY <1>1, <1>2, <1>3, OnTheLine

LEMMA StartGoverned ==
  ASSUME IInv, Governed, NEW p \in Procs, Start(p)
  PROVE  Governed'
<1> USE DEF files
<1>0. "line" \in Resources /\ "line" \notin Requests /\ Requests \subseteq Resources
  BY ConstantsAssumption DEF Resources
<1>1. ASSUME NEW r \in Requests, NEW push \in BOOLEAN, IntegrateStart(p, r, push)
      PROVE  Governed'
  <2>1. LeasesHold' /\ lease'["line"] = lease["line"]
    <3>1. r \in Resources /\ "line" \in Resources \ {r} /\ LeasesHold
      BY <1>0 DEF Governed
    <3>2. lease' = [lease EXCEPT ![r] = Held(p)] /\ p \in Procs \cup {Nobody}
      BY <1>1 DEF IntegrateStart
    <3> QED BY <3>1, <3>2, TakenHold
  <2>2. pc'[p] = "line_lease" /\ \A q \in Procs \ {p} : pc'[q] = pc[q] /\ loc'[q] = loc[q]
    BY <1>1, Parts DEF IntegrateStart, Goto, CommandTypes
  <2>3. pc[p] = "idle" /\ UNCHANGED <<line, releases, link>>
    BY <1>1 DEF IntegrateStart, stores
  <2> QED BY <2>1, <2>2, <2>3, BesideTheLine DEF OnLine
<1>2. ASSUME NEW r \in Requests, IntegrateReopens(p, r) PROVE Governed'
  <2>1. LeasesHold' /\ lease'["line"] = lease["line"]
    <3>1. r \in Resources /\ "line" \in Resources \ {r} /\ LeasesHold
      BY <1>0 DEF Governed
    <3>2. lease' = [lease EXCEPT ![r] = Held(Nobody)] /\ Nobody \in Procs \cup {Nobody}
      BY <1>2 DEF IntegrateReopens
    <3> QED BY <3>1, <3>2, TakenHold
  <2>2. UNCHANGED <<line, releases, link, pc, loc>>
    BY <1>2 DEF IntegrateReopens
  <2> QED BY <2>1, <2>2, BesideTheLine DEF OnLine
<1>3. ASSUME NEW n \in AllNames, NEW push \in BOOLEAN, RollbackStart(p, n, push)
      PROVE  Governed'
  <2>1. LeasesHold' /\ lease'["line"].owner = p
    BY <1>0, <1>3, TakenHold DEF RollbackStart, Governed
  <2>2. pc'[p] = "build" /\ \A q \in Procs \ {p} : pc'[q] = pc[q] /\ loc'[q] = loc[q]
    BY <1>3, Parts DEF RollbackStart, Goto, CommandTypes
  <2>3. UNCHANGED <<line, releases, link>> /\ Acquirable("line")
    BY <1>3 DEF RollbackStart, stores
  <2>4. Careful(p)' /\ link' \in releases'
    BY <2>2, <2>3, NobodyOnLine DEF Careful, Switching
  <2> QED BY <2>1, <2>2, <2>3, <2>4, NobodyOnLine, OnTheLine
<1>4. ASSUME NEW n \in AllNames, CheckpointStart(p, n) PROVE Governed'
  <2>1. LeasesHold' /\ lease'["line"].owner = p
    BY <1>0, <1>4, TakenHold DEF CheckpointStart, Governed
  <2>2. /\ pc'[p] = "copy" /\ loc'[p].who = n
        /\ \A q \in Procs \ {p} : pc'[q] = pc[q] /\ loc'[q] = loc[q]
    BY <1>4, Parts DEF CheckpointStart, Goto, CommandTypes, Idle
  <2>3. UNCHANGED <<line, releases, link>> /\ Acquirable("line") /\ n \notin releases
    BY <1>4 DEF CheckpointStart, stores
  <2>4. Careful(p)' /\ link' \in releases'
    BY <2>2, <2>3, NobodyOnLine DEF Careful, Switching
  <2> QED BY <2>1, <2>2, <2>3, <2>4, NobodyOnLine, OnTheLine
<1> QED BY <1>1, <1>2, <1>3, <1>4 DEF Start

\* A command on the line that goes on with its lease.
LEMMA GoesOn ==
  ASSUME IInv, Governed, NEW p \in Procs, OnLine(p), NEW label \in Labels, Goto(p, label),
         lease' = lease, \A q \in Procs \ {p} : loc'[q] = loc[q],
         pc'[p] = label => Careful(p)', link' \in releases'
  PROVE  Governed'
<1>1. pc'[p] = label /\ \A q \in Procs \ {p} : pc'[q] = pc[q]
  BY Parts DEF Goto, CommandTypes
<1>2. LeasesHold' /\ lease'["line"].owner = p
  BY DEF Governed, LeasesHold
<1> QED BY <1>1, <1>2, OnTheLine

LEMMA LeaseAndBuildGoverned ==
  ASSUME IInv, Governed, NEW p \in Procs,
         IntegrateLease(p) \/ Build(p) \/ BuildFails(p)
  PROVE  Governed'
<1> USE DEF files
<1>0. "line" \in Resources /\ loc[p] \in Locals /\ loc \in [Procs -> Locals]
  BY Parts, OneCommand DEF Resources, CommandTypes
<1>1. CASE IntegrateLease(p)
  <2>1. pc[p] = "line_lease" /\ ~ OnLine(p)
    BY <1>1 DEF IntegrateLease, OnLine
  <2>2. CASE Aborts(p)
    BY <2>1, <2>2, EndsBeside DEF Aborts, stores
  <2>3. CASE /\ Acquirable("line") /\ lease' = [lease EXCEPT !["line"] = Held(p)]
             /\ Goto(p, "build") /\ UNCHANGED <<line, releases, link, loc>>
    <3>1. LeasesHold' /\ lease'["line"].owner = p
      BY <1>0, <2>3, TakenHold DEF Governed
    <3>2. pc'[p] = "build" /\ \A q \in Procs \ {p} : pc'[q] = pc[q] /\ loc'[q] = loc[q]
      BY <2>3, Parts DEF Goto, CommandTypes
    <3>3. Careful(p)' /\ link' \in releases'
      BY <2>3, <3>2, NobodyOnLine DEF Careful, Switching
    <3> QED BY <2>3, <3>1, <3>2, <3>3, NobodyOnLine, OnTheLine
  <2> QED BY <1>1, <2>2, <2>3 DEF IntegrateLease, stores
<1>2. CASE Build(p)
  <2>1. pc[p] = "build" /\ OnLine(p) /\ UNCHANGED <<line, releases, link, lease>>
    BY <1>2 DEF Build, OnLine, stores
  <2>2. link = line.ckpt /\ link \in releases
    BY <2>1 DEF Governed, Careful, Switching, ActiveReleaseAgrees
  <2>3. PICK l \in Locals, c \in Nat, d \in AllNames :
          l = loc[p] /\ c = Len(commits) + 1 /\ d = link
    BY <1>0, Parts DEF GitTypes, FileTypes
  <2>4. loc' = [loc EXCEPT ![p] = [l EXCEPT !.result = c, !.prev = d]]
    BY <1>0, <1>2, <2>3 DEF Build
  <2>5. /\ loc'[p].who = l.who /\ loc'[p].op = l.op /\ loc'[p].prev = d
        /\ \A q \in Procs \ {p} : loc'[q] = loc[q]
    BY <1>0, <2>4 DEF Locals
  <2>6. CASE loc[p].op = "integrate"
    <3>1. pc'[p] = "update_ref" => Careful(p)'
      BY <2>1, <2>2, <2>3, <2>5, <2>6 DEF Careful, Switching
    <3>2. Goto(p, "update_ref") /\ "update_ref" \in Labels
      BY <1>2, <2>6 DEF Build, Labels
    <3> QED BY <2>1, <2>2, <2>5, <3>1, <3>2, GoesOn
  <2>7. CASE loc[p].op = "rollback"
    <3>1. pc'[p] = "link" => Careful(p)'
      BY <1>2, <2>1, <2>2, <2>3, <2>5, <2>7 DEF Careful, Switching, Build
    <3>2. Goto(p, "link") /\ "link" \in Labels
      BY <1>2, <2>7 DEF Build, Labels
    <3> QED BY <2>1, <2>2, <2>5, <3>1, <3>2, GoesOn
  <2> QED BY <2>1, <2>6, <2>7, OneCommand DEF Fits
<1>3. CASE BuildFails(p)
  <2>1. OnLine(p) /\ UNCHANGED <<line, releases, link>> /\ Finish(p)
    BY <1>3 DEF BuildFails, Aborts, OnLine, stores
  <2>2. link = line.ckpt /\ link \in releases
    BY <1>3, <2>1 DEF BuildFails, Governed, Careful, Switching, ActiveReleaseAgrees
  <2> QED BY <2>1, <2>2, EndsOnLine
<1> QED BY <1>1, <1>2, <1>3

LEMMA ReleaseGoverned ==
  ASSUME IInv, Governed, NEW p \in Procs,
         CheckpointCopy(p) \/ Activate(p) \/ FreezeFails(p) \/ Restore(p)
  PROVE  Governed'
<1>0. loc[p] \in Locals /\ loc \in [Procs -> Locals] /\ Fits(p) /\ link \in releases
  BY Parts, OneCommand DEF CommandTypes, Governed, ActiveReleaseAgrees
<1>1. CASE CheckpointCopy(p)
  <2>1. pc[p] = "copy" /\ OnLine(p) /\ line' = line
    BY <1>1 DEF CheckpointCopy, OnLine, stores
  <2>2. link = line.ckpt /\ loc[p].who \notin releases /\ loc[p].op = "checkpoint"
    BY <1>0, <2>1 DEF Governed, Careful, Switching, Fits
  <2>3. /\ releases' = releases \cup {loc[p].who} /\ loc' = [loc EXCEPT ![p].prev = link]
        /\ Goto(p, "link") /\ UNCHANGED <<lease, link>>
    BY <1>1, <2>2 DEF CheckpointCopy
  <2>4. PICK l \in Locals, d \in AllNames : l = loc[p] /\ d = link
    BY <1>0, Parts DEF FileTypes
  <2>5. loc' = [loc EXCEPT ![p] = [l EXCEPT !.prev = d]]
    BY <1>0, <2>3, <2>4
  <2>6. /\ loc'[p].who = l.who /\ loc'[p].op = l.op /\ loc'[p].prev = d
        /\ \A q \in Procs \ {p} : loc'[q] = loc[q]
    BY <1>0, <2>5 DEF Locals
  <2>7. pc'[p] = "link" => Careful(p)'
    BY <1>0, <2>1, <2>2, <2>3, <2>4, <2>6 DEF Careful, Switching
  <2>8. "link" \in Labels
    BY DEF Labels
  <2> QED BY <1>0, <2>1, <2>3, <2>6, <2>7, <2>8, GoesOn
<1>2. CASE Activate(p)
  <2>1. pc[p] = "link" /\ OnLine(p) /\ UNCHANGED <<line, releases, lease, loc>>
        /\ link' = loc[p].who
    BY <1>2 DEF Activate, OnLine, stores
  <2>2. /\ link = line.ckpt /\ loc[p].who \in releases /\ loc[p].prev = link
        /\ loc[p].op = "checkpoint" => loc[p].who # link
        /\ loc[p].op \in {"rollback", "checkpoint"}
    BY <1>0, <2>1 DEF Governed, Careful, Switching, Fits
  <2>3. PICK label \in {"update_ref", "advance"} : Goto(p, label)
    BY <1>2 DEF Activate
  <2>4. pc'[p] = label => Careful(p)'
    BY <1>0, <2>1, <2>2, <2>3 DEF Careful, Switching
  <2>5. label \in Labels
    BY <2>3 DEF Labels
  <2> QED BY <2>1, <2>2, <2>3, <2>4, <2>5, GoesOn
<1>3. CASE FreezeFails(p)
  <2>1. /\ pc[p] = "link" /\ loc[p].op = "checkpoint" /\ OnLine(p) /\ Finish(p)
        /\ UNCHANGED <<line, link>> /\ releases' = releases \ {loc[p].who}
    BY <1>3 DEF FreezeFails, OnLine, stores
  <2>2. link = line.ckpt /\ loc[p].who # link
    BY <2>1 DEF Governed, Careful, Switching
  <2> QED BY <1>0, <2>1, <2>2, EndsOnLine
<1>4. CASE Restore(p)
  <2>1. /\ pc[p] = "restore" /\ OnLine(p) /\ Finish(p) /\ line' = line
        /\ link' = loc[p].prev
        /\ releases' = IF loc[p].op = "checkpoint" THEN releases \ {loc[p].who}
                       ELSE releases
    BY <1>4 DEF Restore, OnLine, stores
  <2>2. Switching(p)
    BY <1>0, <2>1 DEF Switching, Fits
  <2>3. /\ loc[p].prev = line.ckpt /\ loc[p].prev \in releases
        /\ loc[p].op = "checkpoint" => loc[p].who # loc[p].prev
    BY <2>1, <2>2 DEF Governed, Careful
  <2> QED BY <2>1, <2>3, EndsOnLine
<1> QED BY <1>1, <1>2, <1>3, <1>4

LEMMA RefAndRowGoverned ==
  ASSUME IInv, Governed, NEW p \in Procs,
         \/ UpdateRef(p) \/ Advance(p) \/ AdvanceCheckpoint(p) \/ AdvanceFails(p)
         \/ Undo(p) \/ UndoFails(p)
  PROVE  Governed'
<1> USE DEF files
<1>0. /\ loc[p] \in Locals /\ Fits(p) /\ link \in releases
      /\ line \in [head : CommitIds, gen : Nat, ckpt : AllNames]
  BY Parts, OneCommand DEF StoreTypes, Governed, ActiveReleaseAgrees
<1>1. OnLine(p) /\ Careful(p)
  BY DEF UpdateRef, Advance, AdvanceCheckpoint, AdvanceFails, Undo, UndoFails, OnLine,
         Governed
<1>2. ASSUME NEW label \in {"advance", "restore", "undo"}, Goto(p, label),
             UNCHANGED <<line, releases, link, lease, loc>>,
             pc[p] \in {"update_ref", "advance", "undo"},
             label = "restore" => loc[p].op # "integrate"
      PROVE  Governed'
  <2>1. pc'[p] = label => Careful(p)'
    BY <1>1, <1>2 DEF Careful, Switching
  <2>2. label \in Labels
    BY DEF Labels
  <2> QED BY <1>0, <1>1, <1>2, <2>1, <2>2, GoesOn
<1>3. ASSUME loc[p].op = "integrate", Finish(p), UNCHANGED <<line, releases, link>>
      PROVE  Governed'
  BY <1>0, <1>1, <1>3, EndsOnLine DEF Careful, Switching
<1>4. CASE UpdateRef(p)
  BY <1>2, <1>3, <1>4 DEF UpdateRef, Aborts, stores
<1>5. CASE Advance(p)
  <2>1. /\ pc[p] = "advance" /\ loc[p].op \in {"integrate", "rollback"}
        /\ UNCHANGED <<releases, link, lease, loc>> /\ Goto(p, "push")
        /\ line'.ckpt = IF loc[p].op = "rollback" THEN loc[p].who ELSE line.ckpt
    BY <1>0, <1>5 DEF Advance, Fits, Locals
  <2>2. link = line'.ckpt
    BY <1>1, <2>1 DEF Careful, Switching
  <2>3. pc'[p] = "push" => Careful(p)'
    BY <2>1, <2>2 DEF Careful, Switching
  <2>4. "push" \in Labels
    BY DEF Labels
  <2> QED BY <1>0, <1>1, <2>1, <2>3, <2>4, GoesOn
<1>6. CASE AdvanceCheckpoint(p)
  <2>1. /\ pc[p] = "advance" /\ loc[p].op = "checkpoint" /\ Finish(p)
        /\ UNCHANGED <<releases, link>> /\ line'.ckpt = loc[p].who
    BY <1>0, <1>6 DEF AdvanceCheckpoint
  <2>2. link = loc[p].who
    BY <1>1, <2>1 DEF Careful, Switching
  <2> QED BY <1>0, <1>1, <2>1, <2>2, EndsOnLine
<1>7. CASE AdvanceFails(p)
  BY <1>2, <1>7 DEF AdvanceFails, stores
<1>8. CASE Undo(p)
  BY <1>0, <1>2, <1>3, <1>8 DEF Undo, Fits, stores
<1>9. CASE UndoFails(p)
  BY <1>0, <1>2, <1>3, <1>9 DEF UndoFails, Fits
<1> QED BY <1>4, <1>5, <1>6, <1>7, <1>8, <1>9

LEMMA PushGoverned ==
  ASSUME IInv, Governed, NEW p \in Procs,
         PushSkipped(p) \/ Push(p) \/ PushFails(p) \/ PushRefused(p) \/ Close(p)
  PROVE  Governed'
<1> USE DEF files, stores, git
<1>1. /\ OnLine(p) /\ ~ Switching(p) /\ UNCHANGED <<line, releases, link>>
  BY DEF PushSkipped, Push, PushFails, PushRefused, Aborts, Close, OnLine, Switching
<1>2. link = line.ckpt /\ link \in releases
  BY <1>1 DEF Governed, Careful, ActiveReleaseAgrees
<1>3. CASE PushSkipped(p) \/ Push(p)
  <2>1. Goto(p, "close") /\ "close" \in Labels /\ UNCHANGED <<lease, loc>>
    BY <1>3 DEF PushSkipped, Push, Labels
  <2>2. pc'[p] = "close" => Careful(p)'
    BY <1>1, <1>2 DEF Careful, Switching
  <2> QED BY <1>1, <1>2, <2>1, <2>2, GoesOn
<1>4. CASE PushFails(p) \/ PushRefused(p) \/ Close(p)
  BY <1>1, <1>2, <1>4, EndsOnLine DEF PushFails, PushRefused, Aborts, Close
<1> QED BY <1>3, <1>4

LEMMA NextGoverned ==
  ASSUME NoTakeover, IInv, Governed, [Next]_vars
  PROVE  Governed'
<1>1. ASSUME UNCHANGED <<line, releases, link, lease, pc, loc>> PROVE Governed'
  BY <1>1 DEF Governed, LeasesHold, OnLine, Careful, Switching, ActiveReleaseAgrees
<1>2. CASE UNCHANGED vars
  BY <1>1, <1>2 DEF vars, stores, files
<1>3. ASSUME NEW r \in Requests, CreateRequest(r) \/ Verified(r) PROVE Governed'
  BY <1>1, <1>3 DEF CreateRequest, Verified, files
<1>4. CASE RecordMetric
  BY <1>1, <1>4 DEF RecordMetric, files
<1>5. ASSUME NEW p \in Procs, Step(p) PROVE Governed'
  BY <1>5, LeaseAndBuildGoverned, ReleaseGoverned, RefAndRowGoverned, PushGoverned
     DEF Step
<1>6. ASSUME NEW p \in Procs PROVE ~ Crash(p)
  BY DEF NoTakeover, Crash
<1>7. ASSUME NEW x \in Resources PROVE ~ LeaseExpires(x)
  BY DEF NoTakeover, LeaseExpires, Governed, LeasesHold
<1> QED BY <1>2, <1>3, <1>4, <1>5, <1>6, <1>7, StartGoverned DEF Next

LEMMA InitGoverned == Init => Governed
<1> SUFFICES ASSUME Init PROVE Governed
  OBVIOUS
<1>1. LeasesHold
  BY ConstantsAssumption DEF Init, LeasesHold
<1>2. \A p \in Procs : ~ OnLine(p)
  BY DEF Init, OnLine
<1>3. ActiveReleaseAgrees
  BY DEF Init, ActiveReleaseAgrees
<1> QED BY <1>1, <1>2, <1>3 DEF Governed

\* As long as no command dies and no lease is taken over from a live one, the
\* active release is the one of the active checkpoint whenever no command is
\* switching it, and it exists: a rollback or a checkpoint that fails anywhere
\* puts back what it found, and removes only what it made.
THEOREM ActiveReleaseStays == NoTakeover => (Spec => []ActiveReleaseAgrees)
<1> SUFFICES ASSUME NoTakeover PROVE Spec => []ActiveReleaseAgrees
  OBVIOUS
<1>1. Init => IInv /\ Governed
  BY InitIInv, InitGoverned
<1>2. IInv /\ Governed /\ [Next]_vars => (IInv /\ Governed)'
  BY NextIInv, NextGoverned
<1>3. IInv /\ Governed => ActiveReleaseAgrees
  BY DEF Governed
<1> QED BY <1>1, <1>2, <1>3, PTL DEF Spec
=============================================================================
