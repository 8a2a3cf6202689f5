----------------------- MODULE RequestLifecycleProofs -----------------------
(***************************************************************************)
(* Proofs about RequestLifecycle, for any number of commands, attempts,    *)
(* checks and scope versions, and for every regime of faults.              *)
(*                                                                         *)
(* The invariant comes in three layers: the types, with what a command     *)
(* remembers; what checks, commits and releases have to do with each       *)
(* other, which holds although leases may be stolen; and what holds of the *)
(* phase and of the last Writer run as long as no lease is stolen.         *)
(***************************************************************************)
EXTENDS RequestLifecycle, WellFoundedInduction, TLAPS

WriterLabels == {"announce", "backend", "compare", "apply", "applied", "complete",
                 "fail_lease", "fail", "fail_event"}
Unfinished   == {"announce", "backend", "compare", "apply"}
CommitLabels == {"git_commit", "commit_event"}
Checking     == {"check_event", "check", "check_save"}
CheckLabels  == Checking \cup {"check_done", "accept"}
Decided      == {"check_save", "check_done", "accept"}
ScopeLabels  == {"authority", "approve", "scope_event"}
\* Where a command holds the lease of its request.
Holding      == Labels \ {"idle", "backend", "fail_lease"}

\* What a command remembers names rows and versions that exist.
Remembers(p) ==
  /\ pc[p] \in WriterLabels \cup CommitLabels => loc[p].run \in DOMAIN runs
  /\ pc[p] \in CheckLabels => loc[p].check \in DOMAIN checks
  /\ pc[p] \in ScopeLabels => loc[p].version \in 1 .. regime.scopes
  /\ pc[p] \in Decided => loc[p].outcome \in {"pass", "retry_writer", "no_retry"}

Types ==
  /\ TypeOK /\ regime \in Regimes
  /\ Len(checks) <= regime.checks
  /\ scope.pending => scope.approved < regime.scopes
  /\ \A p \in Procs : Remembers(p)

\* The service committed that content, and a full check passed on it.
IsCommitted(h, x) == \E c \in commits : c.head = h /\ c.patch = x
IsChecked(h, x)   == \E i \in FullPassed : checks[i].head = h /\ checks[i].patch = x

\* A run is unfinished until its own command finishes it, a check runs until
\* its own command saves it, and a check that may still pass is about a commit.
\* (For a command at label l that remembers m.)
Works(l, m) ==
  /\ l \in Unfinished => runs[m.run].status \in {"RUNNING", "CANCELLED"}
  /\ l \in Checking =>
       /\ checks[m.check].status = "RUNNING"
       /\ m.outcome = "pass" /\ checks[m.check].mode = "full" =>
            IsCommitted(checks[m.check].head, checks[m.check].patch)
  /\ l \in {"check_done", "accept"} /\ m.outcome = "pass" =>
       checks[m.check].status = "PASSED"
  /\ l = "integrate" => IsChecked(m.patch, m.patch)

\* No two commands have the same run or the same check.
OwnRows ==
  \A p, q \in Procs : p # q =>
    /\ pc[p] \in WriterLabels /\ pc[q] \in WriterLabels => loc[p].run # loc[q].run
    /\ pc[p] \in CheckLabels /\ pc[q] \in CheckLabels => loc[p].check # loc[q].check

CheckedWasCommitted ==
  \A i \in FullPassed : IsCommitted(checks[i].head, checks[i].patch)

Evidence == /\ \A p \in Procs : Works(pc[p], loc[p])
            /\ OwnRows /\ CheckedWasCommitted /\ ReleasedWasChecked

\* The last run is over, left that content, and the service committed it.
Stands(h, x) ==
  /\ runs # << >> /\ runs[Len(runs)].after = x
  /\ runs[Len(runs)].status \in {"COMPLETED", "FAILED"}
  /\ [head |-> h, patch |-> x, run |-> Len(runs)] \in commits

\* What a command that holds the lease can rely on, at label l with memory m.
Relies(l, m) ==
  /\ l = "activate" => view.phase = "REQUESTED"
  /\ l \in CheckLabels \cup CommitLabels => view.phase = "ACTIVE"
  /\ l \in ScopeLabels => m.phase = view.phase
  /\ l \in {"scope_reopen", "integrate"} => view.phase = "VERIFIED"
  /\ l \in WriterLabels \ {"backend", "fail_lease"} => runs[m.run].status # "CANCELLED"
  /\ l \in CheckLabels /\ m.outcome = "pass" /\ checks[m.check].mode = "full" =>
       Stands(checks[m.check].head, checks[m.check].patch)

\* A command holds the lease where it relies on it.
Owned == \A p \in Procs : pc[p] \in Holding => lease = p /\ Relies(pc[p], loc[p])

\* The candidate of a VERIFIED request, while its commit is on record.
VerifiedIsSound ==
  view.phase = "VERIFIED" /\ view.head # 0 =>
    Stands(view.head, view.patch) /\ IsChecked(view.head, view.patch)

Safe   == ~ view.broken /\ Owned /\ VerifiedIsSound
Locked == LeasesHold => Safe

IInv == Types /\ Evidence /\ Locked

-----------------------------------------------------------------------------
(* The types, in parts.                                                    *)

RunRows   == [status : {"RUNNING", "COMPLETED", "FAILED", "CANCELLED"},
              before : Contents, after : Contents]
CheckRows == [status : {"RUNNING", "PASSED", "FAILED"}, mode : {"fast", "full"},
              head : Contents, patch : Contents, scope : 1 .. regime.scopes]
Memories  == [run : 0 .. MaxAttempts, check : 0 .. regime.checks,
              patch : Contents, version : 0 .. regime.scopes,
              phase : Phases \cup {"none"},
              outcome : {"none", "pass", "rejected", "retry_writer", "no_retry"}]
Owners    == Procs \cup {Nobody, Ghost}

RunTypes   == runs \in Seq(RunRows) /\ Len(runs) <= MaxAttempts
CheckTypes == checks \in Seq(CheckRows) /\ Len(checks) <= regime.checks
ViewTypes  == view \in [phase : Phases, writer : 0 .. Len(runs),
                        check : 0 .. Len(checks), patch : Contents,
                        head : Contents, scope : 1 .. regime.scopes,
                        broken : BOOLEAN]
EventTypes == /\ applied \subseteq DOMAIN runs
              /\ commits \subseteq [head : Contents, patch : Contents,
                                    run : DOMAIN runs]
ScopeTypes == /\ scope \in [approved : 1 .. regime.scopes, pending : BOOLEAN]
              /\ scope.pending => scope.approved < regime.scopes
CandidateTypes == /\ feedback \in {"none", "retry_writer", "no_retry"}
                  /\ tree \in Contents /\ head \in Contents
                  /\ released \subseteq [head : Contents, patch : Contents]
CommandTypes == /\ lease \in Owners
                /\ pc \in [Procs -> Labels] /\ loc \in [Procs -> Memories]

StoreTypes == /\ RunTypes /\ CheckTypes /\ ViewTypes /\ EventTypes
              /\ ScopeTypes /\ CandidateTypes

RegimeType == regime \in Regimes
AllRemember == \A p \in Procs : Remembers(p)

LEMMA TypeParts ==
  Types <=> RegimeType /\ StoreTypes /\ CommandTypes /\ AllRemember
BY DEF Types, TypeOK, StoreTypes, RunTypes, CheckTypes, ViewTypes, EventTypes,
       ScopeTypes, CandidateTypes, CommandTypes, RunRows, CheckRows, Memories, Owners,
       RegimeType, AllRemember

LEMMA Bounds ==
  ASSUME regime \in Regimes
  PROVE  /\ regime.checks \in Nat /\ regime.scopes \in Nat \ {0}
         /\ MaxAttempts \in Nat \ {0} /\ 0 \in Contents /\ Foreign \in Contents
         /\ 1 .. MaxAttempts \subseteq Contents
BY LifecycleAssumption DEF Contents

LEMMA IdleTyped ==
  ASSUME regime \in Regimes
  PROVE  Idle \in Memories /\ "idle" \in Labels
BY Bounds DEF Idle, Memories, Labels

LEMMA InitTypes == Init => Types
<1> SUFFICES ASSUME Init PROVE Types
  OBVIOUS
<1>1. regime \in Regimes
  BY DEF Init
<1>2. RunTypes /\ CheckTypes
  BY <1>1, Bounds DEF Init, RunTypes, CheckTypes
<1>3. ViewTypes
  BY <1>1, Bounds DEF Init, ViewTypes, Phases
<1>4. EventTypes /\ ScopeTypes /\ CandidateTypes
  BY <1>1, Bounds DEF Init, EventTypes, ScopeTypes, CandidateTypes
<1>5. CommandTypes
  BY <1>1, IdleTyped DEF Init, CommandTypes, Owners
<1>6. \A p \in Procs : Remembers(p)
  BY DEF Init, Remembers, WriterLabels, CommitLabels, CheckLabels, Checking,
         ScopeLabels, Decided
<1> QED BY <1>1, <1>2, <1>3, <1>4, <1>5, <1>6, TypeParts
        DEF StoreTypes, RegimeType, AllRemember

\* A command moves, and no other one does.
Moves(p, l, m) ==
  /\ CommandTypes' /\ pc'[p] = l /\ loc'[p] = m
  /\ \A q \in Procs : q # p => pc'[q] = pc[q] /\ loc'[q] = loc[q]

LEMMA Moving ==
  ASSUME CommandTypes, regime' = regime, NEW p \in Procs, NEW l \in Labels,
         NEW m \in Memories, lease' \in Owners,
         pc' = [pc EXCEPT ![p] = l], loc' = [loc EXCEPT ![p] = m]
  PROVE  Moves(p, l, m)
<1>1. Memories' = Memories
  BY DEF Memories
<1> QED BY <1>1 DEF CommandTypes, Owners, Moves

LEMMA Going ==
  ASSUME CommandTypes, regime' = regime, NEW p \in Procs, NEW l \in Labels,
         lease' \in Owners, Goto(p, l), loc' = loc
  PROVE  Moves(p, l, loc[p])
<1>1. Memories' = Memories
  BY DEF Memories
<1> QED BY <1>1 DEF CommandTypes, Owners, Moves, Goto

LEMMA Finishing ==
  ASSUME CommandTypes, regime \in Regimes, regime' = regime, NEW p \in Procs, Finish(p)
  PROVE  Moves(p, "idle", Idle)
BY IdleTyped, Moving DEF Finish, Goto, CommandTypes, Owners

LEMMA Raising ==
  ASSUME CommandTypes, regime' = regime, NEW p \in Procs, WriterRaises(p)
  PROVE  Moves(p, "fail_lease", loc[p])
BY Going DEF WriterRaises, CommandTypes, Owners, Labels

LEMMA Beginning ==
  ASSUME CommandTypes, regime' = regime, NEW p \in Procs, NEW l \in Labels,
         NEW m \in Memories, Begin(p, l, m)
  PROVE  Moves(p, l, m)
BY Moving DEF Begin, Goto, Owners

\* One command moves, rows are only added, and every part keeps its type.
LEMMA TypesStep ==
  ASSUME Types, regime' = regime, NEW p \in Procs, NEW l, NEW m, Moves(p, l, m),
         StoreTypes', DOMAIN runs \subseteq DOMAIN runs',
         DOMAIN checks \subseteq DOMAIN checks',
         Remembers(p)'
  PROVE  Types'
<1>1. ASSUME NEW q \in Procs PROVE Remembers(q)'
  BY TypeParts DEF Moves, Remembers, AllRemember
<1>2. (RegimeType /\ StoreTypes /\ CommandTypes /\ AllRemember)'
  BY <1>1, TypeParts DEF Moves, RegimeType, AllRemember
<1> QED BY <1>2, TypeParts, PTL

LEMMA StoresKeep ==
  ASSUME Types, UNCHANGED <<regime, rows, events, candidate, released>>
  PROVE  /\ StoreTypes' /\ DOMAIN runs \subseteq DOMAIN runs'
         /\ DOMAIN checks \subseteq DOMAIN checks'
<1>1. StoreTypes
  BY TypeParts
<1> QED BY <1>1 DEF rows, events, candidate, StoreTypes, RunTypes, CheckTypes,
        ViewTypes, EventTypes, ScopeTypes, CandidateTypes, RunRows, CheckRows

LEMMA Current ==
  ASSUME Types, NEW p \in Procs
  PROVE  /\ pc[p] \in Labels /\ loc[p] \in Memories /\ Remembers(p)
         /\ lease \in Owners /\ p \in Owners /\ Nobody \in Owners /\ Ghost \in Owners
         /\ regime \in Regimes /\ CommandTypes /\ StoreTypes
BY TypeParts DEF CommandTypes, RegimeType, AllRemember, Owners

\* The stores keep their types and rows are only added.
StoresFit == /\ StoreTypes' /\ regime' = regime
             /\ DOMAIN runs \subseteq DOMAIN runs'
             /\ DOMAIN checks \subseteq DOMAIN checks'

\* What a command must remember where it goes.
Knows(l, m) ==
  /\ l \in WriterLabels \cup CommitLabels => m.run \in DOMAIN runs
  /\ l \in CheckLabels => m.check \in DOMAIN checks
  /\ l \in ScopeLabels => m.version \in 1 .. regime.scopes
  /\ l \in Decided => m.outcome \in {"pass", "retry_writer", "no_retry"}

LEMMA MoveTypes ==
  ASSUME Types, StoresFit, NEW p \in Procs, NEW l, NEW m, Moves(p, l, m),
         Knows(l, m)'
  PROVE  Types'
BY TypesStep DEF StoresFit, Knows, Moves, Remembers

LEMMA KnowsMore ==
  ASSUME StoresFit, NEW l, NEW m, Knows(l, m)
  PROVE  Knows(l, m)'
BY DEF StoresFit, Knows

LEMMA FinishTypes ==
  ASSUME Types, StoresFit, NEW p \in Procs, Finish(p)
  PROVE  Types'
<1>1. Moves(p, "idle", Idle)
  BY Current, Finishing DEF StoresFit
<1>2. Knows("idle", Idle)'
  BY DEF Knows, WriterLabels, CommitLabels, CheckLabels, Checking, ScopeLabels, Decided
<1> QED BY <1>1, <1>2, MoveTypes

LEMMA RaiseTypes ==
  ASSUME Types, StoresFit, NEW p \in Procs, pc[p] \in WriterLabels, WriterRaises(p)
  PROVE  Types'
<1>1. Moves(p, "fail_lease", loc[p])
  BY Current, Raising DEF StoresFit
<1>2. Knows("fail_lease", loc[p])
  BY Current DEF Knows, WriterLabels, CommitLabels, CheckLabels, Checking, ScopeLabels, Decided,
                 Remembers
<1> QED BY <1>1, <1>2, KnowsMore, MoveTypes

LEMMA GoTypes ==
  ASSUME Types, StoresFit, NEW p \in Procs, NEW l \in Labels, Goto(p, l), loc' = loc,
         lease' \in Owners, Knows(l, loc[p])
  PROVE  Types'
<1>1. Moves(p, l, loc[p])
  BY Current, Going DEF StoresFit
<1> QED BY <1>1, KnowsMore, MoveTypes

LEMMA BeginTypes ==
  ASSUME Types, StoresFit, NEW p \in Procs, NEW l \in Labels, NEW m \in Memories,
         Begin(p, l, m), Knows(l, m)'
  PROVE  Types'
<1>1. Moves(p, l, m)
  BY Current, Beginning DEF StoresFit
<1> QED BY <1>1, MoveTypes

LEMMA StillTypes ==
  ASSUME Types, StoresFit, UNCHANGED <<pc, loc>>, lease' \in Owners
  PROVE  Types'
<1>1. CommandTypes'
  BY TypeParts DEF CommandTypes, StoresFit, Memories, Owners
<1>2. ASSUME NEW q \in Procs PROVE Remembers(q)'
  BY TypeParts DEF AllRemember, Remembers, StoresFit
<1>3. (RegimeType /\ StoreTypes /\ CommandTypes /\ AllRemember)'
  BY <1>1, <1>2, TypeParts DEF StoresFit, RegimeType, AllRemember
<1> QED BY <1>3, TypeParts, PTL

\* Steps that leave the stores alone.
Quiet == UNCHANGED <<regime, rows, events, candidate, released>>

LEMMA QuietFits ==
  ASSUME Types, Quiet
  PROVE  StoresFit
BY StoresKeep DEF Quiet, StoresFit

LEMMA LeaseTypes ==
  ASSUME Types, NEW p \in Procs
  PROVE  /\ lease \in Owners /\ p \in Owners /\ Nobody \in Owners
         /\ (IF lease = p THEN Nobody ELSE lease) \in Owners
BY Current

\* The memory of a command that begins.
LEMMA IdleFields ==
  ASSUME Types
  PROVE  /\ Idle \in Memories
         /\ \A r \in 0 .. MaxAttempts : [Idle EXCEPT !.run = r] \in Memories
         /\ \A c \in 0 .. regime.checks : [Idle EXCEPT !.check = c] \in Memories
         /\ \A x \in Contents : [Idle EXCEPT !.patch = x] \in Memories
         /\ \A ph \in Phases : [Idle EXCEPT !.phase = ph] \in Memories
<1>1. regime \in Regimes
  BY TypeParts DEF RegimeType
<1> QED BY <1>1, Bounds DEF Idle, Memories

LEMMA RunMemory ==
  ASSUME Types, NEW r \in 0 .. MaxAttempts, NEW x \in Contents
  PROVE  LET m == [Idle EXCEPT !.run = r, !.patch = x]
         IN  m \in Memories /\ m.run = r /\ m.patch = x
<1> DEFINE k == [Idle EXCEPT !.run = r]
<1>1. k \in Memories /\ k.run = r
  BY IdleFields DEF Idle
<1>2. [Idle EXCEPT !.run = r, !.patch = x] = [k EXCEPT !.patch = x]
  OBVIOUS
<1> HIDE DEF k
<1> QED BY ONLY x \in Contents, <1>1, <1>2 DEF Memories

LEMMA CheckMemory ==
  ASSUME Types, NEW c \in 0 .. regime.checks, NEW o \in {"pass", "rejected"}
  PROVE  LET m == [Idle EXCEPT !.check = c, !.outcome = o]
         IN  m \in Memories /\ m.check = c /\ m.outcome = o
<1> DEFINE k == [Idle EXCEPT !.check = c]
<1>1. k \in Memories /\ k.check = c
  BY IdleFields DEF Idle
<1>2. [Idle EXCEPT !.check = c, !.outcome = o] = [k EXCEPT !.outcome = o]
  OBVIOUS
<1> HIDE DEF k
<1> QED BY ONLY o \in {"pass", "rejected"}, <1>1, <1>2 DEF Memories

LEMMA ScopeMemory ==
  ASSUME Types, NEW v \in 1 .. regime.scopes, NEW ph \in Phases
  PROVE  LET m == [Idle EXCEPT !.phase = ph, !.version = v]
         IN  m \in Memories /\ m.phase = ph /\ m.version = v
<1> DEFINE k == [Idle EXCEPT !.phase = ph]
<1>1. k \in Memories /\ k.phase = ph
  BY IdleFields DEF Idle
<1>2. [Idle EXCEPT !.phase = ph, !.version = v] = [k EXCEPT !.version = v]
  OBVIOUS
<1> HIDE DEF k
<1>3. v \in 0 .. regime.scopes
  BY TypeParts, Bounds DEF RegimeType
<1> QED BY ONLY <1>1, <1>2, <1>3 DEF Memories

LEMMA WriterQuiet ==
  ASSUME Types, regime' = regime, NEW p \in Procs,
         BackendReturns(p) \/ BackendRaises(p) \/ StagingRejected(p) \/ FailLease(p)
  PROVE  Types'
<1> USE DEF BackendReturns, BackendRaises, StagingRejected, FailLease
<1>1. StoresFit
  BY QuietFits DEF Quiet
<1>2. pc[p] \in WriterLabels /\ loc[p].run \in DOMAIN runs
  BY Current DEF WriterLabels, Remembers
<1>3. Knows("compare", loc[p]) /\ Knows("fail", loc[p])
      /\ "compare" \in Labels /\ "fail" \in Labels
  BY <1>2 DEF Knows, WriterLabels, CommitLabels, CheckLabels, Checking, ScopeLabels, Decided, Labels
<1>4. \/ Finish(p)
      \/ WriterRaises(p)
      \/ \E l \in {"compare", "fail"} : Goto(p, l) /\ loc' = loc /\ lease' = p
  OBVIOUS
<1> QED BY <1>1, <1>2, <1>3, <1>4, Current, FinishTypes, RaiseTypes, GoTypes

LEMMA CommandQuiet ==
  ASSUME Types, regime' = regime, NEW p \in Procs,
         Start(p) \/ CommitCandidate(p) \/ ActivateRevision(p) \/ IntegrateCandidate(p)
  PROVE  Types'
<1>1. StoresFit
  BY QuietFits DEF Quiet, Start, CommitCandidate, ActivateRevision, IntegrateCandidate
<1>2. /\ regime \in Regimes /\ StoreTypes
      /\ {"activate", "git_commit", "approve", "integrate"} \subseteq Labels
  BY Current DEF Labels
<1>3. CASE Start(p)
  <2>1. Knows("activate", Idle)'
    BY DEF Knows, WriterLabels, CommitLabels, CheckLabels, Checking, ScopeLabels, Decided
  <2>2. Idle \in Memories
    BY <1>2, IdleTyped
  <2> QED BY <1>1, <1>2, <1>3, <2>1, <2>2, BeginTypes DEF Start
<1>4. CASE CommitCandidate(p)
  <2> DEFINE m == [Idle EXCEPT !.run = Len(runs), !.patch = tree]
  <2>1. Len(runs) \in DOMAIN runs /\ Len(runs) \in 0 .. MaxAttempts /\ tree \in Contents
    BY <1>2, <1>4, Bounds
       DEF CommitCandidate, WriterIsLatest, StoreTypes, RunTypes, CandidateTypes
  <2>2. m \in Memories /\ m.run = Len(runs)
    BY <2>1, RunMemory
  <2>3. Knows("git_commit", m)
    BY <2>1, <2>2 DEF Knows, WriterLabels, CommitLabels, CheckLabels, Checking, ScopeLabels, Decided
  <2>4. Begin(p, "git_commit", m)
    BY <1>4 DEF CommitCandidate
  <2> HIDE DEF m
  <2> QED BY <1>1, <1>2, <2>2, <2>3, <2>4, KnowsMore, BeginTypes
<1>5. CASE ActivateRevision(p)
  <2> DEFINE m == [Idle EXCEPT !.phase = view.phase, !.version = scope.approved + 1]
  <2>1. view.phase \in Phases /\ scope.approved + 1 \in 1 .. regime.scopes
    BY <1>2, <1>5, Bounds DEF ActivateRevision, StoreTypes, ViewTypes, ScopeTypes
  <2>2. m \in Memories /\ m.version = scope.approved + 1
    BY <2>1, ScopeMemory
  <2>3. Knows("approve", m)
    BY <2>1, <2>2 DEF Knows, WriterLabels, CommitLabels, CheckLabels, Checking, ScopeLabels, Decided
  <2>4. Begin(p, "approve", m)
    BY <1>5 DEF ActivateRevision
  <2> HIDE DEF m
  <2> QED BY <1>1, <1>2, <2>2, <2>3, <2>4, KnowsMore, BeginTypes
<1>6. CASE IntegrateCandidate(p)
  <2> DEFINE m == [Idle EXCEPT !.patch = head]
  <2>1. m \in Memories
    BY <1>2, Bounds DEF Idle, Memories, StoreTypes, CandidateTypes
  <2>2. Knows("integrate", m)
    BY DEF Knows, WriterLabels, CommitLabels, CheckLabels, Checking, ScopeLabels, Decided
  <2>3. Begin(p, "integrate", m)
    BY <1>6 DEF IntegrateCandidate
  <2> HIDE DEF m
  <2> QED BY <1>1, <1>2, <2>1, <2>2, <2>3, KnowsMore, BeginTypes
<1> QED BY <1>3, <1>4, <1>5, <1>6

LEMMA StepQuiet ==
  ASSUME Types, regime' = regime, NEW p \in Procs,
         ScopeProposed(p) \/ IntegrationFails(p) \/ Raises(p)
  PROVE  Types'
<1> USE DEF ScopeProposed, IntegrationFails, Raises
<1>1. StoresFit
  BY QuietFits DEF Quiet
<1>2. Finish(p) \/ (pc[p] \in Writing /\ WriterRaises(p))
  OBVIOUS
<1>3. Writing \subseteq WriterLabels
  BY DEF Writing, WriterLabels
<1> QED BY <1>1, <1>2, <1>3, FinishTypes, RaiseTypes

LEMMA RunChecksTypes ==
  ASSUME Types, regime' = regime, NEW p \in Procs,
         NEW outcome \in {"pass", "retry_writer", "no_retry"}, RunChecks(p, outcome)
  PROVE  Types'
<1>1. StoresFit
  BY QuietFits DEF Quiet, RunChecks
<1> DEFINE m == [loc[p] EXCEPT !.outcome = outcome]
<1>2. /\ loc[p] \in Memories /\ CommandTypes /\ "check_save" \in Labels
      /\ loc[p].check \in DOMAIN checks
  BY Current DEF RunChecks, Remembers, CheckLabels, Checking, Labels
<1>3. m \in Memories /\ m.check = loc[p].check
  BY <1>2 DEF Memories
<1>4. loc' = [loc EXCEPT ![p] = m] /\ pc' = [pc EXCEPT ![p] = "check_save"]
      /\ lease' \in Owners
  BY Current DEF RunChecks, Goto
<1>5. Knows("check_save", m)
  BY <1>2, <1>3 DEF Knows, WriterLabels, CommitLabels, CheckLabels, Checking, ScopeLabels, Decided
<1> HIDE DEF m
<1>6. Moves(p, "check_save", m)
  BY <1>2, <1>3, <1>4, Moving
<1> QED BY <1>1, <1>5, <1>6, KnowsMore, MoveTypes

LEMMA CrashTypes ==
  ASSUME Types, regime' = regime, NEW p \in Procs, Crash(p)
  PROVE  Types'
<1>1. StoresFit
  BY QuietFits DEF Quiet, Crash
<1>2. Moves(p, "idle", Idle)
  BY Current, IdleTyped, Moving DEF Crash, Goto
<1>3. Knows("idle", Idle)'
  BY DEF Knows, WriterLabels, CommitLabels, CheckLabels, Checking, ScopeLabels, Decided
<1> QED BY <1>1, <1>2, <1>3, MoveTypes

\* The projection after one of its fields was written.
LEMMA ViewFields ==
  ASSUME Types, UNCHANGED <<regime, runs, checks>>
  PROVE  /\ view' = view => ViewTypes'
         /\ \A n \in 0 .. Len(runs) : view' = [view EXCEPT !.writer = n] => ViewTypes'
         /\ \A n \in 0 .. Len(checks) : view' = [view EXCEPT !.check = n] => ViewTypes'
         /\ \A n \in 1 .. regime.scopes : view' = [view EXCEPT !.scope = n] => ViewTypes'
         /\ \A ph \in Phases : view' = Enter(ph) => ViewTypes'
BY TypeParts DEF StoreTypes, ViewTypes, Enter

LEMMA ViewCandidate ==
  ASSUME Types, UNCHANGED <<regime, runs, checks>>, NEW x \in Contents, NEW h \in Contents
  PROVE  /\ view' = [view EXCEPT !.patch = x, !.head = h] => ViewTypes'
         /\ view' = [Enter("VERIFIED") EXCEPT !.patch = x, !.head = h] => ViewTypes'
<1> DEFINE V == [phase : Phases, writer : 0 .. Len(runs), check : 0 .. Len(checks),
                 patch : Contents, head : Contents, scope : 1 .. regime.scopes,
                 broken : BOOLEAN]
<1>1. view \in V /\ Enter("VERIFIED") \in V
  BY TypeParts DEF StoreTypes, ViewTypes, Enter, Phases
<1>2. ASSUME NEW e \in V PROVE [e EXCEPT !.patch = x, !.head = h] \in V
  <2>1. [e EXCEPT !.patch = x] \in V
    OBVIOUS
  <2>2. [e EXCEPT !.patch = x, !.head = h] = [[e EXCEPT !.patch = x] EXCEPT !.head = h]
    OBVIOUS
  <2> QED BY <2>1, <2>2
<1>3. view' \in V => ViewTypes'
  BY DEF ViewTypes
<1> HIDE DEF V
<1> QED BY <1>1, <1>2, <1>3

\* A step that writes only the projection and the feedback of the stores.
LEMMA ViewFits ==
  ASSUME Types, ViewTypes', feedback' \in {"none", "retry_writer", "no_retry"},
         UNCHANGED <<regime, runs, checks, scope, applied, commits, candidate, released>>
  PROVE  StoresFit
BY TypeParts DEF StoresFit, StoreTypes, RunTypes, CheckTypes, EventTypes, ScopeTypes,
       CandidateTypes, candidate, RunRows, CheckRows

LEMMA FeedbackType ==
  ASSUME Types
  PROVE  feedback \in {"none", "retry_writer", "no_retry"}
BY TypeParts DEF StoreTypes, CandidateTypes

LEMMA WriterEvents ==
  ASSUME Types, regime' = regime, NEW p \in Procs,
         WriterStarted(p) \/ WriterCompleted(p) \/ WriterFailed(p) \/ WriterCancelled(p)
  PROVE  Types'
<1> USE DEF WriterStarted, WriterCompleted, WriterFailed, WriterCancelled
<1>1. UNCHANGED <<regime, runs, checks, scope, applied, commits, candidate, released>>
      /\ feedback' \in {"none", "retry_writer", "no_retry"}
  BY FeedbackType DEF rows
<1>2. CASE WriterStarted(p)
  <2>1. loc[p].run \in DOMAIN runs
    BY <1>2, Current DEF Remembers, WriterLabels
  <2>2. loc[p].run \in 0 .. Len(runs)
    BY <2>1, TypeParts DEF StoreTypes, RunTypes
  <2>3. ViewTypes'
    BY <1>1, <1>2, <2>2, ViewFields
  <2>4. Knows("backend", loc[p]) /\ "backend" \in Labels
    BY <2>1 DEF Knows, WriterLabels, CommitLabels, CheckLabels, Checking, ScopeLabels, Decided, Labels
  <2> QED BY <1>1, <1>2, <2>3, <2>4, ViewFits, GoTypes, Current
<1>3. CASE WriterCompleted(p) \/ WriterFailed(p) \/ WriterCancelled(p)
  <2>1. 0 \in 0 .. Len(runs)
    BY TypeParts DEF StoreTypes, RunTypes
  <2>2. ViewTypes'
    BY <1>1, <1>3, <2>1, ViewFields
  <2> QED BY <1>1, <1>3, <2>2, ViewFits, FinishTypes
<1> QED BY <1>2, <1>3

LEMMA PhaseEvents ==
  ASSUME Types, regime' = regime, NEW p \in Procs,
         Activate(p) \/ ScopeReopens(p)
  PROVE  Types'
<1> USE DEF Activate, ScopeReopens
<1>1. UNCHANGED <<regime, runs, checks, scope, applied, commits, candidate, released>>
      /\ feedback' \in {"none", "retry_writer", "no_retry"}
  BY FeedbackType DEF rows
<1>2. ViewTypes'
  BY <1>1, ViewFields DEF Phases
<1> QED BY <1>1, <1>2, ViewFits, FinishTypes

LEMMA SaysTypes ==
  ASSUME Types, regime' = regime, NEW p \in Procs, NEW ph \in Phases, Says(p, ph)
  PROVE  Types'
<1>1. UNCHANGED <<regime, runs, checks, scope, applied, commits, candidate, released>>
      /\ feedback' \in {"none", "retry_writer", "no_retry"}
  BY FeedbackType DEF rows, Says
<1>2. ViewTypes'
  BY <1>1, ViewFields DEF Says
<1> QED BY <1>1, <1>2, ViewFits, StillTypes, Current DEF Says

LEMMA ScopeEvent ==
  ASSUME Types, regime' = regime, NEW p \in Procs, ScopeApproved(p)
  PROVE  Types'
<1> USE DEF ScopeApproved
<1>1. UNCHANGED <<regime, runs, checks, scope, applied, commits, candidate, released>>
      /\ feedback' \in {"none", "retry_writer", "no_retry"}
  BY FeedbackType DEF rows
<1>2. loc[p].version \in 1 .. regime.scopes
  BY Current DEF Remembers, ScopeLabels
<1>3. ViewTypes'
  BY <1>1, <1>2, ViewFields
<1>4. Knows("scope_reopen", loc[p]) /\ "scope_reopen" \in Labels
  BY DEF Knows, WriterLabels, CommitLabels, CheckLabels, Checking, ScopeLabels, Decided, Labels
<1>5. CASE Finish(p)
  BY <1>1, <1>3, <1>5, ViewFits, FinishTypes
<1>6. CASE Goto(p, "scope_reopen") /\ UNCHANGED <<lease, loc>>
  BY <1>1, <1>3, <1>4, <1>6, ViewFits, GoTypes, Current
<1> QED BY <1>5, <1>6

LEMMA CheckEvents ==
  ASSUME Types, regime' = regime, NEW p \in Procs, CheckStarted(p) \/ CheckEnded(p)
  PROVE  Types'
<1> USE DEF CheckStarted, CheckEnded
<1>1. UNCHANGED <<regime, runs, checks, scope, applied, commits, candidate, released>>
      /\ feedback' \in {"none", "retry_writer", "no_retry"}
  BY FeedbackType DEF rows
<1>2. loc[p].check \in DOMAIN checks
  BY Current DEF Remembers, CheckLabels, Checking
<1>3. loc[p].check \in 0 .. Len(checks) /\ 0 \in 0 .. Len(checks)
  BY <1>2, TypeParts DEF StoreTypes, CheckTypes
<1>4. ViewTypes'
  BY <1>1, <1>3, ViewFields
<1>5. /\ Knows("check", loc[p]) /\ "check" \in Labels
      /\ CheckEnded(p) => Knows("accept", loc[p]) /\ "accept" \in Labels
  BY <1>2, Current DEF Remembers, Knows, WriterLabels, CommitLabels, CheckLabels, Checking, ScopeLabels, Decided, Labels
<1>6. \E l \in {"check", "accept"} :
        Goto(p, l) /\ UNCHANGED <<lease, loc>> /\ (l = "accept" => CheckEnded(p))
  OBVIOUS
<1> QED BY <1>1, <1>4, <1>5, <1>6, ViewFits, GoTypes, Current

\* What a check is about.
LEMMA CheckRow ==
  ASSUME Types, NEW p \in Procs, loc[p].check \in DOMAIN checks
  PROVE  /\ Check(p).patch \in Contents /\ Check(p).head \in Contents
         /\ Check(p).status \in {"RUNNING", "PASSED", "FAILED"}
         /\ Check(p).mode \in {"fast", "full"} /\ Check(p).scope \in 1 .. regime.scopes
<1>1. Check(p) \in CheckRows
  BY TypeParts DEF StoreTypes, CheckTypes, Check
<1> QED BY <1>1 DEF CheckRows

LEMMA ConcludeTypes ==
  ASSUME Types, regime' = regime, NEW p \in Procs, Conclude(p)
  PROVE  Types'
<1> USE DEF Conclude
<1>1. UNCHANGED <<regime, runs, checks, scope, applied, commits, candidate, released>>
  OBVIOUS
<1>2. /\ loc[p].check \in DOMAIN checks
      /\ loc[p].outcome \in {"pass", "retry_writer", "no_retry"}
  BY Current DEF Remembers, CheckLabels, Checking, Decided
<1>3. ViewTypes'
  BY <1>1, <1>2, CheckRow, ViewFields, ViewCandidate
<1>4. feedback' \in {"none", "retry_writer", "no_retry"}
  BY <1>2, FeedbackType
<1>5. StoresFit
  BY ONLY Types, <1>1, <1>3, <1>4, ViewFits
<1> QED BY <1>5, FinishTypes

-----------------------------------------------------------------------------
(* The types of the steps that write rows.                                 *)

LEMMA RunsFit ==
  ASSUME Types, regime' = regime, RunTypes', Len(runs) <= Len(runs'), CandidateTypes',
         UNCHANGED <<checks, scope, events>>
  PROVE  StoresFit
<1>1. DOMAIN runs \subseteq DOMAIN runs' /\ 0 .. Len(runs) \subseteq 0 .. Len(runs')
  BY TypeParts DEF StoreTypes, RunTypes
<1>2. ViewTypes'
  BY <1>1, TypeParts DEF StoreTypes, ViewTypes, events
<1>3. EventTypes'
  <2>1. [head : Contents, patch : Contents, run : DOMAIN runs]
          \subseteq [head : Contents, patch : Contents, run : DOMAIN runs']
    BY <1>1
  <2> QED BY <1>1, <2>1, TypeParts DEF StoreTypes, EventTypes, events
<1> QED BY <1>1, <1>2, <1>3, TypeParts
        DEF StoresFit, StoreTypes, CheckTypes, ScopeTypes, CheckRows

LEMMA RunWritten ==
  ASSUME Types, NEW i \in DOMAIN runs, NEW r \in RunRows, runs' = [runs EXCEPT ![i] = r]
  PROVE  RunTypes' /\ Len(runs') = Len(runs) /\ DOMAIN runs' = DOMAIN runs
BY TypeParts DEF StoreTypes, RunTypes, RunRows

LEMMA StatusWritten ==
  ASSUME Types, NEW i \in DOMAIN runs,
         NEW s \in {"RUNNING", "COMPLETED", "FAILED", "CANCELLED"}, NEW x \in Contents
  PROVE  /\ runs[i] \in RunRows
         /\ [runs[i] EXCEPT !.status = s] \in RunRows
         /\ [runs[i] EXCEPT !.status = s, !.after = x] \in RunRows
<1>1. runs[i] \in RunRows
  BY TypeParts DEF StoreTypes, RunTypes
<1>2. [runs[i] EXCEPT !.status = s] \in RunRows
  BY <1>1 DEF RunRows
<1>3. [runs[i] EXCEPT !.status = s, !.after = x]
        = [[runs[i] EXCEPT !.status = s] EXCEPT !.after = x]
  OBVIOUS
<1>4. ASSUME NEW e \in RunRows PROVE [e EXCEPT !.after = x] \in RunRows
  BY DEF RunRows
<1> QED BY <1>1, <1>2, <1>3, <1>4

LEMMA CandidateStays ==
  ASSUME Types, UNCHANGED <<feedback, candidate, released>>
  PROVE  CandidateTypes'
BY TypeParts DEF StoreTypes, CandidateTypes, candidate

LEMMA StartWriterTypes ==
  ASSUME Types, regime' = regime, NEW p \in Procs, StartWriter(p)
  PROVE  Types'
<1> DEFINE row == [status |-> "RUNNING", before |-> tree, after |-> 0]
           m   == [Idle EXCEPT !.run = Len(runs) + 1]
<1>1. /\ runs \in Seq(RunRows) /\ Len(runs) < MaxAttempts /\ MaxAttempts \in Nat
      /\ runs' = Append(runs, row) /\ row \in RunRows
  BY TypeParts, Bounds
     DEF StartWriter, StoreTypes, RunTypes, CandidateTypes, RegimeType, RunRows
<1> HIDE DEF row
<1>2. RunTypes' /\ Len(runs) <= Len(runs') /\ Len(runs') = Len(runs) + 1
      /\ Len(runs) + 1 \in 0 .. MaxAttempts /\ Len(runs) + 1 \in DOMAIN runs'
  BY <1>1 DEF RunTypes, RunRows
<1>3. StoresFit
  BY <1>2, RunsFit, CandidateStays DEF StartWriter
<1>4. m \in Memories /\ m.run = Len(runs) + 1
  BY <1>2, IdleFields DEF Idle
<1>5. Begin(p, "announce", m)
  BY DEF StartWriter
<1> HIDE DEF m
<1>6. ASSUME NEW e, e.run = Len(runs) + 1 PROVE Knows("announce", e)'
  BY <1>2, <1>6 DEF Knows, WriterLabels, CommitLabels, CheckLabels, Checking,
                    ScopeLabels, Decided
<1>7. "announce" \in Labels
  BY DEF Labels, Writing
<1> QED BY <1>3, <1>4, <1>5, <1>6, <1>7, BeginTypes

LEMMA MadeContent ==
  ASSUME Types, NEW p \in Procs, loc[p].run \in DOMAIN runs, NEW c \in BOOLEAN
  PROVE  Made(p, c) \in Contents
BY TypeParts, Bounds DEF Made, StoreTypes, RunTypes, CandidateTypes, RegimeType

LEMMA ApplyTypes ==
  ASSUME Types, regime' = regime, NEW p \in Procs, NEW c \in BOOLEAN, Apply(p, c)
  PROVE  Types'
<1>1. loc[p].run \in DOMAIN runs
  BY Current DEF Apply, Remembers, WriterLabels
<1>2. Made(p, c) \in Contents
  BY <1>1, MadeContent
<1>3. RunTypes' /\ Len(runs') = Len(runs)
  BY <1>1, <1>2, StatusWritten, RunWritten DEF Apply
<1>4. CandidateTypes'
  BY <1>2, TypeParts DEF Apply, StoreTypes, CandidateTypes
<1>5. StoresFit
  BY <1>3, <1>4, RunsFit, TypeParts DEF Apply, StoreTypes, RunTypes
<1>6. Knows("applied", loc[p]) /\ "applied" \in Labels
  BY <1>1 DEF Knows, WriterLabels, CommitLabels, CheckLabels, Checking, ScopeLabels,
              Decided, Labels, Writing
<1> QED BY <1>5, <1>6, GoTypes, Current DEF Apply

LEMMA FailTypes ==
  ASSUME Types, regime' = regime, NEW p \in Procs, Fail(p)
  PROVE  Types'
<1>1. loc[p].run \in DOMAIN runs
  BY Current DEF Fail, Remembers, WriterLabels
<1>2. RunTypes' /\ Len(runs') = Len(runs)
  BY <1>1, Bounds, StatusWritten, RunWritten, TypeParts DEF Fail, RegimeType
<1>3. StoresFit
  BY <1>2, RunsFit, CandidateStays, TypeParts DEF Fail, StoreTypes, RunTypes
<1>4. Knows("fail_event", loc[p]) /\ "fail_event" \in Labels
  BY <1>1 DEF Knows, WriterLabels, CommitLabels, CheckLabels, Checking, ScopeLabels,
              Decided, Labels
<1> QED BY <1>3, <1>4, GoTypes, Current DEF Fail

LEMMA CancelTypes ==
  ASSUME Types, regime' = regime, NEW p \in Procs, CancelWriter(p)
  PROVE  Types'
<1>1. view.writer \in DOMAIN runs
  BY TypeParts DEF CancelWriter, StoreTypes, ViewTypes, RunTypes
<1>2. RunTypes' /\ Len(runs') = Len(runs)
  BY <1>1, Bounds, StatusWritten, RunWritten, TypeParts DEF CancelWriter, RegimeType
<1>3. StoresFit
  BY <1>2, RunsFit, CandidateStays, TypeParts DEF CancelWriter, StoreTypes, RunTypes
<1>4. Knows("cancel_event", Idle)' /\ "cancel_event" \in Labels
  BY DEF Knows, WriterLabels, CommitLabels, CheckLabels, Checking, ScopeLabels,
         Decided, Labels
<1> QED BY <1>3, <1>4, BeginTypes, IdleFields DEF CancelWriter

LEMMA ChecksFit ==
  ASSUME Types, regime' = regime, CheckTypes', Len(checks) <= Len(checks'),
         UNCHANGED <<runs, scope, feedback, events, candidate, released>>
  PROVE  StoresFit
<1>1. DOMAIN checks \subseteq DOMAIN checks' /\ 0 .. Len(checks) \subseteq 0 .. Len(checks')
  BY TypeParts DEF StoreTypes, CheckTypes
<1>2. ViewTypes'
  BY <1>1, TypeParts DEF StoreTypes, ViewTypes, events
<1> QED BY <1>1, <1>2, CandidateStays, TypeParts
        DEF StoresFit, StoreTypes, RunTypes, EventTypes, ScopeTypes, events, RunRows

LEMMA VerifyTypes ==
  ASSUME Types, regime' = regime, NEW p \in Procs, NEW mode \in {"fast", "full"},
         Verify(p, mode)
  PROVE  Types'
<1> DEFINE row == [status |-> "RUNNING", mode |-> mode, head |-> head, patch |-> tree,
                   scope |-> scope.approved]
           o   == IF Admits(mode) THEN "pass" ELSE "rejected"
           m   == [Idle EXCEPT !.check = Len(checks) + 1, !.outcome = o]
<1>1. row \in CheckRows
  BY TypeParts DEF StoreTypes, ScopeTypes, CandidateTypes, CheckRows
<1>2. /\ checks \in Seq(CheckRows) /\ Len(checks) < regime.checks
      /\ regime.checks \in Nat /\ checks' = Append(checks, row)
  BY TypeParts, Bounds DEF Verify, StoreTypes, CheckTypes, RegimeType
<1> HIDE DEF row
<1>3. /\ checks' \in Seq(CheckRows) /\ Len(checks') = Len(checks) + 1
      /\ Len(checks) + 1 \in DOMAIN checks'
  BY <1>1, <1>2
<1>4. CheckTypes' /\ Len(checks) <= Len(checks') /\ Len(checks) + 1 \in 0 .. regime.checks
  BY <1>2, <1>3 DEF CheckTypes, CheckRows
<1>5. StoresFit
  BY <1>4, ChecksFit DEF Verify
<1>6. o \in {"pass", "rejected"}
  OBVIOUS
<1>7. Begin(p, "check_event", m)
  BY DEF Verify
<1> HIDE DEF o
<1>8. m \in Memories /\ m.check = Len(checks) + 1
  BY <1>4, <1>6, CheckMemory
<1> HIDE DEF m
<1>9. ASSUME NEW e, e.check = Len(checks) + 1 PROVE Knows("check_event", e)'
  BY <1>3, <1>9 DEF Knows, WriterLabels, CommitLabels, CheckLabels, Checking, ScopeLabels, Decided
<1> QED BY <1>5, <1>7, <1>8, <1>9, BeginTypes DEF Labels

LEMMA CheckSavedTypes ==
  ASSUME Types, regime' = regime, NEW p \in Procs, CheckSaved(p)
  PROVE  Types'
<1> DEFINE i == loc[p].check
           s == IF loc[p].outcome = "pass" THEN "PASSED" ELSE "FAILED"
<1>1. i \in DOMAIN checks /\ loc[p].outcome \in {"pass", "retry_writer", "no_retry"}
  BY Current DEF CheckSaved, Remembers, CheckLabels, Checking, Decided
<1>2. /\ checks \in Seq(CheckRows) /\ checks[i] \in CheckRows
      /\ Len(checks) <= regime.checks
  BY <1>1, TypeParts DEF StoreTypes, CheckTypes
<1>3. [checks[i] EXCEPT !.status = s] \in CheckRows
  BY <1>2 DEF CheckRows
<1>4. checks' = [checks EXCEPT ![i] = [checks[i] EXCEPT !.status = s]]
  BY DEF CheckSaved
<1>5. checks' \in Seq(CheckRows) /\ Len(checks') = Len(checks)
  BY <1>1, <1>2, <1>3, <1>4
<1>6. CheckTypes' /\ Len(checks) <= Len(checks')
  BY <1>2, <1>5 DEF CheckTypes, CheckRows
<1>7. StoresFit
  BY <1>6, ChecksFit DEF CheckSaved
<1>8. Knows("check_done", loc[p]) /\ "check_done" \in Labels
  BY <1>1 DEF Knows, WriterLabels, CommitLabels, CheckLabels, Checking, ScopeLabels,
              Decided, Labels
<1> QED BY <1>7, <1>8, GoTypes, Current DEF CheckSaved

LEMMA EventsFit ==
  ASSUME Types, regime' = regime, ViewTypes', EventTypes',
         UNCHANGED <<rows, candidate, released>>
  PROVE  StoresFit
BY CandidateStays, TypeParts
   DEF StoresFit, StoreTypes, RunTypes, CheckTypes, ScopeTypes, rows, RunRows, CheckRows

LEMMA WriterAppliedTypes ==
  ASSUME Types, regime' = regime, NEW p \in Procs, WriterApplied(p)
  PROVE  Types'
<1>1. loc[p].run \in DOMAIN runs
  BY Current DEF WriterApplied, Remembers, WriterLabels
<1>2. runs[loc[p].run].after \in Contents /\ 0 \in Contents
  <2>1. runs[loc[p].run] \in RunRows
    BY <1>1, TypeParts DEF StoreTypes, RunTypes
  <2> QED BY <2>1, TypeParts, Bounds DEF RunRows, RegimeType
<1>3. ViewTypes'
  BY <1>2, ViewCandidate DEF WriterApplied, rows
<1>4. EventTypes'
  BY <1>1, TypeParts DEF WriterApplied, StoreTypes, EventTypes, rows
<1>5. Knows("complete", loc[p]) /\ "complete" \in Labels
  BY <1>1 DEF Knows, WriterLabels, CommitLabels, CheckLabels, Checking, ScopeLabels,
              Decided, Labels, Writing
<1> QED BY <1>3, <1>4, <1>5, EventsFit, GoTypes, Current DEF WriterApplied

LEMMA CommittedTypes ==
  ASSUME Types, regime' = regime, NEW p \in Procs, CandidateCommitted(p)
  PROVE  Types'
<1>1. loc[p].run \in DOMAIN runs /\ loc[p].patch \in Contents
  BY Current DEF CandidateCommitted, Remembers, CommitLabels, Memories
<1>2. head \in Contents
  BY TypeParts DEF StoreTypes, CandidateTypes
<1>3. ViewTypes'
  BY <1>1, <1>2, ViewCandidate DEF CandidateCommitted, rows
<1>4. EventTypes'
  BY <1>1, <1>2, TypeParts DEF CandidateCommitted, StoreTypes, EventTypes, rows
<1> QED BY <1>3, <1>4, EventsFit, FinishTypes DEF CandidateCommitted

LEMMA ScopeFit ==
  ASSUME Types, regime' = regime, ScopeTypes',
         UNCHANGED <<runs, checks, feedback, events, candidate, released>>
  PROVE  StoresFit
BY CandidateStays, TypeParts
   DEF StoresFit, StoreTypes, RunTypes, CheckTypes, ViewTypes, EventTypes, events,
       RunRows, CheckRows

LEMMA ScopeChangeTypes ==
  ASSUME Types, regime' = regime, NEW p \in Procs, RequestScopeChange(p)
  PROVE  Types'
<1> DEFINE m == [Idle EXCEPT !.phase = view.phase, !.version = scope.approved + 1]
<1>1. view.phase \in Phases /\ scope.approved + 1 \in 1 .. regime.scopes
  BY TypeParts, Bounds
     DEF RequestScopeChange, StoreTypes, ViewTypes, ScopeTypes, RegimeType
<1>2. ScopeTypes'
  BY TypeParts DEF RequestScopeChange, StoreTypes, ScopeTypes
<1>3. StoresFit
  BY <1>2, ScopeFit DEF RequestScopeChange
<1>4. m \in Memories /\ m.version = scope.approved + 1
  BY <1>1, ScopeMemory
<1>5. Begin(p, "authority", m)
  BY DEF RequestScopeChange
<1> HIDE DEF m
<1>6. Knows("authority", m)
  BY <1>1, <1>4 DEF Knows, WriterLabels, CommitLabels, CheckLabels, Checking,
                    ScopeLabels, Decided
<1> QED BY <1>3, <1>4, <1>5, <1>6, KnowsMore, BeginTypes DEF Labels

LEMMA ApproveTypes ==
  ASSUME Types, regime' = regime, NEW p \in Procs, ApproveRevision(p)
  PROVE  Types'
<1>1. loc[p].version \in 1 .. regime.scopes
  BY Current DEF ApproveRevision, Remembers, ScopeLabels
<1>2. ScopeTypes'
  BY <1>1 DEF ApproveRevision, ScopeTypes
<1>3. StoresFit
  BY <1>2, ScopeFit DEF ApproveRevision
<1>4. Knows("scope_event", loc[p]) /\ "scope_event" \in Labels
  BY <1>1 DEF Knows, WriterLabels, CommitLabels, CheckLabels, Checking, ScopeLabels,
              Decided, Labels
<1> QED BY <1>3, <1>4, GoTypes, Current DEF ApproveRevision

LEMMA CandidateFit ==
  ASSUME Types, regime' = regime, CandidateTypes', ViewTypes',
         UNCHANGED <<runs, checks, scope, applied, commits>>
  PROVE  StoresFit
BY TypeParts DEF StoresFit, StoreTypes, RunTypes, CheckTypes, EventTypes, ScopeTypes,
                 RunRows, CheckRows

\* A step that writes the candidate or what was released, no row and no event.
LEMMA CandidateOnly ==
  ASSUME Types, regime' = regime, tree' \in Contents, head' \in Contents,
         released' \subseteq [head : Contents, patch : Contents],
         UNCHANGED <<rows, events>>
  PROVE  StoresFit
<1>1. ViewTypes'
  BY TypeParts DEF StoreTypes, ViewTypes, rows, events
<1> QED BY <1>1, CandidateFit, FeedbackType DEF CandidateTypes, rows, events

LEMMA CompareTypes ==
  ASSUME Types, regime' = regime, NEW p \in Procs, Compare(p) \/ ApplyFails(p)
  PROVE  Types'
<1>1. pc[p] \in WriterLabels /\ loc[p].run \in DOMAIN runs
  BY Current DEF Compare, ApplyFails, Remembers, WriterLabels
<1>2. /\ Made(p, TRUE) \in Contents /\ Backup(p) \in Contents /\ 0 \in Contents
      /\ tree \in Contents /\ head \in Contents
      /\ released \subseteq [head : Contents, patch : Contents]
  BY <1>1, MadeContent, StatusWritten, Bounds, TypeParts
     DEF Backup, RunRows, StoreTypes, CandidateTypes, RegimeType
<1>3. tree' \in Contents /\ head' \in Contents /\ released' = released
      /\ UNCHANGED <<rows, events>>
  BY <1>2 DEF Compare, ApplyFails, Restore, candidate
<1>4. StoresFit
  BY <1>2, <1>3, CandidateOnly
<1>5. Knows("apply", loc[p]) /\ "apply" \in Labels
  BY <1>1 DEF Knows, WriterLabels, CommitLabels, CheckLabels, Checking, ScopeLabels,
              Decided, Labels, Writing
<1>6. WriterRaises(p) \/ (Goto(p, "apply") /\ UNCHANGED <<lease, loc>>)
  BY DEF Compare, ApplyFails
<1> QED BY <1>1, <1>4, <1>5, <1>6, RaiseTypes, GoTypes, Current

LEMMA GitCommitTypes ==
  ASSUME Types, regime' = regime, NEW p \in Procs, GitCommit(p)
  PROVE  Types'
<1>1. loc[p].run \in DOMAIN runs
  BY Current DEF GitCommit, Remembers, CommitLabels
<1>2. StoresFit
  BY CandidateOnly, TypeParts DEF GitCommit, StoreTypes, CandidateTypes
<1>3. Knows("commit_event", loc[p]) /\ "commit_event" \in Labels
  BY <1>1 DEF Knows, WriterLabels, CommitLabels, CheckLabels, Checking, ScopeLabels,
              Decided, Labels
<1>4. Finish(p) \/ (Goto(p, "commit_event") /\ UNCHANGED <<lease, loc>>)
  BY DEF GitCommit
<1> QED BY <1>2, <1>3, <1>4, FinishTypes, GoTypes, Current

LEMMA EditTypes ==
  ASSUME Types, regime' = regime, Edit
  PROVE  Types'
<1>1. StoresFit
  BY CandidateOnly, TypeParts DEF Edit, StoreTypes, CandidateTypes, Contents
<1> QED BY <1>1, StillTypes, TypeParts DEF Edit, CommandTypes

LEMMA ExpireTypes ==
  ASSUME Types, regime' = regime, LeaseExpires
  PROVE  Types'
<1>1. StoresFit
  BY QuietFits DEF Quiet, LeaseExpires
<1> QED BY <1>1, StillTypes DEF LeaseExpires, Owners

LEMMA PrepareTypes ==
  ASSUME Types, regime' = regime, NEW p \in Procs, PreparePromotion(p)
  PROVE  Types'
<1>1. StoresFit
  BY CandidateOnly, TypeParts DEF PreparePromotion, StoreTypes, CandidateTypes, candidate
<1> QED BY <1>1, StillTypes, Current DEF PreparePromotion

LEMMA IntegratedTypes ==
  ASSUME Types, regime' = regime, NEW p \in Procs, Integrated(p)
  PROVE  Types'
<1>1. loc[p].patch \in Contents
  BY Current DEF Memories
<1>2. ViewTypes'
  BY ViewFields DEF Integrated, rows, Phases
<1>3. CandidateTypes'
  BY <1>1, TypeParts DEF Integrated, StoreTypes, CandidateTypes, rows, candidate
<1>4. StoresFit
  BY <1>2, <1>3, CandidateFit DEF Integrated, rows
<1> QED BY <1>4, FinishTypes DEF Integrated

LEMMA CommandTypesKept ==
  ASSUME Types, regime' = regime, NEW p \in Procs, Command(p)
  PROVE  Types'
<1>1. CASE Start(p) \/ CommitCandidate(p) \/ ActivateRevision(p) \/ IntegrateCandidate(p)
  BY <1>1, CommandQuiet
<1>2. CASE StartWriter(p)
  BY <1>2, StartWriterTypes
<1>3. CASE CancelWriter(p)
  BY <1>3, CancelTypes
<1>4. CASE \E mode \in {"fast", "full"} : Verify(p, mode)
  BY <1>4, VerifyTypes
<1>5. CASE RequestScopeChange(p)
  BY <1>5, ScopeChangeTypes
<1>6. CASE Reopen(p) \/ Close(p) \/ CandidateChanged(p)
  BY <1>6, SaysTypes DEF Reopen, Close, CandidateChanged, Phases
<1>7. CASE PreparePromotion(p)
  BY <1>7, PrepareTypes
<1> QED BY <1>1, <1>2, <1>3, <1>4, <1>5, <1>6, <1>7 DEF Command

LEMMA StepTypesKept ==
  ASSUME Types, NEW p \in Procs, Step(p)
  PROVE  Types'
<1>1. regime' = regime
  BY DEF Step
<1>2. CASE WriterStep(p)
  <2>1. CASE WriterStarted(p) \/ WriterCompleted(p) \/ WriterFailed(p)
    BY <1>1, <2>1, WriterEvents
  <2>2. CASE BackendReturns(p) \/ BackendRaises(p) \/ StagingRejected(p) \/ FailLease(p)
    BY <1>1, <2>2, WriterQuiet
  <2>3. CASE Compare(p) \/ ApplyFails(p)
    BY <1>1, <2>3, CompareTypes
  <2>4. CASE \E c \in BOOLEAN : Apply(p, c)
    BY <1>1, <2>4, ApplyTypes
  <2>5. CASE WriterApplied(p)
    BY <1>1, <2>5, WriterAppliedTypes
  <2>6. CASE Fail(p)
    BY <1>1, <2>6, FailTypes
  <2> QED BY <1>2, <2>1, <2>2, <2>3, <2>4, <2>5, <2>6 DEF WriterStep
<1>3. CASE CheckStep(p)
  BY <1>1, <1>3, CheckEvents, RunChecksTypes, CheckSavedTypes, ConcludeTypes DEF CheckStep
<1>4. CASE OtherStep(p)
  BY <1>1, <1>4, PhaseEvents, WriterEvents, GitCommitTypes, CommittedTypes, StepQuiet,
     ApproveTypes, ScopeEvent, IntegratedTypes DEF OtherStep
<1> QED BY <1>2, <1>3, <1>4 DEF Step

LEMMA NextTypes == Types /\ [Next]_vars => Types'
<1> SUFFICES ASSUME Types, [Next]_vars PROVE Types'
  OBVIOUS
<1>1. CASE Next
  <2>1. regime' = regime
    BY <1>1 DEF Next
  <2>2. CASE \E p \in Procs : Command(p) \/ Step(p) \/ Raises(p) \/ Crash(p)
    BY <2>1, <2>2, CommandTypesKept, StepTypesKept, StepQuiet, CrashTypes
  <2>3. CASE Edit \/ LeaseExpires
    BY <2>1, <2>3, EditTypes, ExpireTypes
  <2> QED BY <1>1, <2>2, <2>3 DEF Next
<1>2. CASE UNCHANGED vars
  <2>1. Quiet /\ UNCHANGED <<pc, loc, lease>>
    BY <1>2 DEF vars, Quiet
  <2> QED BY <2>1, QuietFits, StillTypes, TypeParts DEF CommandTypes
<1> QED BY <1>1, <1>2

\* Whatever is interrupted, stolen or edited, the projection names rows that
\* exist and every row has its type.
THEOREM ProjectionIsTyped == Spec => []TypeOK
<1>1. Types => TypeOK
  BY DEF Types
<1> QED BY <1>1, InitTypes, NextTypes, PTL DEF Spec

-----------------------------------------------------------------------------
(* The evidence: what holds although leases may be stolen.                 *)

LEMMA LessIsOrdered == \A x, y \in Nat : x < y => <<x, y>> \in OpToRel(<, Nat)
BY DEF OpToRel

\* A non-empty set of positions has a last one.
LEMMA GreatestExists ==
  ASSUME NEW n \in Nat, NEW S, S \subseteq 1 .. n, S # {}
  PROVE  \E i \in S : \A j \in S : j <= i
<1> DEFINE T == {k \in Nat : \E i \in S : k = n - i}
<1>1. T \subseteq Nat /\ T # {}
  <2>1. PICK i \in S : i \in 1 .. n
    OBVIOUS
  <2>2. n - i \in T
    BY <2>1
  <2> QED BY <2>2
<1>2. PICK k \in T : \A y \in T : ~ (<<y, k>> \in OpToRel(<, Nat))
  <2> HIDE DEF T
  <2> QED BY <1>1, WFMin, NatLessThanWellFounded
<1>3. \A y \in T : ~ (y < k)
  BY <1>1, <1>2, LessIsOrdered
<1>4. PICK i \in S : k = n - i
  OBVIOUS
<1>5. ASSUME NEW j \in S PROVE j <= i
  <2>1. n - j \in T
    OBVIOUS
  <2> QED BY <1>3, <1>4, <2>1
<1> QED BY <1>5

LEMMA LatestPassed ==
  ASSUME Types, FullPassed # {}
  PROVE  Latest(FullPassed) \in FullPassed
<1>1. Len(checks) \in Nat /\ DOMAIN checks = 1 .. Len(checks)
  BY TypeParts DEF StoreTypes, CheckTypes
<1>2. FullPassed \subseteq 1 .. Len(checks)
  BY <1>1 DEF FullPassed
<1> QED BY <1>1, <1>2, GreatestExists DEF Latest

\* What can be released passed a full check.
LEMMA ReleasableChecked ==
  ASSUME Types, Releasable
  PROVE  IsChecked(head, tree)
BY LatestPassed DEF Releasable, IsChecked

\* Commits and the rows of checks stay, and a check that passed has passed.
Grows ==
  /\ commits \subseteq commits'
  /\ \A i \in DOMAIN checks :
       /\ i \in DOMAIN checks'
       /\ checks'[i].head = checks[i].head /\ checks'[i].patch = checks[i].patch
       /\ checks'[i].mode = checks[i].mode
       /\ checks[i].status = "PASSED" => checks'[i].status = "PASSED"

LEMMA EvidenceGrows ==
  ASSUME Grows
  PROVE  /\ \A h, x : IsCommitted(h, x) => IsCommitted(h, x)'
         /\ \A h, x : IsChecked(h, x) => IsChecked(h, x)'
<1>1. \A h, x : IsCommitted(h, x) => IsCommitted(h, x)'
  BY DEF Grows, IsCommitted
<1>2. FullPassed \subseteq FullPassed'
  BY DEF Grows, FullPassed
<1>3. FullPassed \subseteq DOMAIN checks
  BY DEF FullPassed
<1>4. \A h, x : IsChecked(h, x) => IsChecked(h, x)'
  BY <1>2, <1>3 DEF Grows, IsChecked
<1> QED BY <1>1, <1>4

\* Where a command goes, its run and its check are still its own.
Owns(p, l, m) ==
  /\ l \in WriterLabels =>
       (pc[p] \in WriterLabels /\ m.run = loc[p].run) \/ m.run \notin DOMAIN runs
  /\ l \in CheckLabels =>
       (pc[p] \in CheckLabels /\ m.check = loc[p].check) \/ m.check \notin DOMAIN checks

\* The rows of the other commands stay as they are, but for a cancellation.
OthersKeep(p) ==
  \A q \in Procs : q # p =>
    /\ pc[q] \in Unfinished => runs'[loc[q].run].status \in {"RUNNING", "CANCELLED"}
    /\ pc[q] \in CheckLabels => checks'[loc[q].check] = checks[loc[q].check]

LEMMA EvidenceMove ==
  ASSUME Types, Evidence, Grows, NEW p \in Procs, NEW l, NEW m, Moves(p, l, m),
         OthersKeep(p), Works(l, m)', Owns(p, l, m),
         CheckedWasCommitted', ReleasedWasChecked'
  PROVE  Evidence'
<1>1. ASSUME NEW q \in Procs, q # p PROVE Works(pc[q], loc[q])'
  <2>1. pc'[q] = pc[q] /\ loc'[q] = loc[q] /\ Works(pc[q], loc[q])
    BY <1>1 DEF Moves, Evidence
  <2>2. pc[q] \in Checking \/ pc[q] \in {"check_done", "accept"} =>
          checks'[loc[q].check] = checks[loc[q].check]
    BY <1>1 DEF OthersKeep, CheckLabels
  <2> QED BY <1>1, <2>1, <2>2, EvidenceGrows DEF Works, OthersKeep
<1>2. Works(pc[p], loc[p])'
  BY DEF Moves
<1>3. OwnRows'
  <2>1. \A q \in Procs : pc[q] \in WriterLabels => loc[q].run \in DOMAIN runs
    BY Current DEF Remembers
  <2>2. \A q \in Procs : pc[q] \in CheckLabels => loc[q].check \in DOMAIN checks
    BY Current DEF Remembers
  <2> QED BY <2>1, <2>2 DEF Evidence, OwnRows, Owns, Moves
<1> QED BY <1>1, <1>2, <1>3 DEF Evidence

\* Steps that write no run, check, commit or release.
Kept == UNCHANGED <<regime, runs, checks, commits, released>>

LEMMA KeptFacts ==
  ASSUME Types, Evidence, Kept
  PROVE  /\ Grows /\ CheckedWasCommitted' /\ ReleasedWasChecked'
         /\ \A p \in Procs : OthersKeep(p)
         /\ \A l, m : Works(l, m) => Works(l, m)'
<1>1. Grows
  BY DEF Kept, Grows
<1>2. CheckedWasCommitted' /\ ReleasedWasChecked'
  BY DEF Kept, Evidence, CheckedWasCommitted, ReleasedWasChecked, FullPassed, IsCommitted
<1>3. \A p \in Procs : OthersKeep(p)
  BY DEF Kept, Evidence, OthersKeep, Works
<1>4. \A l, m : Works(l, m) => Works(l, m)'
  BY DEF Kept, Works, IsCommitted, IsChecked, FullPassed
<1> QED BY <1>1, <1>2, <1>3, <1>4

LEMMA Moved ==
  ASSUME Types, Types', NEW p \in Procs, NEW l, NEW m,
         pc' = [pc EXCEPT ![p] = l], loc' = [loc EXCEPT ![p] = m]
  PROVE  Moves(p, l, m)
<1>1. CommandTypes /\ CommandTypes'
  BY TypeParts, PTL
<1> QED BY <1>1 DEF Moves, CommandTypes

LEMMA Went ==
  ASSUME Types, Types', NEW p \in Procs, NEW l, Goto(p, l), loc' = loc
  PROVE  Moves(p, l, loc[p])
<1>1. CommandTypes /\ CommandTypes'
  BY TypeParts, PTL
<1> QED BY <1>1 DEF Moves, CommandTypes, Goto

LEMMA Finished ==
  ASSUME Types, Types', NEW p \in Procs, Finish(p) \/ Crash(p)
  PROVE  Moves(p, "idle", Idle)
BY Moved DEF Finish, Crash, Goto

LEMMA Raised ==
  ASSUME Types, Types', NEW p \in Procs, WriterRaises(p)
  PROVE  Moves(p, "fail_lease", loc[p])
BY Went DEF WriterRaises

LEMMA Began ==
  ASSUME Types, Types', NEW p \in Procs, NEW l, NEW m, Begin(p, l, m)
  PROVE  Moves(p, l, m)
BY Moved DEF Begin, Goto

\* Where a command owns no row, and where it keeps the one it has.
Rowless == Labels \ (WriterLabels \cup CheckLabels \cup {"integrate"})

Follows(k, l) ==
  \/ l \in Rowless
  \/ k \in WriterLabels /\ l \in WriterLabels /\ (l \in Unfinished => k \in Unfinished)
  \/ k \in CheckLabels /\ l \in CheckLabels /\ (l \in Checking <=> k \in Checking)

LEMMA RowlessEvidence ==
  ASSUME Types, Evidence, Kept, NEW p \in Procs, NEW l \in Rowless, NEW m, Moves(p, l, m)
  PROVE  Evidence'
<1>1. Works(l, m)' /\ Owns(p, l, m)
  BY DEF Rowless, Works, Owns, WriterLabels, Unfinished, CheckLabels, Checking
<1> QED BY <1>1, KeptFacts, EvidenceMove

LEMMA FollowEvidence ==
  ASSUME Types, Evidence, Kept, NEW p \in Procs, NEW l, Follows(pc[p], l),
         Moves(p, l, loc[p])
  PROVE  Evidence'
<1>1. CASE l \in Rowless
  BY <1>1, RowlessEvidence
<1>2. CASE l \notin Rowless
  <2>1. Works(l, loc[p])
    BY <1>2 DEF Follows, Evidence, Works, WriterLabels, Unfinished, CheckLabels, Checking
  <2>2. Owns(p, l, loc[p])
    BY <1>2 DEF Follows, Owns, WriterLabels, CheckLabels, Checking
  <2> QED BY <2>1, <2>2, KeptFacts, EvidenceMove
<1> QED BY <1>1, <1>2

LEMMA IdleEvidence ==
  ASSUME Types, Types', Evidence, Kept, NEW p \in Procs, Finish(p) \/ Crash(p)
  PROVE  Evidence'
<1>1. "idle" \in Rowless
  BY DEF Rowless, Labels, WriterLabels, CheckLabels, Checking
<1> QED BY <1>1, Finished, RowlessEvidence

LEMMA RaiseEvidence ==
  ASSUME Types, Types', Evidence, Kept, NEW p \in Procs, pc[p] \in WriterLabels,
         WriterRaises(p)
  PROVE  Evidence'
<1>1. Follows(pc[p], "fail_lease")
  BY DEF Follows, WriterLabels, Unfinished
<1> QED BY <1>1, Raised, FollowEvidence

LEMMA GoEvidence ==
  ASSUME Types, Types', Evidence, Kept, NEW p \in Procs, NEW l, Follows(pc[p], l),
         Goto(p, l), loc' = loc
  PROVE  Evidence'
BY Went, FollowEvidence

LEMMA BeginEvidence ==
  ASSUME Types, Types', Evidence, Kept, NEW p \in Procs, NEW l \in Rowless, NEW m,
         Begin(p, l, m)
  PROVE  Evidence'
BY Began, RowlessEvidence

LEMMA StillEvidence ==
  ASSUME Types, Evidence, Kept, UNCHANGED <<pc, loc>>
  PROVE  Evidence'
<1>1. OwnRows'
  BY DEF Evidence, OwnRows
<1>2. ASSUME NEW q \in Procs PROVE Works(pc[q], loc[q])'
  <2>1. Works(pc[q], loc[q])
    BY DEF Evidence
  <2> QED BY <2>1, KeptFacts
<1> QED BY <1>1, <1>2, KeptFacts DEF Evidence

\* Commands that write no row.
LEMMA KeptCommands ==
  ASSUME Types, Types', Evidence, regime' = regime, NEW p \in Procs,
         \/ Start(p) \/ CommitCandidate(p) \/ RequestScopeChange(p) \/ ActivateRevision(p)
         \/ Reopen(p) \/ Close(p) \/ CandidateChanged(p)
  PROVE  Evidence'
<1>1. Kept
  BY DEF Kept, Start, CommitCandidate, RequestScopeChange, ActivateRevision, Reopen,
         Close, CandidateChanged, Says, rows, events
<1>2. {"activate", "git_commit", "authority", "approve"} \subseteq Rowless
  BY DEF Rowless, Labels, WriterLabels, CheckLabels, Checking
<1>3. CASE Reopen(p) \/ Close(p) \/ CandidateChanged(p)
  <2>1. UNCHANGED <<pc, loc>>
    BY <1>3 DEF Reopen, Close, CandidateChanged, Says
  <2> QED BY <1>1, <2>1, StillEvidence
<1>4. CASE Start(p) \/ CommitCandidate(p) \/ RequestScopeChange(p) \/ ActivateRevision(p)
  <2>1. \E l \in Rowless : \E m : Begin(p, l, m)
    BY <1>2, <1>4 DEF Start, CommitCandidate, RequestScopeChange, ActivateRevision
  <2> QED BY <1>1, <2>1, BeginEvidence
<1> QED BY <1>3, <1>4

\* Steps that write no row.
LEMMA KeptWriter ==
  ASSUME Types, Types', Evidence, regime' = regime, NEW p \in Procs,
         \/ WriterStarted(p) \/ BackendReturns(p) \/ BackendRaises(p)
         \/ Compare(p) \/ StagingRejected(p) \/ ApplyFails(p)
         \/ WriterApplied(p) \/ WriterCompleted(p) \/ FailLease(p) \/ WriterFailed(p)
  PROVE  Evidence'
<1> USE DEF WriterStarted, BackendReturns, BackendRaises, Compare, StagingRejected,
            ApplyFails, WriterApplied, WriterCompleted, FailLease, WriterFailed
<1>1. Kept
  BY DEF Kept, rows, events
<1>2. pc[p] \in WriterLabels
  BY DEF WriterLabels
<1>3. \/ Finish(p)
      \/ WriterRaises(p)
      \/ \E l \in {"backend", "compare", "apply", "complete", "fail"} :
           Goto(p, l) /\ loc' = loc /\ (l \in Unfinished => pc[p] \in Unfinished)
  BY DEF Unfinished
<1>4. ASSUME NEW l \in {"backend", "compare", "apply", "complete", "fail"},
             l \in Unfinished => pc[p] \in Unfinished
      PROVE  Follows(pc[p], l)
  BY <1>2, <1>4 DEF Follows, WriterLabels
<1> QED BY <1>1, <1>2, <1>3, <1>4, IdleEvidence, RaiseEvidence, GoEvidence

LEMMA KeptChecks ==
  ASSUME Types, Types', Evidence, regime' = regime, NEW p \in Procs,
         CheckStarted(p) \/ CheckEnded(p) \/ Conclude(p)
  PROVE  Evidence'
<1> USE DEF CheckStarted, CheckEnded, Conclude
<1>1. Kept
  BY DEF Kept, rows
<1>2. CASE CheckStarted(p)
  <2>1. Follows(pc[p], "check")
    BY <1>2 DEF Follows, CheckLabels, Checking
  <2> QED BY <1>1, <1>2, <2>1, GoEvidence
<1>3. CASE CheckEnded(p)
  <2>1. Follows(pc[p], "accept")
    BY <1>3 DEF Follows, CheckLabels, Checking
  <2> QED BY <1>1, <1>3, <2>1, GoEvidence
<1>4. CASE Conclude(p)
  BY <1>1, <1>4, IdleEvidence
<1> QED BY <1>2, <1>3, <1>4

LEMMA KeptOthers ==
  ASSUME Types, Types', Evidence, regime' = regime, NEW p \in Procs,
         \/ Activate(p) \/ WriterCancelled(p) \/ GitCommit(p)
         \/ ScopeProposed(p) \/ ApproveRevision(p) \/ ScopeApproved(p) \/ ScopeReopens(p)
         \/ IntegrationFails(p)
  PROVE  Evidence'
<1> USE DEF Activate, WriterCancelled, GitCommit, ScopeProposed, ApproveRevision,
            ScopeApproved, ScopeReopens, IntegrationFails
<1>1. Kept
  BY DEF Kept, rows, events
<1>2. \/ Finish(p)
      \/ \E l \in {"commit_event", "scope_event", "scope_reopen"} : Goto(p, l) /\ loc' = loc
  OBVIOUS
<1>3. ASSUME NEW l \in {"commit_event", "scope_event", "scope_reopen"}
      PROVE  Follows(pc[p], l)
  BY DEF Follows, Rowless, Labels, WriterLabels, CheckLabels, Checking
<1> QED BY <1>1, <1>2, <1>3, IdleEvidence, GoEvidence

LEMMA KeptFaults ==
  ASSUME Types, Types', Evidence, regime' = regime, NEW p \in Procs,
         Raises(p) \/ Crash(p)
  PROVE  Evidence'
<1>1. Kept
  BY DEF Kept, Raises, Crash, rows, events
<1>2. CASE Finish(p) \/ Crash(p)
  BY <1>1, <1>2, IdleEvidence
<1>3. CASE pc[p] \in Writing /\ WriterRaises(p)
  <2>1. pc[p] \in WriterLabels
    BY <1>3 DEF Writing, WriterLabels
  <2> QED BY <1>1, <1>3, <2>1, RaiseEvidence
<1> QED BY <1>2, <1>3 DEF Raises

LEMMA RunChecksEvidence ==
  ASSUME Types, Types', Evidence, regime' = regime, NEW p \in Procs,
         NEW o \in {"pass", "retry_writer", "no_retry"}, RunChecks(p, o)
  PROVE  Evidence'
<1> DEFINE m == [loc[p] EXCEPT !.outcome = o]
<1>1. Kept
  BY DEF Kept, RunChecks, rows, events
<1>2. loc[p] \in Memories /\ m.check = loc[p].check /\ m.outcome = o
  BY Current DEF Memories
<1>3. pc' = [pc EXCEPT ![p] = "check_save"] /\ loc' = [loc EXCEPT ![p] = m]
  BY DEF RunChecks, Goto
<1>4. pc[p] = "check" /\ Works(pc[p], loc[p]) /\ (o = "pass" => loc[p].outcome = "pass")
  BY DEF RunChecks, Evidence
<1> HIDE DEF m
<1>5. Moves(p, "check_save", m)
  BY <1>3, Moved
<1>6. Works("check_save", m)
  BY <1>2, <1>4 DEF Works, Unfinished, Checking
<1>7. Owns(p, "check_save", m)
  BY <1>2, <1>4 DEF Owns, WriterLabels, CheckLabels, Checking
<1> QED BY <1>1, <1>5, <1>6, <1>7, KeptFacts, EvidenceMove

LEMMA IntegrateEvidence ==
  ASSUME Types, Types', Evidence, regime' = regime, NEW p \in Procs, IntegrateCandidate(p)
  PROVE  Evidence'
<1> DEFINE m == [Idle EXCEPT !.patch = head]
<1>1. Kept
  BY DEF Kept, IntegrateCandidate, rows, events
<1>2. m.patch = head
  BY DEF Idle
<1>3. IsChecked(head, head)
  BY ReleasableChecked DEF IntegrateCandidate
<1>4. Begin(p, "integrate", m)
  BY DEF IntegrateCandidate
<1> HIDE DEF m
<1>5. Works("integrate", m) /\ Owns(p, "integrate", m)
  BY <1>2, <1>3 DEF Works, Owns, Unfinished, Checking, WriterLabels, CheckLabels
<1> QED BY <1>1, <1>4, <1>5, Began, KeptFacts, EvidenceMove

\* Steps that write a run: no check, commit or release changes.
LEMMA RunsGrow ==
  ASSUME Types, Evidence, UNCHANGED <<checks, commits, released>>
  PROVE  /\ Grows /\ CheckedWasCommitted' /\ ReleasedWasChecked'
         /\ \A l, m : l \notin Unfinished /\ Works(l, m) => Works(l, m)'
<1>1. Grows
  BY DEF Grows
<1>2. CheckedWasCommitted' /\ ReleasedWasChecked'
  BY DEF Evidence, CheckedWasCommitted, ReleasedWasChecked, FullPassed, IsCommitted
<1>3. \A l, m : l \notin Unfinished /\ Works(l, m) => Works(l, m)'
  BY DEF Works, IsCommitted, IsChecked, FullPassed
<1> QED BY <1>1, <1>2, <1>3

LEMMA StartWriterEvidence ==
  ASSUME Types, Types', Evidence, regime' = regime, NEW p \in Procs, StartWriter(p)
  PROVE  Evidence'
<1> DEFINE row == [status |-> "RUNNING", before |-> tree, after |-> 0]
           m   == [Idle EXCEPT !.run = Len(runs) + 1]
<1>1. /\ UNCHANGED <<checks, commits, released>> /\ runs' = Append(runs, row)
      /\ Begin(p, "announce", m)
  BY DEF StartWriter, events
<1>2. runs \in Seq(RunRows) /\ Len(runs) \in Nat /\ DOMAIN runs = 1 .. Len(runs)
  BY TypeParts DEF StoreTypes, RunTypes
<1>3. m.run = Len(runs) + 1 /\ row.status = "RUNNING"
  BY DEF Idle
<1> HIDE DEF m, row
<1>4. /\ \A i \in DOMAIN runs : runs'[i] = runs[i]
      /\ runs'[Len(runs) + 1] = row
  BY <1>1, <1>2
<1>5. OthersKeep(p)
  <2>1. \A q \in Procs : pc[q] \in Unfinished => loc[q].run \in DOMAIN runs
    BY Current DEF Remembers, WriterLabels, Unfinished
  <2> QED BY <1>1, <1>4, <2>1 DEF OthersKeep, Evidence, Works
<1>6. ASSUME NEW e, e.run = Len(runs) + 1 PROVE Works("announce", e)'
  BY <1>3, <1>4, <1>6 DEF Works, Unfinished, Checking
<1>7. Owns(p, "announce", m)
  BY <1>2, <1>3 DEF Owns, WriterLabels, CheckLabels, Checking
<1> QED BY <1>1, <1>3, <1>5, <1>6, <1>7, Began, RunsGrow, EvidenceMove

\* The command's own run is written, and it goes on to where the run is over.
LEMMA RunWriteEvidence ==
  ASSUME Types, Types', Evidence, NEW p \in Procs, pc[p] \in WriterLabels,
         NEW l \in WriterLabels \ Unfinished, Goto(p, l), loc' = loc, NEW row,
         runs' = [runs EXCEPT ![loc[p].run] = row],
         UNCHANGED <<checks, commits, released>>
  PROVE  Evidence'
<1>1. OthersKeep(p)
  BY DEF OthersKeep, Evidence, Works, OwnRows, WriterLabels, Unfinished
<1>2. Works(l, loc[p])'
  BY DEF Works, WriterLabels, Unfinished, Checking
<1>3. Owns(p, l, loc[p])
  BY DEF Owns, WriterLabels, CheckLabels, Checking
<1>4. Moves(p, l, loc[p])
  BY Went
<1> QED BY <1>1, <1>2, <1>3, <1>4, RunsGrow, EvidenceMove

LEMMA WriteRunEvidence ==
  ASSUME Types, Types', Evidence, regime' = regime, NEW p \in Procs,
         (\E c \in BOOLEAN : Apply(p, c)) \/ Fail(p)
  PROVE  Evidence'
<1>1. {"applied", "fail_event"} \subseteq WriterLabels \ Unfinished
      /\ pc[p] \in WriterLabels /\ UNCHANGED <<checks, commits, released>>
  BY DEF WriterLabels, Unfinished, Apply, Fail, events
<1>2. \E l \in {"applied", "fail_event"} : \E row :
        Goto(p, l) /\ loc' = loc /\ runs' = [runs EXCEPT ![loc[p].run] = row]
  BY DEF Apply, Fail
<1> QED BY <1>1, <1>2, RunWriteEvidence

LEMMA CancelEvidence ==
  ASSUME Types, Types', Evidence, regime' = regime, NEW p \in Procs, CancelWriter(p)
  PROVE  Evidence'
<1> DEFINE row == [runs[view.writer] EXCEPT !.status = "CANCELLED"]
<1>1. /\ UNCHANGED <<checks, commits, released>>
      /\ runs' = [runs EXCEPT ![view.writer] = row]
      /\ Begin(p, "cancel_event", Idle)
  BY DEF CancelWriter, events
<1>2. runs \in Seq(RunRows) /\ view.writer \in DOMAIN runs
  BY TypeParts DEF CancelWriter, StoreTypes, ViewTypes, RunTypes
<1>3. row.status = "CANCELLED"
  <2>1. runs[view.writer] \in RunRows
    BY <1>2
  <2> QED BY <2>1 DEF RunRows
<1> HIDE DEF row
<1>4. OthersKeep(p)
  BY <1>1, <1>2, <1>3 DEF OthersKeep, Evidence, Works
<1>5. Works("cancel_event", Idle)' /\ Owns(p, "cancel_event", Idle)
  BY DEF Works, Owns, WriterLabels, Unfinished, CheckLabels, Checking
<1> QED BY <1>1, <1>4, <1>5, Began, RunsGrow, EvidenceMove

LEMMA VerifyEvidence ==
  ASSUME Types, Types', Evidence, regime' = regime, NEW p \in Procs,
         NEW mode \in {"fast", "full"}, Verify(p, mode)
  PROVE  Evidence'
<1> DEFINE row == [status |-> "RUNNING", mode |-> mode, head |-> head, patch |-> tree,
                   scope |-> scope.approved]
           o   == IF Admits(mode) THEN "pass" ELSE "rejected"
           m   == [Idle EXCEPT !.check = Len(checks) + 1, !.outcome = o]
<1>1. /\ UNCHANGED <<runs, commits, released>> /\ checks' = Append(checks, row)
      /\ Begin(p, "check_event", m)
  BY DEF Verify, events
<1>2. /\ checks \in Seq(CheckRows) /\ Len(checks) \in Nat
      /\ DOMAIN checks = 1 .. Len(checks)
  BY TypeParts DEF StoreTypes, CheckTypes
<1>3. /\ row.status = "RUNNING" /\ row.mode = mode /\ row.head = head
      /\ row.patch = tree
  OBVIOUS
<1>4. o = "pass" /\ mode = "full" => IsCommitted(head, tree)
  BY DEF Admits, FullAdmits, IsCommitted
<1>5. m.check = Len(checks) + 1 /\ m.outcome = o
  <2> HIDE DEF o
  <2> QED BY DEF Idle
<1> HIDE DEF m, o, row
<1>6. /\ \A i \in DOMAIN checks : i \in DOMAIN checks' /\ checks'[i] = checks[i]
      /\ checks'[Len(checks) + 1] = row /\ DOMAIN checks' = DOMAIN checks \cup {Len(checks) + 1}
  BY <1>1, <1>2
<1>7. Grows
  BY <1>1, <1>6 DEF Grows
<1>8. FullPassed' = FullPassed
  BY <1>2, <1>3, <1>6 DEF FullPassed
<1>9. CheckedWasCommitted' /\ ReleasedWasChecked'
  BY <1>1, <1>6, <1>8
     DEF Evidence, CheckedWasCommitted, ReleasedWasChecked, IsCommitted, FullPassed
<1>10. OthersKeep(p)
  <2>1. \A q \in Procs : pc[q] \in CheckLabels => loc[q].check \in DOMAIN checks
    BY Current DEF Remembers
  <2> QED BY <1>1, <1>6, <2>1 DEF OthersKeep, Evidence, Works
<1>11. ASSUME NEW e, e.check = Len(checks) + 1, e.outcome = o
       PROVE  Works("check_event", e)'
  BY <1>1, <1>3, <1>4, <1>6, <1>11 DEF Works, IsCommitted, Unfinished, Checking
<1>12. Owns(p, "check_event", m)
  BY <1>2, <1>5 DEF Owns, WriterLabels, CheckLabels, Checking
<1> QED BY <1>1, <1>5, <1>7, <1>9, <1>10, <1>11, <1>12, Began, EvidenceMove

LEMMA CheckSavedEvidence ==
  ASSUME Types, Types', Evidence, regime' = regime, NEW p \in Procs, CheckSaved(p)
  PROVE  Evidence'
<1> DEFINE i   == loc[p].check
           row == [checks[i] EXCEPT !.status = IF loc[p].outcome = "pass"
                                               THEN "PASSED" ELSE "FAILED"]
<1>1. /\ UNCHANGED <<runs, commits, released>> /\ checks' = [checks EXCEPT ![i] = row]
      /\ Goto(p, "check_done") /\ loc' = loc /\ pc[p] = "check_save"
  BY DEF CheckSaved, events
<1>2. checks \in Seq(CheckRows) /\ i \in DOMAIN checks /\ checks[i] \in CheckRows
  BY <1>1, Current, TypeParts DEF StoreTypes, CheckTypes, Remembers, CheckLabels, Checking
<1>3. /\ row.head = checks[i].head /\ row.patch = checks[i].patch
      /\ row.mode = checks[i].mode
      /\ row.status = IF loc[p].outcome = "pass" THEN "PASSED" ELSE "FAILED"
  BY <1>2 DEF CheckRows
<1>4. /\ checks[i].status = "RUNNING"
      /\ loc[p].outcome = "pass" /\ checks[i].mode = "full" =>
           IsCommitted(checks[i].head, checks[i].patch)
  BY <1>1 DEF Evidence, Works, Checking
<1> HIDE DEF i, row
<1>5. /\ DOMAIN checks' = DOMAIN checks /\ checks'[i] = row
      /\ \A j \in DOMAIN checks : j # i => checks'[j] = checks[j]
  BY <1>1, <1>2
<1>6. Grows
  BY <1>1, <1>3, <1>4, <1>5 DEF Grows
<1>7. CheckedWasCommitted'
  <2> SUFFICES ASSUME NEW j \in FullPassed'
               PROVE  IsCommitted(checks'[j].head, checks'[j].patch)
    BY <1>1 DEF CheckedWasCommitted, IsCommitted
  <2>1. CASE j = i
    BY <1>3, <1>4, <1>5, <2>1 DEF FullPassed
  <2>2. CASE j # i
    BY <1>5, <2>2 DEF FullPassed, Evidence, CheckedWasCommitted
  <2> QED BY <2>1, <2>2
<1>8. ReleasedWasChecked'
  <2>1. \A h, x : IsChecked(h, x) => IsChecked(h, x)'
    BY <1>6, EvidenceGrows
  <2>2. \A x \in released : /\ \E c \in commits : c.head = x.head /\ c.patch = x.patch
                            /\ IsChecked(x.head, x.patch)
    BY DEF Evidence, ReleasedWasChecked, IsChecked
  <2>3. \A x \in released : IsChecked(x.head, x.patch)'
    BY <2>1, <2>2
  <2> QED BY <1>1, <2>2, <2>3 DEF ReleasedWasChecked, IsChecked
<1>9. OthersKeep(p)
  <2>1. \A q \in Procs : pc[q] \in CheckLabels => loc[q].check \in DOMAIN checks
    BY Current DEF Remembers
  <2>2. \A q \in Procs : q # p /\ pc[q] \in CheckLabels => loc[q].check # i
    BY <1>1 DEF i, Evidence, OwnRows, CheckLabels, Checking
  <2> QED BY <1>1, <1>5, <2>1, <2>2 DEF OthersKeep, Evidence, Works
<1>10. ASSUME NEW e, e = loc[p] PROVE Works("check_done", e)'
  <2>1. loc[p].outcome = "pass" => checks'[i].status = "PASSED"
    BY <1>3, <1>5
  <2> QED BY <1>1, <1>10, <2>1 DEF Works, i, Unfinished, Checking
<1>11. Owns(p, "check_done", loc[p])
  BY <1>1 DEF Owns, WriterLabels, CheckLabels, Checking
<1>12. Moves(p, "check_done", loc[p])
  BY <1>1, Went
<1> QED BY <1>6, <1>7, <1>8, <1>9, <1>10, <1>11, <1>12, EvidenceMove

LEMMA CommittedEvidence ==
  ASSUME Types, Types', Evidence, regime' = regime, NEW p \in Procs, CandidateCommitted(p)
  PROVE  Evidence'
<1>1. /\ UNCHANGED <<runs, checks, released>> /\ commits \subseteq commits' /\ Finish(p)
  BY DEF CandidateCommitted, rows
<1>2. Grows
  BY <1>1 DEF Grows
<1>3. CheckedWasCommitted' /\ ReleasedWasChecked'
  BY <1>1 DEF Evidence, CheckedWasCommitted, ReleasedWasChecked, FullPassed, IsCommitted
<1>4. OthersKeep(p)
  BY <1>1 DEF OthersKeep, Evidence, Works
<1>5. Works("idle", Idle)' /\ Owns(p, "idle", Idle)
  BY DEF Works, Owns, WriterLabels, Unfinished, CheckLabels, Checking
<1> QED BY <1>1, <1>2, <1>3, <1>4, <1>5, Finished, EvidenceMove

\* What is taken now was checked, and so was what was taken before.
LEMMA TakenWasChecked ==
  ASSUME Evidence, NEW h, NEW x, IsChecked(h, x), UNCHANGED <<checks, commits>>,
         released' = released \cup {[head |-> h, patch |-> x]}
  PROVE  ReleasedWasChecked'
<1>1. IsCommitted(h, x)
  BY DEF Evidence, CheckedWasCommitted, IsChecked
<1>2. FullPassed' = FullPassed
  BY DEF FullPassed
<1>3. ASSUME NEW y \in released'
      PROVE  /\ \E c \in commits : c.head = y.head /\ c.patch = y.patch
             /\ \E i \in FullPassed : checks[i].head = y.head /\ checks[i].patch = y.patch
  BY <1>1, <1>3 DEF Evidence, ReleasedWasChecked, IsCommitted, IsChecked
<1> QED BY <1>2, <1>3 DEF ReleasedWasChecked

LEMMA PrepareEvidence ==
  ASSUME Types, Types', Evidence, regime' = regime, NEW p \in Procs, PreparePromotion(p)
  PROVE  Evidence'
<1>1. UNCHANGED <<runs, checks, commits, pc, loc>>
  BY DEF PreparePromotion, rows, events
<1>2. ReleasedWasChecked'
  BY <1>1, ReleasableChecked, TakenWasChecked DEF PreparePromotion
<1>3. CheckedWasCommitted' /\ OwnRows'
  BY <1>1 DEF Evidence, CheckedWasCommitted, OwnRows, FullPassed, IsCommitted
<1>4. ASSUME NEW q \in Procs PROVE Works(pc[q], loc[q])'
  BY <1>1 DEF Evidence, Works, IsCommitted, IsChecked, FullPassed
<1> QED BY <1>2, <1>3, <1>4 DEF Evidence

LEMMA IntegratedEvidence ==
  ASSUME Types, Types', Evidence, regime' = regime, NEW p \in Procs, Integrated(p)
  PROVE  Evidence'
<1>1. UNCHANGED <<runs, checks, commits>> /\ Finish(p) /\ pc[p] = "integrate"
  BY DEF Integrated, rows
<1>2. IsChecked(loc[p].patch, loc[p].patch)
  BY <1>1 DEF Evidence, Works
<1>3. ReleasedWasChecked'
  <2>1. CASE released' = released
    BY <1>1, <2>1 DEF Evidence, ReleasedWasChecked, FullPassed
  <2>2. CASE released' # released
    BY <1>1, <1>2, <2>2, TakenWasChecked DEF Integrated
  <2> QED BY <2>1, <2>2
<1>4. Grows /\ CheckedWasCommitted'
  BY <1>1 DEF Grows, Evidence, CheckedWasCommitted, FullPassed, IsCommitted
<1>5. OthersKeep(p)
  BY <1>1 DEF OthersKeep, Evidence, Works
<1>6. Works("idle", Idle)' /\ Owns(p, "idle", Idle)
  BY DEF Works, Owns, WriterLabels, Unfinished, CheckLabels, Checking
<1> QED BY <1>1, <1>3, <1>4, <1>5, <1>6, Finished, EvidenceMove

LEMMA InitEvidence == Init => Evidence
<1> SUFFICES ASSUME Init PROVE Evidence
  OBVIOUS
<1>1. FullPassed = {}
  BY DEF Init, FullPassed
<1>2. \A p \in Procs : pc[p] = "idle"
  BY DEF Init
<1> QED BY <1>1, <1>2
        DEF Init, Evidence, Works, OwnRows, CheckedWasCommitted, ReleasedWasChecked,
            WriterLabels, Unfinished, CheckLabels, Checking

LEMMA CommandEvidence ==
  ASSUME Types, Types', Evidence, regime' = regime, NEW p \in Procs, Command(p)
  PROVE  Evidence'
BY KeptCommands, StartWriterEvidence, CancelEvidence, VerifyEvidence, PrepareEvidence,
   IntegrateEvidence DEF Command

LEMMA StepEvidence ==
  ASSUME Types, Types', Evidence, NEW p \in Procs, Step(p)
  PROVE  Evidence'
<1>1. regime' = regime
  BY DEF Step
<1>2. CASE WriterStep(p)
  BY <1>1, <1>2, KeptWriter, WriteRunEvidence DEF WriterStep
<1>3. CASE CheckStep(p)
  BY <1>1, <1>3, KeptChecks, RunChecksEvidence, CheckSavedEvidence DEF CheckStep
<1>4. CASE OtherStep(p)
  BY <1>1, <1>4, KeptOthers, CommittedEvidence, IntegratedEvidence DEF OtherStep
<1> QED BY <1>2, <1>3, <1>4 DEF Step

LEMMA NextEvidence ==
  ASSUME Types, Types', Evidence, [Next]_vars
  PROVE  Evidence'
<1>1. regime' = regime
  BY DEF Next, vars
<1>2. CASE \E p \in Procs : Command(p) \/ Step(p) \/ Raises(p) \/ Crash(p)
  BY <1>1, <1>2, CommandEvidence, StepEvidence, KeptFaults
<1>3. CASE Edit \/ LeaseExpires \/ UNCHANGED vars
  <2>1. Kept /\ UNCHANGED <<pc, loc>>
    BY <1>1, <1>3 DEF Edit, LeaseExpires, vars, Kept, rows, events
  <2> QED BY <2>1, StillEvidence
<1> QED BY <1>2, <1>3 DEF Next

\* What a promotion or an integration takes was committed by the service and
\* passed a full check, although leases are stolen and the worktree is edited.
THEOREM TakenOnlyWhenChecked == Spec => []ReleasedWasChecked
<1>1. Types /\ Evidence /\ [Next]_vars => (Types /\ Evidence)'
  BY NextTypes, NextEvidence
<1>2. Evidence => ReleasedWasChecked
  BY DEF Evidence
<1> QED BY <1>1, <1>2, InitTypes, InitEvidence, PTL DEF Spec

-----------------------------------------------------------------------------
(* What holds while no lease is stolen.                                    *)

LEMMA Lockers ==
  ASSUME Safe, NEW p \in Procs, pc[p] \in Holding \/ Acquirable
  PROVE  /\ \A q \in Procs : q # p => pc[q] \notin Holding
         /\ pc[p] \in Holding => lease = p /\ Relies(pc[p], loc[p])
BY LifecycleAssumption DEF Safe, Owned, Acquirable

LEMMA OwnedMove ==
  ASSUME Types, Safe, NEW p \in Procs, NEW l, NEW m, Moves(p, l, m),
         \A q \in Procs : q # p => pc[q] \notin Holding,
         l \in Holding => lease' = p /\ Relies(pc[p], loc[p])'
  PROVE  Owned'
BY DEF Owned, Moves

\* Steps that write nothing the commands rely on.
Steady == UNCHANGED <<view, runs, checks, commits>>

LEMMA SteadyFacts ==
  ASSUME Safe, Steady
  PROVE  /\ (~ view.broken)' /\ VerifiedIsSound'
         /\ \A l, m : Relies(l, m) => Relies(l, m)'
<1>1. (~ view.broken)' /\ VerifiedIsSound'
  BY DEF Safe, Steady, VerifiedIsSound, Stands, IsChecked, FullPassed
<1>2. \A l, m : Relies(l, m) => Relies(l, m)'
  BY DEF Steady, Relies, Stands
<1> QED BY <1>1, <1>2

LEMMA SteadyMove ==
  ASSUME Types, Safe, Steady, NEW p \in Procs, NEW l, NEW m, Moves(p, l, m),
         \A q \in Procs : q # p /\ pc[q] \in Holding => lease' = lease,
         l \in Holding => lease' = p /\ Relies(l, m)
  PROVE  Safe'
<1>1. ASSUME NEW q \in Procs, pc'[q] \in Holding
      PROVE  lease' = q /\ Relies(pc[q], loc[q])'
  <2>1. CASE q = p
    BY <1>1, <2>1, SteadyFacts DEF Moves
  <2>2. CASE q # p
    <3>1. pc'[q] = pc[q] /\ loc'[q] = loc[q] /\ lease = q /\ Relies(pc[q], loc[q])
      BY <1>1, <2>2 DEF Moves, Safe, Owned
    <3> QED BY <1>1, <2>2, <3>1, SteadyFacts
  <2> QED BY <2>1, <2>2
<1> QED BY <1>1, SteadyFacts DEF Safe, Owned

LEMMA SteadyStill ==
  ASSUME Types, Safe, Steady, UNCHANGED <<pc, loc, lease>>
  PROVE  Safe'
<1>1. ASSUME NEW q \in Procs, pc[q] \in Holding
      PROVE  lease = q /\ Relies(pc[q], loc[q])'
  <2>1. lease = q /\ Relies(pc[q], loc[q])
    BY <1>1 DEF Safe, Owned
  <2> QED BY <2>1, SteadyFacts
<1> QED BY <1>1, SteadyFacts DEF Safe, Owned

\* A command that ends, or gives the lease back for its handler.
LEMMA SteadyEnd ==
  ASSUME Types, Types', Safe, Steady, NEW p \in Procs,
         Finish(p) \/ Crash(p) \/ WriterRaises(p)
  PROVE  Safe'
<1>1. {"idle", "fail_lease"} \cap Holding = {}
  BY DEF Holding
<1>2. \E l \in {"idle", "fail_lease"} : \E m : Moves(p, l, m)
  BY Finished, Raised
<1>3. \A q \in Procs : q # p /\ pc[q] \in Holding => lease' = lease
  BY DEF Safe, Owned, Finish, Crash, WriterRaises
<1> QED BY <1>1, <1>2, <1>3, SteadyMove

LEMMA SteadyGo ==
  ASSUME Types, Types', Safe, Steady, NEW p \in Procs, pc[p] \in Holding, lease' = lease,
         NEW l, Goto(p, l), loc' = loc, Relies(l, loc[p])
  PROVE  Safe'
BY Lockers, Went, SteadyMove

LEMMA SteadyTake ==
  ASSUME Types, Types', Safe, Steady, NEW p \in Procs, Acquirable, lease' = p,
         NEW l, Goto(p, l), loc' = loc, Relies(l, loc[p])
  PROVE  Safe'
BY Lockers, Went, SteadyMove

LEMMA SteadyBegin ==
  ASSUME Types, Types', Safe, Steady, NEW p \in Procs, Begins(p), NEW l, NEW m,
         Begin(p, l, m), Relies(l, m)
  PROVE  Safe'
<1>1. lease' = p /\ Moves(p, l, m) /\ Acquirable
  BY Began DEF Begin, Begins
<1> QED BY <1>1, Lockers, SteadyMove

LEMMA BeginSafe ==
  ASSUME Types, Types', Safe, regime' = regime, NEW p \in Procs,
         \/ Start(p) \/ CommitCandidate(p) \/ RequestScopeChange(p) \/ ActivateRevision(p)
         \/ IntegrateCandidate(p)
  PROVE  Safe'
<1> USE DEF Start, CommitCandidate, RequestScopeChange, ActivateRevision, IntegrateCandidate
<1>1. Steady /\ Begins(p)
  BY DEF Steady, rows, events
<1>2. CASE Start(p)
  <2>1. Relies("activate", Idle)
    BY <1>2 DEF Relies, WriterLabels, CheckLabels, Checking, CommitLabels, ScopeLabels
  <2> QED BY <1>1, <1>2, <2>1, SteadyBegin
<1>3. CASE CommitCandidate(p)
  <2>1. \A m : Relies("git_commit", m)
    BY <1>3 DEF Relies, WriterLabels, CheckLabels, Checking, CommitLabels, ScopeLabels
  <2> QED BY <1>1, <1>3, <2>1, SteadyBegin
<1>4. CASE RequestScopeChange(p) \/ ActivateRevision(p)
  <2> DEFINE m == [Idle EXCEPT !.phase = view.phase, !.version = scope.approved + 1]
  <2>1. m.phase = view.phase
    BY DEF Idle
  <2>2. \E l \in {"authority", "approve"} : Begin(p, l, m)
    BY <1>4
  <2> HIDE DEF m
  <2>3. ASSUME NEW l \in {"authority", "approve"} PROVE Relies(l, m)
    BY <2>1 DEF Relies, WriterLabels, CheckLabels, Checking, CommitLabels, ScopeLabels
  <2> QED BY <1>1, <2>2, <2>3, SteadyBegin
<1>5. CASE IntegrateCandidate(p)
  <2>1. \A m : Relies("integrate", m)
    BY <1>5 DEF Releasable, Relies, WriterLabels, CheckLabels, Checking, CommitLabels,
                ScopeLabels
  <2> QED BY <1>1, <1>5, <2>1, SteadyBegin
<1> QED BY <1>2, <1>3, <1>4, <1>5

LEMMA WriterSafe ==
  ASSUME Types, Types', Safe, regime' = regime, NEW p \in Procs,
         \/ BackendReturns(p) \/ BackendRaises(p) \/ Compare(p) \/ StagingRejected(p)
         \/ ApplyFails(p) \/ FailLease(p)
  PROVE  Safe'
<1> USE DEF BackendReturns, BackendRaises, Compare, StagingRejected, ApplyFails, FailLease
<1>1. Steady
  BY DEF Steady, rows, events
<1>2. \/ Finish(p) \/ WriterRaises(p)
      \/ pc[p] = "compare" /\ Goto(p, "apply") /\ UNCHANGED <<lease, loc>>
      \/ \E l \in {"compare", "fail"} : /\ Acquirable /\ ~ Cancelled(p)
                                       /\ Goto(p, l) /\ lease' = p /\ loc' = loc
  OBVIOUS
<1>3. CASE Finish(p) \/ WriterRaises(p)
  BY <1>1, <1>3, SteadyEnd
<1>4. CASE pc[p] = "compare" /\ Goto(p, "apply") /\ UNCHANGED <<lease, loc>>
  <2>1. pc[p] \in Holding
    BY <1>4 DEF Holding, Labels
  <2>2. Relies("compare", loc[p])
    BY <1>4, <2>1, Lockers
  <2>3. Relies("apply", loc[p])
    BY <2>2 DEF Relies, WriterLabels, CheckLabels, Checking, CommitLabels, ScopeLabels
  <2> QED BY <1>1, <1>4, <2>1, <2>3, SteadyGo
<1>5. ASSUME NEW l \in {"compare", "fail"}, Acquirable, ~ Cancelled(p),
             Goto(p, l), lease' = p, loc' = loc
      PROVE  Safe'
  <2>1. Relies(l, loc[p])
    BY <1>5 DEF Cancelled, Relies, WriterLabels, CheckLabels, Checking, CommitLabels,
                ScopeLabels
  <2> QED BY <1>1, <1>5, <2>1, SteadyTake
<1> QED BY <1>2, <1>3, <1>4, <1>5

LEMMA RunChecksSafe ==
  ASSUME Types, Types', Safe, regime' = regime, NEW p \in Procs,
         NEW o \in {"pass", "retry_writer", "no_retry"}, RunChecks(p, o)
  PROVE  Safe'
<1> DEFINE m == [loc[p] EXCEPT !.outcome = o]
<1>1. Steady /\ lease' = lease
  BY DEF Steady, RunChecks, rows, events
<1>2. loc[p] \in Memories /\ m.check = loc[p].check /\ m.outcome = o
  BY Current DEF Memories
<1>3. pc' = [pc EXCEPT ![p] = "check_save"] /\ loc' = [loc EXCEPT ![p] = m]
  BY DEF RunChecks, Goto
<1>4. pc[p] = "check" /\ pc[p] \in Holding /\ (o = "pass" => loc[p].outcome = "pass")
  BY DEF RunChecks, Holding, Labels
<1>5. Relies("check", loc[p]) /\ lease = p
  BY <1>4, Lockers
<1> HIDE DEF m
<1>6. Moves(p, "check_save", m)
  BY <1>3, Moved
<1>7. Relies("check_save", m)
  BY <1>2, <1>4, <1>5
     DEF Relies, WriterLabels, CheckLabels, Checking, CommitLabels, ScopeLabels
<1> QED BY <1>1, <1>4, <1>5, <1>6, <1>7, Lockers, SteadyMove

LEMMA SteadyOthers ==
  ASSUME Types, Types', Safe, regime' = regime, NEW p \in Procs,
         \/ GitCommit(p) \/ ScopeProposed(p) \/ ApproveRevision(p) \/ IntegrationFails(p)
         \/ Raises(p) \/ Crash(p)
  PROVE  Safe'
<1> USE DEF GitCommit, ScopeProposed, ApproveRevision, IntegrationFails
<1>1. Steady
  BY DEF Steady, Raises, Crash, rows, events
<1>2. \/ Finish(p) \/ Crash(p) \/ WriterRaises(p)
      \/ \E l \in {"commit_event", "scope_event"} :
           /\ Goto(p, l) /\ UNCHANGED <<lease, loc>>
           /\ l = "commit_event" => pc[p] = "git_commit"
           /\ l = "scope_event" => pc[p] \in {"authority", "approve"}
  BY DEF Raises
<1>3. ASSUME NEW l \in {"commit_event", "scope_event"},
             Goto(p, l), UNCHANGED <<lease, loc>>,
             l = "commit_event" => pc[p] = "git_commit",
             l = "scope_event" => pc[p] \in {"authority", "approve"}
      PROVE  Safe'
  <2>1. pc[p] \in Holding
    BY <1>3 DEF Holding, Labels
  <2>2. Relies(pc[p], loc[p])
    BY <2>1, Lockers
  <2>3. Relies(l, loc[p])
    BY <1>3, <2>2
       DEF Relies, WriterLabels, CheckLabels, Checking, CommitLabels, ScopeLabels
  <2> QED BY <1>1, <1>3, <2>1, <2>3, SteadyGo
<1> QED BY <1>1, <1>2, <1>3, SteadyEnd

\* Steps that write what commands rely on: no other command holds the lease.
LEMMA WriteEnd ==
  ASSUME Types, Types', Safe, NEW p \in Procs, pc[p] \in Holding, Finish(p),
         (~ view.broken)', VerifiedIsSound'
  PROVE  Safe'
<1>1. "idle" \notin Holding
  BY DEF Holding
<1> QED BY <1>1, Finished, Lockers, OwnedMove DEF Safe

LEMMA WriteGo ==
  ASSUME Types, Types', Safe, NEW p \in Procs, pc[p] \in Holding, lease' = lease,
         NEW l, Goto(p, l), loc' = loc, Relies(pc[p], loc[p])',
         (~ view.broken)', VerifiedIsSound'
  PROVE  Safe'
BY Went, Lockers, OwnedMove DEF Safe

LEMMA WriteBegin ==
  ASSUME Types, Types', Safe, NEW p \in Procs, Begins(p), NEW l, NEW m, Begin(p, l, m),
         Relies(pc[p], loc[p])', (~ view.broken)', VerifiedIsSound'
  PROVE  Safe'
<1>1. lease' = p /\ Moves(p, l, m) /\ Acquirable
  BY Began DEF Begin, Begins
<1> QED BY <1>1, Lockers, OwnedMove DEF Safe

\* The rest of the projection when one of its fields is written.
SameCandidate == /\ view'.phase = view.phase /\ view'.head = view.head
                 /\ view'.patch = view.patch /\ view'.broken = view.broken

LEMMA OneField ==
  ASSUME Types, NEW n,
         \/ view' = [view EXCEPT !.writer = n] \/ view' = [view EXCEPT !.check = n]
         \/ view' = [view EXCEPT !.scope = n]
  PROVE  SameCandidate
<1>1. view \in [phase : Phases, writer : 0 .. Len(runs), check : 0 .. Len(checks),
                patch : Contents, head : Contents, scope : 1 .. regime.scopes,
                broken : BOOLEAN]
  BY TypeParts DEF StoreTypes, ViewTypes
<1> QED BY <1>1 DEF SameCandidate

LEMMA Entering ==
  ASSUME Types, ~ view.broken, NEW ph \in Phases, ph \in Legal(view.phase)
  PROVE  /\ Enter(ph).phase = ph /\ ~ Enter(ph).broken
         /\ Enter(ph).head = view.head /\ Enter(ph).patch = view.patch
<1>1. view \in [phase : Phases, writer : 0 .. Len(runs), check : 0 .. Len(checks),
                patch : Contents, head : Contents, scope : 1 .. regime.scopes,
                broken : BOOLEAN]
  BY TypeParts DEF StoreTypes, ViewTypes
<1> QED BY <1>1 DEF Enter

\* The candidate of the projection stays, or the request is not VERIFIED.
LEMMA SoundView ==
  ASSUME VerifiedIsSound, UNCHANGED <<runs, checks, commits>>,
         \/ view'.phase # "VERIFIED" \/ view'.head = 0
         \/ SameCandidate
  PROVE  VerifiedIsSound'
BY DEF VerifiedIsSound, SameCandidate, Stands, IsChecked, FullPassed

LEMMA FieldSafe ==
  ASSUME Types, Types', Safe, regime' = regime, NEW p \in Procs,
         \/ WriterStarted(p) \/ WriterCompleted(p) \/ WriterFailed(p) \/ WriterCancelled(p)
         \/ CheckStarted(p) \/ CheckEnded(p) \/ ScopeApproved(p)
  PROVE  Safe'
<1> USE DEF WriterStarted, WriterCompleted, WriterFailed, WriterCancelled, CheckStarted,
            CheckEnded, ScopeApproved
<1>1. UNCHANGED <<runs, checks, commits>>
  BY DEF rows
<1>2. SameCandidate
  BY OneField
<1>3. (~ view.broken)' /\ VerifiedIsSound'
  BY <1>1, <1>2, SoundView DEF Safe, SameCandidate
<1>4. pc[p] \in Holding
  BY DEF Holding, Labels, Writing
<1>5. Relies(pc[p], loc[p])
  BY <1>4, Lockers
<1>6. \/ Finish(p)
      \/ Goto(p, "backend") /\ loc' = loc
      \/ \E l \in {"check", "accept", "scope_reopen"} :
           /\ Goto(p, l) /\ UNCHANGED <<lease, loc>>
           /\ l = "check" => pc[p] = "check_event"
           /\ l = "accept" => pc[p] = "check_done"
           /\ l = "scope_reopen" => pc[p] = "scope_event" /\ loc[p].phase = "VERIFIED"
  OBVIOUS
<1>7. CASE Goto(p, "backend") /\ loc' = loc
  <2>1. "backend" \notin Holding
    BY DEF Holding
  <2> QED BY <1>3, <1>4, <1>7, <2>1, Went, Lockers, OwnedMove DEF Safe
<1>8. ASSUME NEW l \in {"check", "accept", "scope_reopen"},
             Goto(p, l), UNCHANGED <<lease, loc>>,
             l = "check" => pc[p] = "check_event",
             l = "accept" => pc[p] = "check_done",
             l = "scope_reopen" => pc[p] = "scope_event" /\ loc[p].phase = "VERIFIED"
      PROVE  Safe'
  <2>1. pc'[p] = l /\ loc'[p] = loc[p]
    BY <1>8, Went DEF Moves
  <2>2. Relies(pc[p], loc[p])'
    BY <1>1, <1>2, <1>5, <1>8, <2>1
       DEF SameCandidate, Relies, Stands, WriterLabels, CheckLabels, Checking, CommitLabels,
           ScopeLabels
  <2> QED BY <1>3, <1>4, <1>8, <2>2, WriteGo
<1> QED BY <1>3, <1>4, <1>6, <1>7, <1>8, WriteEnd

LEMMA PhaseSafe ==
  ASSUME Types, Types', Safe, Evidence, regime' = regime, NEW p \in Procs,
         Activate(p) \/ ScopeReopens(p) \/ Integrated(p) \/ Conclude(p)
  PROVE  Safe'
<1> USE DEF Activate, ScopeReopens, Integrated, Conclude
<1>1. UNCHANGED <<runs, checks, commits>> /\ Finish(p)
  BY DEF rows
<1>2. pc[p] \in Holding
  BY DEF Holding, Labels
<1>3. Relies(pc[p], loc[p])
  BY <1>2, Lockers
<1>4. ~ view.broken /\ VerifiedIsSound
  BY DEF Safe
<1>5. CASE view' = view
  <2>1. SameCandidate
    BY <1>5 DEF SameCandidate
  <2> QED BY <1>1, <1>2, <1>4, <1>5, <2>1, SoundView, WriteEnd
<1>6. CASE Activate(p) \/ ScopeReopens(p)
  <2>1. "ACTIVE" \in Legal(view.phase) /\ "ACTIVE" \in Phases
    BY <1>3, <1>6 DEF Relies, Legal, Phases
  <2>2. view'.phase = "ACTIVE" /\ ~ view'.broken
    BY <1>4, <1>6, <2>1, Entering
  <2> QED BY <1>1, <1>2, <1>4, <2>2, SoundView, WriteEnd
<1>7. CASE Integrated(p) /\ view' = Enter("CLOSED")
  <2>1. "CLOSED" \in Legal(view.phase) /\ "CLOSED" \in Phases
    BY <1>3, <1>7 DEF Relies, Legal, Phases
  <2>2. view'.phase = "CLOSED" /\ ~ view'.broken
    BY <1>4, <1>7, <2>1, Entering
  <2> QED BY <1>1, <1>2, <1>4, <2>2, SoundView, WriteEnd
<1>8. CASE Conclude(p) /\ loc[p].outcome = "pass" /\ Check(p).mode = "full"
  <2> DEFINE c == checks[loc[p].check]
             e == Enter("VERIFIED")
  <2>1. /\ "VERIFIED" \in Legal(view.phase) /\ "VERIFIED" \in Phases
        /\ Stands(c.head, c.patch)
    BY <1>3, <1>8 DEF Relies, Legal, Phases, CheckLabels, Check
  <2>2. e.phase = "VERIFIED" /\ ~ e.broken
    BY <1>4, <2>1, Entering
  <2>3. loc[p].check \in FullPassed
    BY <1>8, Current DEF Evidence, Works, FullPassed, Check, Remembers, CheckLabels
  <2>4. view' = [e EXCEPT !.patch = c.patch, !.head = c.head]
    BY <1>8 DEF Check
  <2>5. e \in [phase : Phases, writer : 0 .. Len(runs), check : 0 .. Len(checks),
               patch : Contents, head : Contents, scope : 1 .. regime.scopes,
               broken : BOOLEAN]
    BY TypeParts DEF Enter, StoreTypes, ViewTypes, Phases
  <2> DEFINE h == c.head
             x == c.patch
  <2>6. Stands(h, x) /\ IsChecked(h, x) /\ view' = [e EXCEPT !.patch = x, !.head = h]
    BY <2>1, <2>3, <2>4 DEF IsChecked
  <2> HIDE DEF c, e, h, x
  <2>7. view'.phase = "VERIFIED" /\ ~ view'.broken /\ view'.head = h /\ view'.patch = x
    BY <2>2, <2>5, <2>6
  <2>8. VerifiedIsSound'
    BY <1>1, <2>6, <2>7 DEF VerifiedIsSound, Stands, IsChecked, FullPassed
  <2> QED BY <1>1, <1>2, <2>7, <2>8, WriteEnd
<1> QED BY <1>5, <1>6, <1>7, <1>8

LEMMA SaysSafe ==
  ASSUME Types, Types', Safe, regime' = regime, NEW p \in Procs,
         Reopen(p) \/ Close(p) \/ CandidateChanged(p)
  PROVE  Safe'
<1> USE DEF Reopen, Close, CandidateChanged, Says
<1>1. UNCHANGED <<runs, checks, commits, lease, pc, loc>> /\ Begins(p)
  BY DEF rows
<1>2. PICK ph \in {"ACTIVE", "CLOSED"} : view' = Enter(ph) /\ ph \in Legal(view.phase)
  <2>1. view.phase \in Phases
    BY TypeParts DEF StoreTypes, ViewTypes
  <2> QED BY <2>1 DEF Legal, Phases
<1>3. view'.phase = ph /\ ~ view'.broken
  BY <1>2, Entering DEF Safe, Phases
<1>4. VerifiedIsSound'
  BY <1>1, <1>3, SoundView DEF Safe
<1>5. Owned'
  <2>1. pc[p] \notin Holding
    BY <1>1 DEF Begins, Holding
  <2>2. \A q \in Procs : pc[q] \notin Holding
    BY <1>1, <2>1, Lockers DEF Begins
  <2> QED BY <1>1, <2>2 DEF Owned
<1> QED BY <1>3, <1>4, <1>5 DEF Safe

\* Steps that write a run keep what stands, unless they take up its run.
LEMMA SoundRuns ==
  ASSUME Types, VerifiedIsSound, UNCHANGED <<view, checks, commits>>,
         Len(runs') = Len(runs),
         view.phase = "VERIFIED" /\ view.head # 0 =>
           /\ runs # << >> => runs' # << >>
           /\ runs'[Len(runs)].after = runs[Len(runs)].after
           /\ runs[Len(runs)].status \in {"COMPLETED", "FAILED"} =>
                runs'[Len(runs)].status \in {"COMPLETED", "FAILED"}
  PROVE  VerifiedIsSound'
BY DEF VerifiedIsSound, Stands, IsChecked, FullPassed

LEMMA RunRow ==
  ASSUME Types, NEW i \in DOMAIN runs
  PROVE  /\ runs \in Seq(RunRows) /\ runs[i] \in RunRows /\ runs # << >>
         /\ Len(runs) \in DOMAIN runs
BY TypeParts DEF StoreTypes, RunTypes

\* A run that is written has not been cancelled, and it stays as it is.
LEMMA ApplySafe ==
  ASSUME Types, Types', Safe, Evidence, regime' = regime, NEW p \in Procs,
         NEW c \in BOOLEAN, Apply(p, c)
  PROVE  Safe'
<1> DEFINE i   == loc[p].run
           row == [runs[i] EXCEPT !.status = "COMPLETED", !.after = Made(p, c)]
<1>1. /\ UNCHANGED <<view, checks, commits, lease, loc>> /\ Goto(p, "applied")
      /\ runs' = [runs EXCEPT ![i] = row] /\ pc[p] = "apply"
  BY DEF Apply, events
<1>2. pc[p] \in Holding /\ i \in DOMAIN runs
  BY <1>1, Current DEF Holding, Labels, Writing, Remembers, WriterLabels
<1>3. /\ runs \in Seq(RunRows) /\ runs[i] \in RunRows /\ runs # << >>
      /\ Len(runs) \in DOMAIN runs
  BY <1>2, RunRow
<1>4. row.status = "COMPLETED"
  BY <1>3 DEF RunRows
<1>5. runs[i].status \in {"RUNNING", "CANCELLED"}
  BY <1>1 DEF Evidence, Works, Unfinished
<1> HIDE DEF i, row
<1>6. /\ Len(runs') = Len(runs) /\ runs'[i] = row /\ runs' # << >>
      /\ \A j \in DOMAIN runs : j # i => runs'[j] = runs[j]
  BY <1>1, <1>2, <1>3
<1>7. VerifiedIsSound'
  <2>1. ASSUME view.phase = "VERIFIED", view.head # 0 PROVE i # Len(runs)
    BY <1>5, <2>1 DEF Safe, VerifiedIsSound, Stands
  <2> QED BY <1>1, <1>3, <1>6, <2>1, SoundRuns DEF Safe
<1>8. Relies(pc[p], loc[p])'
  <2>1. pc'[p] = "applied" /\ loc'[p].run = i
    BY <1>1, Went DEF Moves, i
  <2>2. runs'[loc'[p].run].status # "CANCELLED"
    BY <1>4, <1>6, <2>1
  <2> QED BY <2>1, <2>2
          DEF Relies, WriterLabels, CheckLabels, Checking, CommitLabels, ScopeLabels
<1> QED BY <1>1, <1>2, <1>7, <1>8, WriteGo DEF Safe

LEMMA FailSafe ==
  ASSUME Types, Types', Safe, regime' = regime, NEW p \in Procs, Fail(p)
  PROVE  Safe'
<1> DEFINE i   == loc[p].run
           row == [runs[i] EXCEPT !.status = "FAILED"]
<1>1. /\ UNCHANGED <<view, checks, commits, lease, loc>> /\ Goto(p, "fail_event")
      /\ runs' = [runs EXCEPT ![i] = row] /\ pc[p] = "fail"
  BY DEF Fail, events
<1>2. pc[p] \in Holding /\ i \in DOMAIN runs
  BY <1>1, Current DEF Holding, Labels, Remembers, WriterLabels
<1>3. /\ runs \in Seq(RunRows) /\ runs[i] \in RunRows /\ runs # << >>
      /\ Len(runs) \in DOMAIN runs
  BY <1>2, RunRow
<1>4. row.status = "FAILED" /\ row.after = runs[i].after
  BY <1>3 DEF RunRows
<1> HIDE DEF i, row
<1>5. /\ Len(runs') = Len(runs) /\ runs'[i] = row /\ runs' # << >>
      /\ \A j \in DOMAIN runs : j # i => runs'[j] = runs[j]
  BY <1>1, <1>2, <1>3
<1>6. /\ runs'[Len(runs)].after = runs[Len(runs)].after
      /\ runs[Len(runs)].status \in {"COMPLETED", "FAILED"} =>
           runs'[Len(runs)].status \in {"COMPLETED", "FAILED"}
  BY <1>3, <1>4, <1>5
<1>7. VerifiedIsSound'
  BY <1>1, <1>5, <1>6, SoundRuns DEF Safe
<1>8. Relies(pc[p], loc[p])'
  <2>1. pc'[p] = "fail_event" /\ loc'[p].run = i
    BY <1>1, Went DEF Moves, i
  <2>2. runs'[loc'[p].run].status # "CANCELLED"
    BY <1>4, <1>5, <2>1
  <2> QED BY <2>1, <2>2
          DEF Relies, WriterLabels, CheckLabels, Checking, CommitLabels, ScopeLabels
<1> QED BY <1>1, <1>2, <1>7, <1>8, WriteGo DEF Safe

\* Commands that write a row in an ACTIVE request.
LEMMA ActiveSound ==
  ASSUME view.phase = "ACTIVE", view' = view
  PROVE  VerifiedIsSound'
BY DEF VerifiedIsSound

LEMMA StartWriterSafe ==
  ASSUME Types, Types', Safe, regime' = regime, NEW p \in Procs, StartWriter(p)
  PROVE  Safe'
<1> DEFINE row == [status |-> "RUNNING", before |-> tree, after |-> 0]
           m   == [Idle EXCEPT !.run = Len(runs) + 1]
<1>1. /\ runs' = Append(runs, row) /\ Begins(p) /\ Begin(p, "announce", m)
      /\ view.phase = "ACTIVE" /\ view' = view
  BY DEF StartWriter, events
<1>2. m.run = Len(runs) + 1 /\ row.status = "RUNNING"
  BY DEF Idle
<1> HIDE DEF m, row
<1>3. runs'[Len(runs) + 1] = row
  BY <1>1, TypeParts DEF StoreTypes, RunTypes
<1>4. pc'[p] = "announce" /\ loc'[p] = m
  BY <1>1, Began DEF Moves
<1>5. runs'[loc'[p].run].status # "CANCELLED"
  BY <1>2, <1>3, <1>4
<1>6. Relies(pc[p], loc[p])'
  BY <1>4, <1>5 DEF Relies, WriterLabels, CheckLabels, Checking, CommitLabels, ScopeLabels
<1> QED BY <1>1, <1>6, ActiveSound, WriteBegin DEF Safe

LEMMA CancelSafe ==
  ASSUME Types, Types', Safe, regime' = regime, NEW p \in Procs, CancelWriter(p)
  PROVE  Safe'
<1>1. /\ Begins(p) /\ Begin(p, "cancel_event", Idle)
      /\ view.phase = "ACTIVE" /\ view' = view
  BY DEF CancelWriter, events
<1>2. pc'[p] = "cancel_event"
  BY <1>1, Began DEF Moves
<1>3. Relies(pc[p], loc[p])'
  BY <1>2 DEF Relies, WriterLabels, CheckLabels, Checking, CommitLabels, ScopeLabels
<1> QED BY <1>1, <1>3, ActiveSound, WriteBegin DEF Safe

LEMMA VerifySafe ==
  ASSUME Types, Types', Safe, regime' = regime, NEW p \in Procs,
         NEW mode \in {"fast", "full"}, Verify(p, mode)
  PROVE  Safe'
<1> DEFINE row == [status |-> "RUNNING", mode |-> mode, head |-> head, patch |-> tree,
                   scope |-> scope.approved]
           o   == IF Admits(mode) THEN "pass" ELSE "rejected"
           m   == [Idle EXCEPT !.check = Len(checks) + 1, !.outcome = o]
<1>1. /\ UNCHANGED <<view, runs, commits>> /\ checks' = Append(checks, row)
      /\ Begins(p) /\ Begin(p, "check_event", m) /\ view.phase = "ACTIVE"
  BY DEF Verify, events
<1>2. row.mode = mode /\ row.head = head /\ row.patch = tree
  OBVIOUS
<1>3. o = "pass" /\ mode = "full" => Stands(head, tree)
  BY DEF Admits, FullAdmits, WriterIsLatest, Stands
<1>4. m.check = Len(checks) + 1 /\ m.outcome = o
  <2> HIDE DEF o
  <2> QED BY DEF Idle
<1> HIDE DEF m, o, row
<1>5. checks'[Len(checks) + 1] = row
  BY <1>1, TypeParts DEF StoreTypes, CheckTypes
<1>6. pc'[p] = "check_event" /\ loc'[p] = m
  BY <1>1, Began DEF Moves
<1>7. loc'[p].outcome = "pass" /\ checks'[loc'[p].check].mode = "full" =>
        Stands(checks'[loc'[p].check].head, checks'[loc'[p].check].patch)
  BY <1>2, <1>3, <1>4, <1>5, <1>6
<1>8. Relies(pc[p], loc[p])'
  BY <1>1, <1>6, <1>7
     DEF Relies, Stands, WriterLabels, CheckLabels, Checking, CommitLabels, ScopeLabels
<1> QED BY <1>1, <1>8, ActiveSound, WriteBegin DEF Safe

LEMMA CheckSavedSafe ==
  ASSUME Types, Types', Safe, regime' = regime, NEW p \in Procs, CheckSaved(p)
  PROVE  Safe'
<1> DEFINE i   == loc[p].check
           row == [checks[i] EXCEPT !.status = IF loc[p].outcome = "pass"
                                               THEN "PASSED" ELSE "FAILED"]
<1>1. /\ UNCHANGED <<view, runs, commits, lease, loc>> /\ pc[p] = "check_save"
      /\ checks' = [checks EXCEPT ![i] = row] /\ Goto(p, "check_done")
  BY DEF CheckSaved, events
<1>2. pc[p] \in Holding /\ checks \in Seq(CheckRows) /\ i \in DOMAIN checks
      /\ checks[i] \in CheckRows
  BY <1>1, Current, TypeParts
     DEF Holding, Labels, StoreTypes, CheckTypes, Remembers, CheckLabels, Checking
<1>3. Relies("check_save", loc[p])
  BY <1>1, <1>2, Lockers
<1>4. /\ row.head = checks[i].head /\ row.patch = checks[i].patch
      /\ row.mode = checks[i].mode
  BY <1>2 DEF CheckRows
<1> HIDE DEF row
<1>5. checks'[i] = row
  BY <1>1, <1>2
<1>6. pc'[p] = "check_done" /\ loc'[p] = loc[p]
  BY <1>1, Went DEF Moves
<1>7. Relies(pc[p], loc[p])'
  BY <1>1, <1>3, <1>4, <1>5, <1>6
     DEF Relies, Stands, WriterLabels, CheckLabels, Checking, CommitLabels, ScopeLabels
<1>8. view.phase = "ACTIVE"
  BY <1>3 DEF Relies, CheckLabels, Checking
<1> QED BY <1>1, <1>2, <1>7, <1>8, ActiveSound, WriteGo DEF Safe

LEMMA EventSafe ==
  ASSUME Types, Types', Safe, regime' = regime, NEW p \in Procs,
         WriterApplied(p) \/ CandidateCommitted(p)
  PROVE  Safe'
<1> USE DEF WriterApplied, CandidateCommitted
<1>1. pc[p] \in Holding
  BY DEF Holding, Labels, Writing
<1>2. Relies(pc[p], loc[p])
  BY <1>1, Lockers
<1>3. view \in [phase : Phases, writer : 0 .. Len(runs), check : 0 .. Len(checks),
                patch : Contents, head : Contents, scope : 1 .. regime.scopes,
                broken : BOOLEAN]
  BY TypeParts DEF StoreTypes, ViewTypes
<1>4. PICK x, h : /\ view' = [view EXCEPT !.patch = x, !.head = h]
                  /\ WriterApplied(p) => h = 0
  OBVIOUS
<1>5. view'.phase = view.phase /\ view'.broken = view.broken /\ view'.head = h
  BY <1>3, <1>4
<1>6. CASE WriterApplied(p)
  <2>1. UNCHANGED <<runs, checks, commits, lease, loc>> /\ Goto(p, "complete")
    BY <1>6 DEF rows
  <2>2. VerifiedIsSound'
    BY <1>4, <1>5, <1>6, <2>1, SoundView DEF Safe
  <2>3. pc'[p] = "complete" /\ loc'[p] = loc[p]
    BY <2>1, Went DEF Moves
  <2>4. Relies(pc[p], loc[p])'
    BY <1>2, <1>6, <2>1, <2>3
       DEF Relies, WriterLabels, CheckLabels, Checking, CommitLabels, ScopeLabels
  <2> QED BY <1>1, <1>5, <2>1, <2>2, <2>4, WriteGo DEF Safe
<1>7. CASE CandidateCommitted(p)
  <2>1. view.phase = "ACTIVE" /\ Finish(p)
    BY <1>2, <1>7 DEF Relies, CommitLabels
  <2>2. VerifiedIsSound'
    BY <1>5, <2>1 DEF VerifiedIsSound
  <2> QED BY <1>1, <1>5, <2>1, <2>2, WriteEnd DEF Safe
<1> QED BY <1>6, <1>7

LEMMA InitSafe == Init => Safe
<1> SUFFICES ASSUME Init PROVE Safe
  OBVIOUS
<1>1. ~ view.broken /\ VerifiedIsSound
  BY DEF Init, VerifiedIsSound
<1>2. Owned
  BY DEF Init, Owned, Holding
<1> QED BY <1>1, <1>2 DEF Safe

LEMMA CommandSafe ==
  ASSUME Types, Types', Safe, regime' = regime, NEW p \in Procs, Command(p)
  PROVE  Safe'
<1>1. CASE PreparePromotion(p)
  <2>1. Steady /\ UNCHANGED <<pc, loc, lease>>
    BY <1>1 DEF PreparePromotion, Steady, rows, events
  <2> QED BY <2>1, SteadyStill
<1>2. CASE Reopen(p) \/ Close(p) \/ CandidateChanged(p)
  BY <1>2, SaysSafe
<1>3. CASE StartWriter(p) \/ CancelWriter(p) \/ \E mode \in {"fast", "full"} : Verify(p, mode)
  BY <1>3, StartWriterSafe, CancelSafe, VerifySafe
<1>4. CASE \/ Start(p) \/ CommitCandidate(p) \/ RequestScopeChange(p)
           \/ ActivateRevision(p) \/ IntegrateCandidate(p)
  BY <1>4, BeginSafe
<1> QED BY <1>1, <1>2, <1>3, <1>4 DEF Command

LEMMA StepSafe ==
  ASSUME Types, Types', Evidence, Safe, NEW p \in Procs, Step(p)
  PROVE  Safe'
<1>1. regime' = regime
  BY DEF Step
<1>2. CASE WriterStep(p)
  BY <1>1, <1>2, WriterSafe, FieldSafe, ApplySafe, FailSafe, EventSafe DEF WriterStep
<1>3. CASE CheckStep(p)
  BY <1>1, <1>3, FieldSafe, RunChecksSafe, CheckSavedSafe, PhaseSafe DEF CheckStep
<1>4. CASE OtherStep(p)
  BY <1>1, <1>4, FieldSafe, PhaseSafe, SteadyOthers, EventSafe DEF OtherStep
<1> QED BY <1>2, <1>3, <1>4 DEF Step

LEMMA NextLocked ==
  ASSUME Types, Types', Evidence, Locked, [Next]_vars
  PROVE  Locked'
<1>1. regime' = regime
  BY DEF Next, vars
<1> SUFFICES ASSUME LeasesHold PROVE Safe'
  BY <1>1 DEF Locked, LeasesHold
<1>2. Safe
  BY DEF Locked
<1>3. CASE \E p \in Procs : Command(p) \/ Step(p) \/ Raises(p) \/ Crash(p)
  BY <1>1, <1>2, <1>3, CommandSafe, StepSafe, SteadyOthers
<1>4. CASE Edit \/ UNCHANGED vars
  <2>1. Steady /\ UNCHANGED <<pc, loc, lease>>
    BY <1>4 DEF Edit, vars, Steady, rows, events
  <2> QED BY <1>2, <2>1, SteadyStill
<1>5. ~ LeaseExpires
  BY DEF LeaseExpires, LeasesHold
<1> QED BY <1>3, <1>4, <1>5 DEF Next

LEMMA InitIInv == Init => IInv
BY InitTypes, InitEvidence, InitSafe DEF IInv, Locked

LEMMA NextIInv == IInv /\ [Next]_vars => IInv'
BY NextTypes, NextEvidence, NextLocked DEF IInv

LEMMA Inductive == Spec => []IInv
BY InitIInv, NextIInv, PTL DEF Spec

\* No order of commands, cancellations, crashes, edits and failing transactions
\* makes the event log of a request unreadable, unless a lease is stolen.
THEOREM EventsStayReadable == Spec => []EventsProject
<1>1. IInv => EventsProject
  BY DEF IInv, Locked, Safe, EventsProject
<1> QED BY <1>1, Inductive, PTL

\* A VERIFIED request whose commit is on record is what the last Writer run
\* left, committed by the service, and it passed a full check as it is.
THEOREM VerifiedIsChecked == Spec => []VerifiedIsTheWriters
<1>1. IInv => VerifiedIsTheWriters
  BY DEF IInv, Locked, Safe, VerifiedIsSound, VerifiedIsTheWriters, Stands, IsChecked
<1> QED BY <1>1, Inductive, PTL

-----------------------------------------------------------------------------
(* Cancelled runs.                                                         *)

StaysOut == \A i \in DOMAIN runs : LeasesHold /\ runs[i].status = "CANCELLED" =>
              /\ runs'[i] = runs[i]
              /\ i \in applied' => i \in applied

LEMMA StepStaysOut ==
  ASSUME IInv, [Next]_vars
  PROVE  StaysOut
<1> SUFFICES ASSUME NEW i \in DOMAIN runs, LeasesHold, runs[i].status = "CANCELLED"
             PROVE  runs'[i] = runs[i] /\ (i \in applied' => i \in applied)
  BY DEF StaysOut
<1>1. runs \in Seq(RunRows) /\ Types /\ Safe
  BY TypeParts DEF IInv, StoreTypes, RunTypes, Locked
<1>2. CASE UNCHANGED <<runs, applied>>
  BY <1>2
<1>3. ASSUME NEW p \in Procs, (\E c \in BOOLEAN : Apply(p, c)) \/ Fail(p) \/ WriterApplied(p)
      PROVE  runs'[i] = runs[i] /\ (i \in applied' => i \in applied)
  <2>1. pc[p] \in {"apply", "fail", "applied"}
    BY <1>3 DEF Apply, Fail, WriterApplied
  <2>2. pc[p] \in Holding
    BY <2>1 DEF Holding, Labels, Writing
  <2>3. i # loc[p].run
    <3>1. Relies(pc[p], loc[p])
      BY <1>1, <2>2 DEF Safe, Owned
    <3>2. pc[p] \in WriterLabels \ {"backend", "fail_lease"}
      BY <2>1 DEF WriterLabels
    <3> QED BY <3>1, <3>2 DEF Relies
  <2>4. \/ applied' = applied /\ \E row : runs' = [runs EXCEPT ![loc[p].run] = row]
        \/ runs' = runs /\ applied' = applied \cup {loc[p].run}
    BY <1>3 DEF Apply, Fail, WriterApplied, rows, events
  <2> QED BY <1>1, <2>3, <2>4
<1>4. ASSUME NEW p \in Procs, StartWriter(p)
      PROVE  runs'[i] = runs[i] /\ (i \in applied' => i \in applied)
  BY <1>1, <1>4 DEF StartWriter, events
<1>5. ASSUME NEW p \in Procs, CancelWriter(p)
      PROVE  runs'[i] = runs[i] /\ (i \in applied' => i \in applied)
  BY <1>1, <1>5 DEF CancelWriter, events
<1>6. ASSUME NEW p \in Procs, Command(p)
      PROVE  StartWriter(p) \/ CancelWriter(p) \/ UNCHANGED <<runs, applied>>
  BY <1>6 DEF Command, Start, CommitCandidate, Verify, RequestScopeChange, ActivateRevision,
     Reopen, Close, CandidateChanged, PreparePromotion, IntegrateCandidate, Says, rows, events
<1>7. ASSUME NEW p \in Procs, WriterStep(p)
      PROVE  \/ (\E c \in BOOLEAN : Apply(p, c)) \/ Fail(p) \/ WriterApplied(p)
             \/ UNCHANGED <<runs, applied>>
  BY <1>7 DEF WriterStep, WriterStarted, BackendReturns, BackendRaises, Compare,
     StagingRejected, ApplyFails, WriterCompleted, FailLease, WriterFailed, rows, events
<1>8. ASSUME NEW p \in Procs, CheckStep(p) PROVE UNCHANGED <<runs, applied>>
  BY <1>8 DEF CheckStep, CheckStarted, RunChecks, CheckSaved, CheckEnded, Conclude,
     rows, events
<1>9. ASSUME NEW p \in Procs, OtherStep(p) PROVE UNCHANGED <<runs, applied>>
  BY <1>9 DEF OtherStep, Activate, WriterCancelled, GitCommit, CandidateCommitted,
     ScopeProposed, ApproveRevision, ScopeApproved, ScopeReopens, Integrated,
     IntegrationFails, rows, events
<1>10. ASSUME NEW p \in Procs, Raises(p) \/ Crash(p) PROVE UNCHANGED <<runs, applied>>
  BY <1>10 DEF Raises, Crash, rows, events
<1>11. CASE Edit \/ LeaseExpires \/ UNCHANGED vars
  BY <1>11 DEF Edit, LeaseExpires, vars, rows, events
<1> QED BY <1>2, <1>3, <1>4, <1>5, <1>6, <1>7, <1>8, <1>9, <1>10, <1>11 DEF Next, Step

\* A cancelled run stays cancelled and is never applied, unless a lease is
\* stolen, however late its backend answers and whatever fails meanwhile.
THEOREM CancelledRunsStayOut == Spec => CancelledStaysOut
<1>1. IInv /\ [Next]_vars => [StaysOut]_vars
  BY StepStaysOut
<1>2. Spec => [][StaysOut]_vars
  BY <1>1, Inductive, PTL DEF Spec
<1> QED BY <1>2 DEF CancelledStaysOut, StaysOut

-----------------------------------------------------------------------------
(* That an active run can end unless a command dies or a transaction       *)
(* fails; and, without faults but edits, that the live Writer is the       *)
(* active run, that completed runs are one history, and that a VERIFIED    *)
(* request was verified under its scope.                                   *)

NoStop == regime.faults \cap {"crash", "store"} = {}

\* A command that is about to end the active run.
Ending(p) == \/ pc[p] = "cancel_event"
             \/ pc[p] \in {"applied", "complete", "fail_event"} /\ loc[p].run = view.writer

\* A command that works on the active check.
CheckingIt(p) == pc[p] \in {"check", "check_save", "check_done"} /\ loc[p].check = view.check

NotYetActive ==
  \A p \in Procs : pc[p] = "announce" =>
    view.writer # loc[p].run /\ runs[loc[p].run].status = "RUNNING"

RunEnds   == view.writer # 0 =>
               runs[view.writer].status = "RUNNING" \/ \E p \in Procs : Ending(p)
CheckEnds == view.check # 0 => \E p \in Procs : CheckingIt(p)

Active == NotYetActive /\ RunEnds /\ CheckEnds
Ends   == NoStop => Active

-----------------------------------------------------------------------------
(* An active run can end.                                                  *)

SameActive == view'.writer = view.writer /\ view'.check = view.check

LEMMA ActiveFields ==
  ASSUME Types
  PROVE  /\ view.writer \in 0 .. Len(runs) /\ Len(runs) \in Nat
         /\ view' = view => SameActive
         /\ \A n : view' = [view EXCEPT !.writer = n] =>
              view'.writer = n /\ view'.check = view.check
         /\ \A n : view' = [view EXCEPT !.check = n] =>
              view'.check = n /\ view'.writer = view.writer
         /\ \A n : view' = [view EXCEPT !.scope = n] => SameActive
         /\ \A ph : view' = Enter(ph) => SameActive
         /\ \A x, h : view' = [view EXCEPT !.patch = x, !.head = h] => SameActive
         /\ \A x, h : view' = [Enter("VERIFIED") EXCEPT !.patch = x, !.head = h] => SameActive
<1>1. /\ view \in [phase : Phases, writer : 0 .. Len(runs), check : 0 .. Len(checks),
                   patch : Contents, head : Contents, scope : 1 .. regime.scopes,
                   broken : BOOLEAN]
      /\ Len(runs) \in Nat
  BY TypeParts DEF StoreTypes, ViewTypes, RunTypes
<1>2. /\ Enter("VERIFIED").writer = view.writer /\ Enter("VERIFIED").check = view.check
      /\ \A ph : view' = Enter(ph) => SameActive
      /\ Enter("VERIFIED") \in [phase : Phases, writer : 0 .. Len(runs),
              check : 0 .. Len(checks), patch : Contents, head : Contents,
              scope : 1 .. regime.scopes, broken : BOOLEAN]
  BY <1>1 DEF Enter, SameActive, Phases
<1>3. ASSUME NEW x, NEW h, view' = [view EXCEPT !.patch = x, !.head = h] PROVE SameActive
  BY <1>1, <1>3 DEF SameActive
<1>4. ASSUME NEW x, NEW h, view' = [Enter("VERIFIED") EXCEPT !.patch = x, !.head = h]
      PROVE  SameActive
  <2> DEFINE e == Enter("VERIFIED")
  <2>1. view' = [e EXCEPT !.patch = x, !.head = h]
    BY <1>4
  <2> HIDE DEF e
  <2>2. view'.writer = e.writer /\ view'.check = e.check
    BY <1>2, <2>1 DEF e
  <2> QED BY <1>2, <2>2 DEF SameActive, e
<1> QED BY <1>1, <1>2, <1>3, <1>4 DEF SameActive

\* The other commands stay what they are to the active run and check.
LEMMA EndsMove ==
  ASSUME Types, Active, NEW p \in Procs, NEW l, NEW m,
         Moves(p, l, m),
         l = "announce" => view'.writer # m.run /\ runs'[m.run].status = "RUNNING",
         \A q \in Procs : q # p /\ pc[q] = "announce" =>
           view'.writer # loc[q].run /\ runs'[loc[q].run] = runs[loc[q].run],
         \/ view'.writer = 0
         \/ view'.writer # 0 /\ (runs'[view'.writer].status = "RUNNING" \/ Ending(p)')
         \/ /\ view'.writer = view.writer /\ (Ending(p) => Ending(p)')
            /\ view.writer # 0 => runs'[view.writer].status = runs[view.writer].status,
         \/ view'.check = 0
         \/ CheckingIt(p)'
         \/ view'.check = view.check /\ ~ CheckingIt(p)
  PROVE  Active'
<1>1. NotYetActive'
  BY DEF Active, NotYetActive, Moves
<1>2. RunEnds'
  <2>1. CASE view'.writer = 0
    BY <2>1 DEF RunEnds
  <2>2. CASE runs'[view'.writer].status = "RUNNING" \/ Ending(p)'
    BY <2>2 DEF RunEnds
  <2>3. CASE /\ view'.writer = view.writer /\ view.writer # 0 /\ (Ending(p) => Ending(p)')
             /\ runs'[view.writer].status = runs[view.writer].status
    <3>1. ASSUME NEW q \in Procs, Ending(q) PROVE Ending(q)'
      BY <2>3, <3>1 DEF Ending, Moves
    <3> QED BY <2>3, <3>1 DEF Active, RunEnds
  <2> QED BY <2>1, <2>2, <2>3
<1>3. CheckEnds'
  <2>1. CASE view'.check = 0
    BY <2>1 DEF CheckEnds
  <2>2. CASE CheckingIt(p)'
    BY <2>2 DEF CheckEnds
  <2>3. CASE view'.check = view.check /\ ~ CheckingIt(p)
    <3>1. ASSUME NEW q \in Procs, CheckingIt(q) PROVE CheckingIt(q)'
      BY <2>3, <3>1 DEF CheckingIt, Moves
    <3> QED BY <2>3, <3>1 DEF Active, CheckEnds
  <2> QED BY <2>1, <2>2, <2>3
<1> QED BY <1>1, <1>2, <1>3 DEF Active

\* Labels a command leaves without a trace in the projection's active runs.
Aside == Labels \ {"announce", "cancel_event", "applied", "complete", "fail_event",
                   "check", "check_save", "check_done"}

LEMMA AsideEnds ==
  ASSUME Types, Active, SameActive, runs' = runs,
         NEW p \in Procs, pc[p] \in Aside, NEW l, l # "announce", NEW m, Moves(p, l, m)
  PROVE  Active'
<1>1. ~ Ending(p) /\ ~ CheckingIt(p)
  BY DEF Aside, Ending, CheckingIt
<1> QED BY <1>1, EndsMove DEF SameActive, Active, NotYetActive

LEMMA StillEnds ==
  ASSUME Types, Active, SameActive, UNCHANGED <<runs, pc, loc>>
  PROVE  Active'
BY DEF SameActive, Active, NotYetActive, RunEnds, CheckEnds, Ending, CheckingIt

LEMMA AsideCommands ==
  ASSUME Types, Types', Active, NEW p \in Procs,
         \/ Start(p) \/ CommitCandidate(p) \/ RequestScopeChange(p)
         \/ ActivateRevision(p) \/ IntegrateCandidate(p)
  PROVE  Active'
<1> USE DEF Start, CommitCandidate, RequestScopeChange, ActivateRevision, IntegrateCandidate
<1>1. SameActive /\ runs' = runs
  BY ActiveFields DEF rows, events
<1>2. pc[p] \in Aside
  BY DEF Begins, Aside, Labels
<1>3. \E l, m : l # "announce" /\ Begin(p, l, m)
  OBVIOUS
<1> QED BY <1>1, <1>2, <1>3, Began, AsideEnds

LEMMA AsideWriter ==
  ASSUME Types, Types', Active, NEW p \in Procs,
         \/ BackendReturns(p) \/ BackendRaises(p) \/ Compare(p) \/ StagingRejected(p)
         \/ FailLease(p)
  PROVE  Active'
<1> USE DEF BackendReturns, BackendRaises, Compare, StagingRejected, FailLease
<1>1. SameActive /\ runs' = runs
  BY ActiveFields DEF rows, events
<1>2. pc[p] \in Aside
  BY DEF Aside, Labels, Writing
<1>3. \/ Finish(p) \/ WriterRaises(p)
      \/ \E l \in {"compare", "apply", "fail"} : Goto(p, l) /\ loc' = loc
  OBVIOUS
<1>4. \E l, m : l # "announce" /\ Moves(p, l, m)
  BY <1>3, Finished, Raised, Went
<1> QED BY <1>1, <1>2, <1>4, AsideEnds

LEMMA AsideSteps ==
  ASSUME Types, Types', Active, NEW p \in Procs,
         \/ Conclude(p) \/ Activate(p) \/ GitCommit(p) \/ CandidateCommitted(p)
         \/ ScopeProposed(p) \/ ApproveRevision(p) \/ ScopeApproved(p) \/ ScopeReopens(p)
         \/ Integrated(p) \/ IntegrationFails(p)
  PROVE  Active'
<1>1. runs' = runs /\ SameActive
  <2>1. CASE Conclude(p)
    BY <2>1, ActiveFields DEF Conclude, rows
  <2>2. CASE Activate(p) \/ GitCommit(p) \/ CandidateCommitted(p)
    BY <2>2, ActiveFields DEF Activate, GitCommit, CandidateCommitted, rows, events
  <2>3. CASE ScopeProposed(p) \/ ApproveRevision(p)
    BY <2>3, ActiveFields DEF ScopeProposed, ApproveRevision, rows, events
  <2>4. CASE ScopeApproved(p) \/ ScopeReopens(p)
    BY <2>4, ActiveFields DEF ScopeApproved, ScopeReopens, rows
  <2>5. CASE Integrated(p) \/ IntegrationFails(p)
    BY <2>5, ActiveFields DEF Integrated, IntegrationFails, rows, events
  <2> QED BY <2>1, <2>2, <2>3, <2>4, <2>5
<1> USE DEF Conclude, Activate, GitCommit, CandidateCommitted, ScopeProposed,
            ApproveRevision, ScopeApproved, ScopeReopens, Integrated, IntegrationFails
<1>2. pc[p] \in Aside
  BY DEF Aside, Labels
<1>3. \/ Finish(p)
      \/ \E l \in {"commit_event", "scope_event", "scope_reopen"} : Goto(p, l) /\ loc' = loc
  OBVIOUS
<1>4. \E l, m : l # "announce" /\ Moves(p, l, m)
  BY <1>3, Finished, Went
<1> QED BY <1>1, <1>2, <1>4, AsideEnds

\* The run of another command is not the one this command has.
LEMMA OtherRun ==
  ASSUME Types, Evidence, NEW p \in Procs, pc[p] \in WriterLabels,
         NEW q \in Procs, q # p, pc[q] = "announce"
  PROVE  loc[q].run # loc[p].run
BY DEF Evidence, OwnRows, WriterLabels

LEMMA Announced ==
  ASSUME Types, NEW q \in Procs, pc[q] = "announce"
  PROVE  loc[q].run \in DOMAIN runs /\ loc[q].run # 0
<1>1. loc[q].run \in DOMAIN runs
  BY Current DEF Remembers, WriterLabels
<1> QED BY <1>1, TypeParts DEF StoreTypes, RunTypes

LEMMA StartWriterEnds ==
  ASSUME Types, Types', Active, NEW p \in Procs, StartWriter(p)
  PROVE  Active'
<1> DEFINE row == [status |-> "RUNNING", before |-> tree, after |-> 0]
           m   == [Idle EXCEPT !.run = Len(runs) + 1]
<1>1. /\ runs' = Append(runs, row) /\ Begin(p, "announce", m) /\ view' = view
      /\ view.writer = 0 /\ view.check = 0
  BY DEF StartWriter, NoActiveRun, events
<1>2. runs \in Seq(RunRows) /\ Len(runs) \in Nat /\ DOMAIN runs = 1 .. Len(runs)
  BY TypeParts DEF StoreTypes, RunTypes
<1>3. m.run = Len(runs) + 1 /\ row.status = "RUNNING"
  BY DEF Idle
<1> HIDE DEF m, row
<1>4. (\A i \in DOMAIN runs : runs'[i] = runs[i]) /\ runs'[Len(runs) + 1] = row
  BY <1>1, <1>2
<1>5. Moves(p, "announce", m)
  BY <1>1, Began
<1>6. view'.writer # m.run /\ runs'[m.run].status = "RUNNING"
  BY <1>1, <1>2, <1>3, <1>4
<1>7. \A q \in Procs : q # p /\ pc[q] = "announce" =>
        view'.writer # loc[q].run /\ runs'[loc[q].run] = runs[loc[q].run]
  BY <1>1, <1>4, Announced
<1> QED BY <1>1, <1>5, <1>6, <1>7, EndsMove

LEMMA WriterStartedEnds ==
  ASSUME Types, Types', Evidence, Active, NEW p \in Procs, WriterStarted(p)
  PROVE  Active'
<1>1. /\ runs' = runs /\ view'.writer = loc[p].run /\ view'.check = view.check
      /\ Moves(p, "backend", loc[p])
  BY ActiveFields, Went DEF WriterStarted, rows
<1>2. runs[loc[p].run].status = "RUNNING" /\ loc[p].run # 0
  BY Announced DEF WriterStarted, Active, NotYetActive
<1>3. ~ CheckingIt(p) /\ pc[p] \in WriterLabels
  BY DEF WriterStarted, CheckingIt, WriterLabels
<1> QED BY <1>1, <1>2, <1>3, OtherRun, EndsMove

\* The command writes the row of its run.
LEMMA RunWrittenEnds ==
  ASSUME Types, Types', Evidence, Active, NEW p \in Procs,
         pc[p] \in {"apply", "fail"}, NEW l \in {"applied", "fail_event"},
         Goto(p, l), loc' = loc, view' = view, NEW row,
         runs' = [runs EXCEPT ![loc[p].run] = row]
  PROVE  Active'
<1>1. Moves(p, l, loc[p]) /\ pc[p] \in WriterLabels
  BY Went DEF WriterLabels
<1>2. \A i \in DOMAIN runs : i # loc[p].run => runs'[i] = runs[i]
  OBVIOUS
<1>3. \A q \in Procs : q # p /\ pc[q] = "announce" =>
        view'.writer # loc[q].run /\ runs'[loc[q].run] = runs[loc[q].run]
  BY <1>1, <1>2, Announced, OtherRun DEF Active, NotYetActive
<1>4. ~ CheckingIt(p) /\ ~ Ending(p) /\ l # "announce"
  BY DEF CheckingIt, Ending
<1>5. view'.writer = view.writer /\ view'.check = view.check
  OBVIOUS
<1>6. CASE view.writer = loc[p].run
  <2>1. Ending(p)'
    BY <1>1, <1>6 DEF Ending, Moves
  <2> QED BY <1>1, <1>3, <1>4, <1>5, <2>1, EndsMove
<1>7. CASE view.writer # loc[p].run
  <2>1. view.writer # 0 => runs'[view.writer].status = runs[view.writer].status
    BY <1>2, <1>7, TypeParts DEF StoreTypes, ViewTypes, RunTypes
  <2> QED BY <1>1, <1>3, <1>4, <1>5, <2>1, EndsMove
<1> QED BY <1>6, <1>7

LEMMA ApplyFailEnds ==
  ASSUME Types, Types', Evidence, Active, NEW p \in Procs,
         (\E c \in BOOLEAN : Apply(p, c)) \/ Fail(p)
  PROVE  Active'
<1>1. \E l \in {"applied", "fail_event"} : \E row :
        /\ pc[p] \in {"apply", "fail"} /\ Goto(p, l) /\ loc' = loc /\ view' = view
        /\ runs' = [runs EXCEPT ![loc[p].run] = row]
  BY DEF Apply, Fail, events
<1> QED BY <1>1, RunWrittenEnds

LEMMA WriterAppliedEnds ==
  ASSUME Types, Types', Active, NEW p \in Procs, WriterApplied(p)
  PROVE  Active'
<1>1. /\ runs' = runs /\ SameActive /\ Moves(p, "complete", loc[p])
  BY ActiveFields, Went DEF WriterApplied, rows
<1>2. ~ CheckingIt(p) /\ (Ending(p) => Ending(p)')
  BY <1>1 DEF WriterApplied, CheckingIt, Ending, Moves, SameActive
<1> QED BY <1>1, <1>2, EndsMove DEF SameActive, Active, NotYetActive

LEMMA WriterOverEnds ==
  ASSUME Types, Types', Active, NEW p \in Procs,
         WriterCompleted(p) \/ WriterFailed(p) \/ WriterCancelled(p)
  PROVE  Active'
<1> USE DEF WriterCompleted, WriterFailed, WriterCancelled
<1>1. /\ runs' = runs /\ view'.writer = 0 /\ view'.check = view.check
      /\ Moves(p, "idle", Idle)
  BY ActiveFields, Finished DEF rows
<1>2. ~ CheckingIt(p)
  BY DEF CheckingIt
<1> QED BY <1>1, <1>2, Announced, EndsMove

LEMMA CancelEnds ==
  ASSUME Types, Types', Active, NEW p \in Procs, CancelWriter(p)
  PROVE  Active'
<1> DEFINE row == [runs[view.writer] EXCEPT !.status = "CANCELLED"]
<1>1. /\ runs' = [runs EXCEPT ![view.writer] = row] /\ view' = view /\ view.writer # 0
      /\ Moves(p, "cancel_event", Idle) /\ pc[p] = "idle"
  BY Began DEF CancelWriter, Begins, events
<1> HIDE DEF row
<1>2. \A q \in Procs : q # p /\ pc[q] = "announce" =>
        view'.writer # loc[q].run /\ runs'[loc[q].run] = runs[loc[q].run]
  BY <1>1, Announced DEF Active, NotYetActive
<1>3. ~ CheckingIt(p) /\ Ending(p)'
  BY <1>1 DEF CheckingIt, Ending, Moves
<1> QED BY <1>1, <1>2, <1>3, EndsMove

LEMMA CheckStepEnds ==
  ASSUME Types, Types', Active, NEW p \in Procs,
         \/ \E mode \in {"fast", "full"} : Verify(p, mode)
         \/ CheckStarted(p) \/ CheckSaved(p) \/ CheckEnded(p)
         \/ \E o \in {"pass", "retry_writer", "no_retry"} : RunChecks(p, o)
  PROVE  Active'
<1> USE DEF Verify, CheckStarted, CheckSaved, CheckEnded, RunChecks
<1>1. runs' = runs /\ view'.writer = view.writer
  BY ActiveFields DEF rows, events
<1>2. ~ Ending(p)
  BY DEF Ending, Begins
<1>3. \A q \in Procs : q # p /\ pc[q] = "announce" =>
        view'.writer # loc[q].run /\ runs'[loc[q].run] = runs[loc[q].run]
  BY <1>1 DEF Active, NotYetActive
<1>4. CASE \E mode \in {"fast", "full"} : Verify(p, mode)
  <2>1. view'.check = 0 /\ \E m : Moves(p, "check_event", m)
    BY <1>4, Began DEF NoActiveRun, events
  <2> QED BY <1>1, <1>2, <1>3, <2>1, EndsMove
<1>5. CASE CheckStarted(p)
  <2>1. Moves(p, "check", loc[p]) /\ view'.check = loc[p].check
    BY <1>5, Went, ActiveFields
  <2>2. CheckingIt(p)'
    BY <2>1 DEF CheckingIt, Moves
  <2> QED BY <1>1, <1>2, <1>3, <2>1, <2>2, EndsMove
<1>6. CASE CheckSaved(p)
  <2>1. Moves(p, "check_done", loc[p]) /\ view'.check = view.check
    BY <1>6, Went DEF events
  <2>2. CheckingIt(p) => CheckingIt(p)'
    BY <2>1 DEF CheckingIt, Moves
  <2> QED BY <1>1, <1>2, <1>3, <2>1, <2>2, EndsMove
<1>7. CASE CheckEnded(p)
  <2>1. Moves(p, "accept", loc[p]) /\ view'.check = 0
    BY <1>7, Went, ActiveFields
  <2> QED BY <1>1, <1>2, <1>3, <2>1, EndsMove
<1>8. ASSUME NEW o \in {"pass", "retry_writer", "no_retry"}, RunChecks(p, o)
      PROVE  Active'
  <2> DEFINE m == [loc[p] EXCEPT !.outcome = o]
  <2>1. m.check = loc[p].check
    BY Current DEF Memories
  <2> HIDE DEF m
  <2>2. Moves(p, "check_save", m) /\ view'.check = view.check
    BY <1>8, Moved DEF Goto, m, events
  <2>3. CheckingIt(p) => CheckingIt(p)'
    BY <2>1, <2>2 DEF CheckingIt, Moves
  <2> QED BY <1>1, <1>2, <1>3, <2>2, <2>3, EndsMove
<1> QED BY <1>4, <1>5, <1>6, <1>7, <1>8

LEMMA StillSteps ==
  ASSUME Types, Active, NEW p \in Procs,
         Reopen(p) \/ Close(p) \/ CandidateChanged(p) \/ PreparePromotion(p)
  PROVE  Active'
<1> USE DEF Reopen, Close, CandidateChanged, PreparePromotion, Says
<1>1. SameActive
  BY ActiveFields DEF events
<1>2. UNCHANGED <<runs, pc, loc>>
  BY DEF rows
<1> QED BY <1>1, <1>2, StillEnds

LEMMA NextEnds ==
  ASSUME Types, Types', Evidence, Ends, [Next]_vars
  PROVE  Ends'
<1>1. regime' = regime
  BY DEF Next, vars
<1> SUFFICES ASSUME NoStop PROVE Active'
  BY <1>1 DEF Ends, NoStop
<1>2. Active
  BY DEF Ends
<1>3. "crash" \notin regime.faults /\ "store" \notin regime.faults
  BY DEF NoStop
<1>4. ASSUME NEW p \in Procs, Command(p) PROVE Active'
  BY <1>2, <1>4, AsideCommands, StartWriterEnds, CancelEnds, CheckStepEnds, StillSteps
     DEF Command
<1>5. ASSUME NEW p \in Procs, Step(p) PROVE Active'
  <2>1. CASE WriterStep(p)
    <3>1. ~ ApplyFails(p)
      BY <1>3 DEF ApplyFails
    <3> QED BY <1>2, <2>1, <3>1, AsideWriter, WriterStartedEnds, ApplyFailEnds,
               WriterAppliedEnds, WriterOverEnds DEF WriterStep
  <2>2. CASE CheckStep(p)
    BY <1>2, <2>2, CheckStepEnds, AsideSteps DEF CheckStep
  <2>3. CASE OtherStep(p)
    BY <1>2, <2>3, WriterOverEnds, AsideSteps DEF OtherStep
  <2> QED BY <1>5, <2>1, <2>2, <2>3 DEF Step
<1>6. \A p \in Procs : ~ Raises(p) /\ ~ Crash(p)
  BY <1>3 DEF Raises, Crash
<1>7. CASE Edit \/ LeaseExpires \/ UNCHANGED vars
  <2>1. SameActive /\ UNCHANGED <<runs, pc, loc>>
    BY <1>7, ActiveFields DEF Edit, LeaseExpires, vars, rows, events
  <2> QED BY <1>2, <2>1, StillEnds
<1> QED BY <1>4, <1>5, <1>6, <1>7 DEF Next

LEMMA InitEnds == Init => Ends
BY DEF Init, Ends, Active, NotYetActive, RunEnds, CheckEnds

-----------------------------------------------------------------------------
(* Writer runs when nothing but an edit interrupts the commands.           *)

Pending == Unfinished \cup {"fail_lease", "fail"}

\* The run started from what the completed run before it left.
Continues(i) == runs[i].before = Left(Before(i))

\* A command at label l with memory m: its run, if it was not cancelled, is
\* the active run, and until it is over it is the last one.
Serves(l, m) ==
  /\ l = "announce" => view.writer = 0
  /\ l = "cancel_event" => view.writer # 0 /\ runs[view.writer].status = "CANCELLED"
  /\ l \in Pending => runs[m.run].status \in {"RUNNING", "CANCELLED"}
  /\ l \in WriterLabels /\ runs[m.run].status # "CANCELLED" =>
       /\ l # "announce" => view.writer = m.run
       /\ l \in Unfinished => m.run = Len(runs) /\ Continues(m.run)

AllServe   == \A p \in Procs : Serves(pc[p], loc[p])
OneHistory == \A i \in Completed : Continues(i)
Line       == AllServe /\ OneHistory

LEMMA LatestCompleted ==
  ASSUME Types, NEW S, S \subseteq Completed, S # {}
  PROVE  Latest(S) \in S
<1>1. Len(runs) \in Nat /\ DOMAIN runs = 1 .. Len(runs)
  BY TypeParts DEF StoreTypes, RunTypes
<1>2. S \subseteq 1 .. Len(runs)
  BY <1>1 DEF Completed
<1> QED BY <1>1, <1>2, GreatestExists DEF Latest

LEMMA ContinuesKept ==
  ASSUME Types, NEW i, Before(i)' = Before(i),
         \A j \in Before(i) : runs'[j] = runs[j], runs'[i].before = runs[i].before
  PROVE  Continues(i) => Continues(i)'
<1>1. Before(i) # {} => Latest(Before(i)) \in Before(i)
  BY LatestCompleted DEF Before
<1>2. Left(Before(i))' = Left(Before(i))
  BY <1>1 DEF Left, Latest
<1> QED BY <1>2 DEF Continues

LEMMA SameRuns ==
  ASSUME runs' = runs
  PROVE  /\ Completed' = Completed
         /\ \A i : Before(i)' = Before(i) /\ (Continues(i) => Continues(i)')
<1>1. Completed' = Completed
  BY DEF Completed
<1>2. \A i : Before(i)' = Before(i)
  BY <1>1 DEF Before
<1> QED BY <1>1, <1>2 DEF Continues, Left, Latest

\* Steps that neither write a run nor say which one is active.
LEMMA RestMove ==
  ASSUME Line, runs' = runs, view'.writer = view.writer,
         NEW p \in Procs, NEW l, NEW m, Moves(p, l, m), Serves(l, m)
  PROVE  Line'
<1>1. \A k, n : Serves(k, n) => Serves(k, n)'
  BY SameRuns DEF Serves
<1>2. ASSUME NEW q \in Procs PROVE Serves(pc[q], loc[q])'
  <2>1. Serves(pc[q], loc[q])
    BY DEF Line, AllServe
  <2> QED BY <1>1, <2>1 DEF Moves
<1>3. OneHistory'
  BY SameRuns DEF Line, OneHistory
<1> QED BY <1>2, <1>3 DEF Line, AllServe

LEMMA RestStill ==
  ASSUME Line, UNCHANGED <<runs, pc, loc>>, view'.writer = view.writer
  PROVE  Line'
<1>1. \A k, n : Serves(k, n) => Serves(k, n)'
  BY SameRuns DEF Serves
<1>2. ASSUME NEW q \in Procs PROVE Serves(pc[q], loc[q])'
  <2>1. Serves(pc[q], loc[q])
    BY DEF Line, AllServe
  <2> QED BY <1>1, <2>1
<1>3. OneHistory'
  BY SameRuns DEF Line, OneHistory
<1> QED BY <1>2, <1>3 DEF Line, AllServe

NoWriter == Labels \ (WriterLabels \cup {"cancel_event"})

LEMMA NoWriterServes == \A l \in NoWriter : \A m : Serves(l, m)
BY DEF NoWriter, Serves, WriterLabels, Pending, Unfinished

LEMMA RestCommands ==
  ASSUME Types, Types', Line, NEW p \in Procs,
         \/ Start(p) \/ CommitCandidate(p) \/ RequestScopeChange(p)
         \/ ActivateRevision(p) \/ IntegrateCandidate(p)
         \/ \E mode \in {"fast", "full"} : Verify(p, mode)
  PROVE  Line'
<1> USE DEF Start, CommitCandidate, RequestScopeChange, ActivateRevision,
            IntegrateCandidate, Verify
<1>1. view'.writer = view.writer /\ runs' = runs
  BY DEF rows, events
<1>2. \E l \in {"activate", "git_commit", "authority", "approve", "integrate", "check_event"} :
        \E m : Begin(p, l, m)
  OBVIOUS
<1>3. {"activate", "git_commit", "authority", "approve", "integrate", "check_event"}
        \subseteq NoWriter
  BY DEF NoWriter, Labels, WriterLabels
<1> QED BY <1>1, <1>2, <1>3, NoWriterServes, Began, RestMove

LEMMA RestSays ==
  ASSUME Types, Line, NEW p \in Procs,
         Reopen(p) \/ Close(p) \/ CandidateChanged(p) \/ PreparePromotion(p)
  PROVE  Line'
<1> USE DEF Reopen, Close, CandidateChanged, PreparePromotion, Says
<1>1. view'.writer = view.writer
  BY ActiveFields DEF events, SameActive
<1>2. UNCHANGED <<runs, pc, loc>>
  BY DEF rows
<1> QED BY <1>1, <1>2, RestStill

LEMMA RestWriter ==
  ASSUME Types, Types', Line, NEW p \in Procs,
         \/ BackendReturns(p) \/ BackendRaises(p) \/ Compare(p) \/ StagingRejected(p)
         \/ WriterApplied(p) \/ FailLease(p)
  PROVE  Line'
<1> USE DEF BackendReturns, BackendRaises, Compare, StagingRejected, WriterApplied, FailLease
<1>1. view'.writer = view.writer /\ runs' = runs
  BY ActiveFields DEF rows, events, SameActive
<1>2. Serves(pc[p], loc[p])
  BY DEF Line, AllServe
<1>3. \/ Finish(p)
      \/ WriterRaises(p) /\ pc[p] \in Pending
      \/ \E l \in {"compare", "apply", "complete", "fail"} :
           /\ Goto(p, l) /\ loc' = loc
           /\ l \in Unfinished => pc[p] \in Unfinished
           /\ l \in Pending => pc[p] \in Pending
  BY DEF Pending, Unfinished
<1>4. pc[p] \in WriterLabels \ {"announce"}
  BY DEF WriterLabels
<1>5. CASE Finish(p)
  <2>1. "idle" \in NoWriter
    BY DEF NoWriter, Labels, WriterLabels
  <2> QED BY <1>1, <1>5, <2>1, NoWriterServes, Finished, RestMove
<1>6. ASSUME NEW l \in {"compare", "apply", "complete", "fail", "fail_lease"},
             l \in Unfinished => pc[p] \in Unfinished,
             l \in Pending => pc[p] \in Pending
      PROVE  Serves(l, loc[p])
  BY <1>2, <1>4, <1>6 DEF Serves, WriterLabels
<1>7. CASE WriterRaises(p) /\ pc[p] \in Pending
  <2>1. Serves("fail_lease", loc[p])
    BY <1>6, <1>7 DEF Unfinished
  <2> QED BY <1>1, <1>7, <2>1, Raised, RestMove
<1> QED BY <1>1, <1>3, <1>5, <1>6, <1>7, Went, RestMove

LEMMA RestSteps ==
  ASSUME Types, Types', Line, NEW p \in Procs,
         \/ CheckStarted(p) \/ CheckSaved(p) \/ CheckEnded(p) \/ Conclude(p)
         \/ \E o \in {"pass", "retry_writer", "no_retry"} : RunChecks(p, o)
         \/ Activate(p) \/ GitCommit(p) \/ CandidateCommitted(p)
         \/ ScopeProposed(p) \/ ApproveRevision(p) \/ ScopeApproved(p) \/ ScopeReopens(p)
         \/ Integrated(p) \/ IntegrationFails(p)
  PROVE  Line'
<1>1. runs' = runs
  <2>1. CASE CheckStarted(p) \/ CheckSaved(p) \/ CheckEnded(p) \/ Conclude(p)
    BY <2>1 DEF CheckStarted, CheckSaved, CheckEnded, Conclude, rows
  <2>2. CASE \E o \in {"pass", "retry_writer", "no_retry"} : RunChecks(p, o)
    BY <2>2 DEF RunChecks, rows
  <2>3. CASE Activate(p) \/ GitCommit(p) \/ CandidateCommitted(p)
    BY <2>3 DEF Activate, GitCommit, CandidateCommitted, rows
  <2>4. CASE ScopeProposed(p) \/ ApproveRevision(p) \/ ScopeApproved(p) \/ ScopeReopens(p)
    BY <2>4 DEF ScopeProposed, ApproveRevision, ScopeApproved, ScopeReopens, rows
  <2>5. CASE Integrated(p) \/ IntegrationFails(p)
    BY <2>5 DEF Integrated, IntegrationFails, rows
  <2> QED BY <2>1, <2>2, <2>3, <2>4, <2>5
<1> USE DEF CheckStarted, CheckSaved, CheckEnded, Conclude, RunChecks,
            Activate, GitCommit, CandidateCommitted, ScopeProposed,
            ApproveRevision, ScopeApproved, ScopeReopens, Integrated, IntegrationFails
<1>2. view'.writer = view.writer
  BY ActiveFields DEF events, SameActive
<1>3. \/ Finish(p)
      \/ \E l \in {"check", "check_save", "check_done", "accept", "commit_event",
                   "scope_event", "scope_reopen"} :
           Goto(p, l) /\ \E m : loc' = [loc EXCEPT ![p] = m] \/ loc' = loc
  OBVIOUS
<1>4. \E l \in {"idle", "check", "check_save", "check_done", "accept", "commit_event",
                "scope_event", "scope_reopen"} : \E m : Moves(p, l, m)
  BY <1>3, Finished, Went, Moved DEF Goto
<1>5. {"idle", "check", "check_save", "check_done", "accept", "commit_event",
       "scope_event", "scope_reopen"} \subseteq NoWriter
  BY DEF NoWriter, Labels, WriterLabels
<1> QED BY <1>1, <1>2, <1>4, <1>5, NoWriterServes, RestMove

\* Whoever else has a run was cancelled.
OthersCancelled(p) ==
  \A q \in Procs : q # p =>
    /\ pc[q] \notin {"announce", "cancel_event"}
    /\ pc[q] \in WriterLabels => runs[loc[q].run].status = "CANCELLED"

LEMMA Alone ==
  ASSUME Types, Evidence, Safe, Line, NEW p \in Procs, pc[p] \in Holding \/ Acquirable,
         \/ view.writer = 0
         \/ pc[p] \in WriterLabels /\ view.writer = loc[p].run
         \/ view.writer # 0 /\ runs[view.writer].status = "CANCELLED"
  PROVE  OthersCancelled(p)
<1> SUFFICES ASSUME NEW q \in Procs, q # p
             PROVE  /\ pc[q] \notin {"announce", "cancel_event"}
                    /\ pc[q] \in WriterLabels => runs[loc[q].run].status = "CANCELLED"
  BY DEF OthersCancelled
<1>1. pc[q] \notin Holding
  BY Lockers
<1>2. pc[q] \notin {"announce", "cancel_event"}
  BY <1>1 DEF Holding, Labels, Writing
<1>3. pc[q] \in WriterLabels => loc[q].run \in DOMAIN runs /\ loc[q].run # 0
  BY Current, TypeParts DEF Remembers, StoreTypes, RunTypes
<1>4. Serves(pc[q], loc[q])
  BY DEF Line, AllServe
<1>5. pc[p] \in WriterLabels /\ pc[q] \in WriterLabels => loc[p].run # loc[q].run
  BY DEF Evidence, OwnRows
<1> QED BY <1>2, <1>3, <1>4, <1>5 DEF Serves

\* A step that writes a run or says which one is active.
LEMMA LineMove ==
  ASSUME Types, NEW p \in Procs, NEW l, NEW m, Moves(p, l, m), OthersCancelled(p),
         \A q \in Procs : q # p /\ pc[q] \in WriterLabels =>
           runs'[loc[q].run].status = runs[loc[q].run].status,
         Serves(l, m)', OneHistory'
  PROVE  Line'
<1>1. ASSUME NEW q \in Procs, q # p PROVE Serves(pc[q], loc[q])'
  <2>1. pc'[q] = pc[q] /\ loc'[q] = loc[q]
    BY <1>1 DEF Moves
  <2>2. CASE pc[q] \in WriterLabels
    <3>1. runs'[loc[q].run].status = "CANCELLED" /\ pc[q] \notin {"announce", "cancel_event"}
      BY <1>1, <2>2 DEF OthersCancelled
    <3> QED BY <2>1, <3>1 DEF Serves
  <2>3. CASE pc[q] \notin WriterLabels
    <3>1. pc[q] # "announce" /\ pc[q] # "cancel_event" /\ pc[q] \notin Pending
      BY <1>1, <2>3 DEF OthersCancelled, Pending, Unfinished, WriterLabels
    <3> QED BY <2>1, <2>3, <3>1 DEF Serves
  <2> QED BY <2>2, <2>3
<1>2. Serves(pc[p], loc[p])'
  BY DEF Moves
<1> QED BY <1>1, <1>2 DEF Line, AllServe

LEMMA WriterStartedLine ==
  ASSUME Types, Types', Evidence, Safe, Line, NEW p \in Procs, WriterStarted(p)
  PROVE  Line'
<1>1. /\ runs' = runs /\ view'.writer = loc[p].run /\ Moves(p, "backend", loc[p])
  BY ActiveFields, Went DEF WriterStarted, rows
<1>2. pc[p] = "announce" /\ pc[p] \in Holding
  BY DEF WriterStarted, Holding, Labels, Writing
<1>3. Serves("announce", loc[p])
  BY <1>2 DEF Line, AllServe
<1>4. OthersCancelled(p)
  BY <1>2, <1>3, Alone DEF Serves
<1>5. ASSUME NEW m, m = loc[p] PROVE Serves("backend", m)'
  <2>1. Len(runs') = Len(runs) /\ (Continues(m.run) => Continues(m.run)')
    BY <1>1, SameRuns
  <2> QED BY <1>1, <1>3, <1>5, <2>1 DEF Serves, Pending, Unfinished, WriterLabels
<1>6. OneHistory'
  BY <1>1, SameRuns DEF Line, OneHistory
<1> QED BY <1>1, <1>4, <1>5, <1>6, LineMove

\* The live Writer command has the active run.
LEMMA LiveIsActive ==
  ASSUME Safe, Line, NEW p \in Procs, pc[p] \in {"apply", "complete", "fail", "fail_event"}
  PROVE  /\ pc[p] \in WriterLabels /\ pc[p] \in Holding
         /\ runs[loc[p].run].status # "CANCELLED" /\ view.writer = loc[p].run
<1>1. pc[p] \in WriterLabels /\ pc[p] \in Holding
  BY DEF WriterLabels, Holding, Labels, Writing
<1>2. runs[loc[p].run].status # "CANCELLED"
  BY <1>1 DEF Safe, Owned, Relies
<1>3. Serves(pc[p], loc[p])
  BY DEF Line, AllServe
<1> QED BY <1>1, <1>2, <1>3 DEF Serves

LEMMA WriterOverLine ==
  ASSUME Types, Types', Evidence, Safe, Line, NEW p \in Procs,
         WriterCompleted(p) \/ WriterFailed(p) \/ WriterCancelled(p)
  PROVE  Line'
<1> USE DEF WriterCompleted, WriterFailed, WriterCancelled
<1>1. runs' = runs /\ Moves(p, "idle", Idle)
  BY Finished DEF rows
<1>2. OthersCancelled(p)
  <2>1. CASE WriterCompleted(p) \/ WriterFailed(p)
    BY <2>1, LiveIsActive, Alone
  <2>2. CASE WriterCancelled(p)
    <3>1. pc[p] \in Holding
      BY <2>2 DEF Holding, Labels
    <3>2. Serves("cancel_event", loc[p])
      BY <2>2 DEF Line, AllServe
    <3> QED BY <3>1, <3>2, Alone DEF Serves
  <2> QED BY <2>1, <2>2
<1>3. Serves("idle", Idle)'
  BY DEF Serves, Pending, Unfinished, WriterLabels
<1>4. OneHistory'
  BY <1>1, SameRuns DEF Line, OneHistory
<1> QED BY <1>1, <1>2, <1>3, <1>4, LineMove

LEMMA StartWriterLine ==
  ASSUME Types, Types', Evidence, Safe, Line, NEW p \in Procs, StartWriter(p)
  PROVE  Line'
<1> DEFINE row == [status |-> "RUNNING", before |-> tree, after |-> 0]
           m   == [Idle EXCEPT !.run = Len(runs) + 1]
<1>0. PICK n : n = Len(runs) + 1
  OBVIOUS
<1>1. /\ runs' = Append(runs, row) /\ Begin(p, "announce", m) /\ view' = view
      /\ view.writer = 0 /\ Acquirable /\ tree = Left(Completed)
  BY DEF StartWriter, NoActiveRun, Begins, AdmissionChain, events
<1>2. runs \in Seq(RunRows) /\ Len(runs) \in Nat /\ DOMAIN runs = 1 .. Len(runs)
  BY TypeParts DEF StoreTypes, RunTypes
<1>3. m.run = n /\ row.status = "RUNNING" /\ row.before = tree
  BY <1>0 DEF Idle
<1> HIDE DEF m, row
<1>4. /\ \A i \in DOMAIN runs : runs'[i] = runs[i]
      /\ runs'[n] = row /\ Len(runs') = n /\ DOMAIN runs' = DOMAIN runs \cup {n}
  BY <1>0, <1>1, <1>2
<1>5. Completed' = Completed /\ Completed \subseteq DOMAIN runs
  BY <1>0, <1>2, <1>3, <1>4 DEF Completed
<1>6. Before(n)' = Completed
  BY <1>0, <1>2, <1>5 DEF Before
<1>7. Completed # {} => Latest(Completed) \in Completed
  BY LatestCompleted
<1>8. Continues(n)'
  <2>1. Left(Before(n))' = Left(Completed)
    BY <1>4, <1>5, <1>6, <1>7 DEF Left, Latest
  <2> QED BY <1>1, <1>3, <1>4, <2>1 DEF Continues
<1>9. OneHistory'
  <2>1. ASSUME NEW i \in Completed PROVE Continues(i)'
    <3>1. Before(i)' = Before(i) /\ Before(i) \subseteq DOMAIN runs /\ runs'[i] = runs[i]
      BY <1>4, <1>5 DEF Before
    <3> QED BY <1>4, <3>1, ContinuesKept DEF Line, OneHistory
  <2> QED BY <1>5, <2>1 DEF OneHistory
<1>10. OthersCancelled(p)
  BY <1>1, Alone
<1>11. \A q \in Procs : pc[q] \in WriterLabels => runs'[loc[q].run] = runs[loc[q].run]
  BY <1>4, Current DEF Remembers
<1>12. Moves(p, "announce", m)
  BY <1>1, Began
<1>13. ASSUME NEW e, e.run = n PROVE Serves("announce", e)'
  BY <1>1, <1>3, <1>4, <1>8, <1>13 DEF Serves, WriterLabels, Unfinished, Pending
<1> QED BY <1>3, <1>9, <1>10, <1>11, <1>12, <1>13, LineMove

\* What is left when the row of one run is written.
LEMMA OneRowWritten ==
  ASSUME Types, NEW i \in DOMAIN runs, i \notin Completed, NEW row,
         runs' = [runs EXCEPT ![i] = row], row.before = runs[i].before
  PROVE  /\ runs'[i] = row /\ \A j \in DOMAIN runs : j # i => runs'[j] = runs[j]
         /\ DOMAIN runs' = DOMAIN runs
         /\ row.status # "COMPLETED" => Completed' = Completed
         /\ row.status = "COMPLETED" => Completed' = Completed \cup {i}
         /\ \A j : Before(j)' = Before(j) /\ Continues(j) => Continues(j)'
<1>1. runs \in Seq(RunRows)
  BY TypeParts DEF StoreTypes, RunTypes
<1>2. /\ runs'[i] = row /\ \A j \in DOMAIN runs : j # i => runs'[j] = runs[j]
      /\ DOMAIN runs' = DOMAIN runs
  BY <1>1
<1>3. /\ row.status # "COMPLETED" => Completed' = Completed
      /\ row.status = "COMPLETED" => Completed' = Completed \cup {i}
  BY <1>2 DEF Completed
<1>4. ASSUME NEW j, Before(j)' = Before(j) PROVE Continues(j) => Continues(j)'
  <2>1. \A k \in Before(j) : runs'[k] = runs[k]
    BY <1>2 DEF Before, Completed
  <2>2. runs'[j].before = runs[j].before
    <3>1. CASE j = i
      BY <1>2, <3>1
    <3>2. CASE j # i
      BY <1>1, <3>2
    <3> QED BY <3>1, <3>2
  <2> QED BY <1>4, <2>1, <2>2, ContinuesKept
<1> QED BY <1>2, <1>3, <1>4

LEMMA ApplyLine ==
  ASSUME Types, Types', Evidence, Safe, Line, NEW p \in Procs,
         NEW c \in BOOLEAN, Apply(p, c)
  PROVE  Line'
<1>0. PICK i : i = loc[p].run
  OBVIOUS
<1> DEFINE row == [runs[i] EXCEPT !.status = "COMPLETED", !.after = Made(p, c)]
<1>1. /\ runs' = [runs EXCEPT ![i] = row] /\ pc[p] = "apply" /\ view' = view
      /\ Moves(p, "applied", loc[p])
  BY <1>0, Went DEF Apply, events
<1>2. /\ pc[p] \in WriterLabels /\ pc[p] \in Holding /\ i \in DOMAIN runs
      /\ runs[i].status # "CANCELLED" /\ view.writer = i
  BY <1>0, <1>1, LiveIsActive, Current DEF Remembers
<1>3. Serves("apply", loc[p])
  BY <1>1 DEF Line, AllServe
<1>4. i = Len(runs) /\ Continues(i) /\ i \notin Completed
  BY <1>0, <1>2, <1>3 DEF Serves, Pending, Unfinished, WriterLabels, Completed
<1>5. runs[i] \in RunRows /\ DOMAIN runs = 1 .. Len(runs) /\ Len(runs) \in Nat
  BY <1>2, RunRow
<1>6. row.status = "COMPLETED" /\ row.before = runs[i].before
  BY <1>5 DEF RunRows
<1>7. OthersCancelled(p)
  BY <1>0, <1>2, Alone
<1>8. \A q \in Procs : q # p /\ pc[q] \in WriterLabels =>
        loc[q].run \in DOMAIN runs /\ loc[q].run # i
  BY <1>0, <1>2, Current DEF Remembers, Evidence, OwnRows
<1> HIDE DEF row
<1>9. /\ runs'[i] = row /\ \A j \in DOMAIN runs : j # i => runs'[j] = runs[j]
      /\ Completed' = Completed \cup {i}
      /\ \A j : Before(j)' = Before(j) /\ Continues(j) => Continues(j)'
  BY <1>1, <1>2, <1>4, <1>6, OneRowWritten
<1>10. OneHistory'
  <2>1. ASSUME NEW j \in Completed \cup {i} PROVE Continues(j)'
    <3>1. j \in 1 .. Len(runs)
      BY <1>2, <1>5 DEF Completed
    <3>2. Before(j)' = Before(j)
      BY <1>4, <1>5, <1>9, <3>1 DEF Before
    <3>3. Continues(j)
      BY <1>4, <2>1 DEF Line, OneHistory
    <3> QED BY <1>9, <3>2, <3>3
  <2> QED BY <1>9, <2>1 DEF OneHistory
<1>11. ASSUME NEW m, m = loc[p] PROVE Serves("applied", m)'
  BY <1>0, <1>1, <1>2, <1>6, <1>9, <1>11 DEF Serves, Pending, Unfinished, WriterLabels
<1> QED BY <1>1, <1>7, <1>8, <1>9, <1>10, <1>11, LineMove

LEMMA FailLine ==
  ASSUME Types, Types', Evidence, Safe, Line, NEW p \in Procs, Fail(p)
  PROVE  Line'
<1>0. PICK i : i = loc[p].run
  OBVIOUS
<1> DEFINE row == [runs[i] EXCEPT !.status = "FAILED"]
<1>1. /\ runs' = [runs EXCEPT ![i] = row] /\ pc[p] = "fail" /\ view' = view
      /\ Moves(p, "fail_event", loc[p])
  BY <1>0, Went DEF Fail, events
<1>2. /\ pc[p] \in WriterLabels /\ pc[p] \in Holding /\ i \in DOMAIN runs
      /\ runs[i].status # "CANCELLED" /\ view.writer = i
  BY <1>0, <1>1, LiveIsActive, Current DEF Remembers
<1>3. Serves("fail", loc[p])
  BY <1>1 DEF Line, AllServe
<1>4. i \notin Completed
  BY <1>0, <1>3 DEF Serves, Pending, Completed
<1>5. row.status = "FAILED" /\ row.before = runs[i].before
  BY <1>2, RunRow DEF RunRows
<1>6. OthersCancelled(p)
  BY <1>0, <1>2, Alone
<1>7. \A q \in Procs : q # p /\ pc[q] \in WriterLabels =>
        loc[q].run \in DOMAIN runs /\ loc[q].run # i
  BY <1>0, <1>2, Current DEF Remembers, Evidence, OwnRows
<1> HIDE DEF row
<1>8. /\ runs'[i] = row /\ \A j \in DOMAIN runs : j # i => runs'[j] = runs[j]
      /\ Completed' = Completed
      /\ \A j : Before(j)' = Before(j) /\ Continues(j) => Continues(j)'
  BY <1>1, <1>2, <1>4, <1>5, OneRowWritten
<1>9. OneHistory'
  <2>1. \A j : Before(j)' = Before(j)
    BY <1>8 DEF Before
  <2> QED BY <1>8, <2>1 DEF Line, OneHistory
<1>10. ASSUME NEW m, m = loc[p] PROVE Serves("fail_event", m)'
  BY <1>0, <1>1, <1>2, <1>5, <1>8, <1>10 DEF Serves, Pending, Unfinished, WriterLabels
<1> QED BY <1>1, <1>6, <1>7, <1>8, <1>9, <1>10, LineMove

\* Cancelling the active run leaves no live Writer command.
LEMMA CancelLine ==
  ASSUME Types, Types', Evidence, Safe, Line, NEW p \in Procs, CancelWriter(p)
  PROVE  Line'
<1>0. PICK i : i = view.writer
  OBVIOUS
<1> DEFINE row == [runs[i] EXCEPT !.status = "CANCELLED"]
<1>1. /\ runs' = [runs EXCEPT ![i] = row] /\ view' = view /\ i # 0 /\ Acquirable
      /\ pc[p] = "idle" /\ runs[i].status = "RUNNING" /\ Moves(p, "cancel_event", Idle)
  BY <1>0, Began DEF CancelWriter, Begins, events
<1>2. i \in DOMAIN runs
  BY <1>0, <1>1, TypeParts DEF StoreTypes, ViewTypes, RunTypes
<1>3. row.status = "CANCELLED" /\ row.before = runs[i].before
  BY <1>2, RunRow DEF RunRows
<1>4. i \notin Completed
  BY <1>1 DEF Completed
<1> HIDE DEF row
<1>5. /\ runs'[i] = row /\ \A j \in DOMAIN runs : j # i => runs'[j] = runs[j]
      /\ Completed' = Completed
      /\ \A j : Before(j)' = Before(j) /\ Continues(j) => Continues(j)'
  BY <1>1, <1>2, <1>3, <1>4, OneRowWritten
<1>6. OneHistory'
  <2>1. \A j : Before(j)' = Before(j)
    BY <1>5 DEF Before
  <2> QED BY <1>5, <2>1 DEF Line, OneHistory
<1>7. ASSUME NEW q \in Procs, q # p PROVE Serves(pc[q], loc[q])'
  <2>1. pc'[q] = pc[q] /\ loc'[q] = loc[q] /\ pc[q] \notin Holding
    BY <1>1, <1>7, Lockers DEF Moves
  <2>2. pc[q] \notin {"announce", "cancel_event"}
    BY <2>1 DEF Holding, Labels, Writing
  <2>3. CASE pc[q] \in WriterLabels
    <3>1. loc[q].run \in DOMAIN runs
      BY <2>3, Current DEF Remembers
    <3>2. Serves(pc[q], loc[q])
      BY DEF Line, AllServe
    <3>3. runs'[loc[q].run].status = "CANCELLED"
      BY <1>0, <1>3, <1>5, <2>2, <2>3, <3>1, <3>2 DEF Serves
    <3> QED BY <2>1, <2>2, <3>3 DEF Serves
  <2>4. CASE pc[q] \notin WriterLabels
    <3>1. pc[q] \notin Pending
      BY <2>4 DEF Pending, Unfinished, WriterLabels
    <3> QED BY <2>1, <2>2, <2>4, <3>1 DEF Serves
  <2> QED BY <2>3, <2>4
<1>8. Serves(pc[p], loc[p])'
  <2>1. pc'[p] = "cancel_event" /\ view'.writer = i
    BY <1>0, <1>1 DEF Moves
  <2> QED BY <1>1, <1>3, <1>5, <2>1 DEF Serves, Pending, Unfinished, WriterLabels
<1> QED BY <1>6, <1>7, <1>8 DEF Line, AllServe

\* No crash, no failing transaction, no stolen lease.
LEMMA FaultFree ==
  ASSUME NoFaults
  PROVE  /\ LeasesHold /\ \A p \in Procs : ~ Raises(p) /\ ~ Crash(p) /\ ~ ApplyFails(p)
         /\ ~ LeaseExpires
BY DEF NoFaults, LeasesHold, Raises, Crash, ApplyFails, LeaseExpires

LEMMA CommandLine ==
  ASSUME Types, Types', Evidence, Safe, Line, NEW p \in Procs, Command(p)
  PROVE  Line'
BY RestCommands, RestSays, StartWriterLine, CancelLine DEF Command

LEMMA StepLine ==
  ASSUME Types, Types', Evidence, Safe, Line, NEW p \in Procs, Step(p), ~ ApplyFails(p)
  PROVE  Line'
<1>1. CASE WriterStep(p)
  BY <1>1, RestWriter, WriterStartedLine, ApplyLine, WriterOverLine, FailLine DEF WriterStep
<1>2. CASE CheckStep(p)
  BY <1>2, RestSteps DEF CheckStep
<1>3. CASE OtherStep(p)
  BY <1>3, RestSteps, WriterOverLine DEF OtherStep
<1> QED BY <1>1, <1>2, <1>3 DEF Step

LEMMA NextLine ==
  ASSUME Types, Types', Evidence, Locked, NoFaults => Line, [Next]_vars
  PROVE  (NoFaults => Line)'
<1>1. regime' = regime
  BY DEF Next, vars
<1> SUFFICES ASSUME NoFaults PROVE Line'
  BY <1>1 DEF NoFaults
<1>2. Safe
  BY FaultFree DEF Locked
<1>3. CASE \E p \in Procs : Command(p) \/ Step(p)
  BY <1>2, <1>3, FaultFree, CommandLine, StepLine
<1>4. CASE Edit \/ UNCHANGED vars
  <2>1. view'.writer = view.writer /\ UNCHANGED <<runs, pc, loc>>
    BY <1>4 DEF Edit, vars, rows, events
  <2> QED BY <2>1, RestStill
<1> QED BY <1>3, <1>4, FaultFree DEF Next

LEMMA InitLine == Init => Line
<1> SUFFICES ASSUME Init PROVE Line
  OBVIOUS
<1>1. AllServe
  BY DEF Init, AllServe, Serves, Pending, Unfinished, WriterLabels
<1>2. OneHistory
  BY DEF Init, OneHistory, Completed
<1> QED BY <1>1, <1>2 DEF Line

-----------------------------------------------------------------------------
(* The scope a request was verified under.                                 *)

Rescoping == {"scope_event", "scope_reopen"}

\* A command that checks has the last check, under the scope in effect.
ChecksLast(l, m) ==
  l \in CheckLabels => m.check = Len(checks) /\ checks[m.check].scope = scope.approved

PassedInScope == FullPassed # {} /\ checks[Latest(FullPassed)].scope = scope.approved

Scoped ==
  /\ \A p \in Procs : ChecksLast(pc[p], loc[p])
  /\ view.phase = "VERIFIED" /\ (\A p \in Procs : pc[p] \notin Rescoping) => PassedInScope

LEMMA SamePassed ==
  ASSUME checks' = checks, scope'.approved = scope.approved
  PROVE  /\ PassedInScope => PassedInScope'
         /\ \A l, m : ChecksLast(l, m) => ChecksLast(l, m)'
<1>1. FullPassed' = FullPassed
  BY DEF FullPassed
<1> QED BY <1>1 DEF PassedInScope, Latest, ChecksLast

\* Steps that write no check and no approved scope: the request is VERIFIED
\* because it was, or a command is changing its scope.
LEMMA ScopedMove ==
  ASSUME Scoped, checks' = checks, scope'.approved = scope.approved,
         NEW p \in Procs, NEW l, NEW m, Moves(p, l, m), ChecksLast(l, m),
         view'.phase = "VERIFIED" =>
           l \in Rescoping \/ (view.phase = "VERIFIED" /\ pc[p] \notin Rescoping)
  PROVE  Scoped'
<1>1. ASSUME NEW q \in Procs PROVE ChecksLast(pc[q], loc[q])'
  <2>1. ChecksLast(pc[q], loc[q])
    BY DEF Scoped
  <2> QED BY <2>1, SamePassed DEF Moves
<1>2. ASSUME view'.phase = "VERIFIED", \A q \in Procs : pc'[q] \notin Rescoping
      PROVE  PassedInScope'
  <2>1. view.phase = "VERIFIED" /\ \A q \in Procs : pc[q] \notin Rescoping
    BY <1>2 DEF Moves
  <2> QED BY <2>1, SamePassed DEF Scoped
<1> QED BY <1>1, <1>2 DEF Scoped

LEMMA ScopedStill ==
  ASSUME Scoped, UNCHANGED <<checks, scope, pc, loc>>,
         view'.phase = "VERIFIED" => view.phase = "VERIFIED"
  PROVE  Scoped'
<1>1. ASSUME NEW q \in Procs PROVE ChecksLast(pc[q], loc[q])'
  <2>1. ChecksLast(pc[q], loc[q])
    BY DEF Scoped
  <2> QED BY <2>1, SamePassed
<1> QED BY <1>1, SamePassed DEF Scoped

\* How the phase of the projection can change.
LEMMA NextPhase ==
  ASSUME Types
  PROVE  /\ \A n : view' = [view EXCEPT !.writer = n] => view'.phase = view.phase
         /\ \A n : view' = [view EXCEPT !.check = n] => view'.phase = view.phase
         /\ \A n : view' = [view EXCEPT !.scope = n] => view'.phase = view.phase
         /\ \A x, h : view' = [view EXCEPT !.patch = x, !.head = h] =>
              view'.phase = view.phase
         /\ \A ph : view' = Enter(ph) => view'.phase \in {ph, view.phase}
<1>1. view \in [phase : Phases, writer : 0 .. Len(runs), check : 0 .. Len(checks),
                patch : Contents, head : Contents, scope : 1 .. regime.scopes,
                broken : BOOLEAN]
  BY TypeParts DEF StoreTypes, ViewTypes
<1>2. ASSUME NEW x, NEW h, view' = [view EXCEPT !.patch = x, !.head = h]
      PROVE  view'.phase = view.phase
  BY <1>1, <1>2
<1>3. \A ph : view' = Enter(ph) => view'.phase \in {ph, view.phase}
  BY <1>1 DEF Enter
<1> QED BY <1>1, <1>2, <1>3

LEMMA ScopedCommands ==
  ASSUME Types, Types', Scoped, NEW p \in Procs,
         \/ Start(p) \/ StartWriter(p) \/ CancelWriter(p) \/ CommitCandidate(p)
         \/ RequestScopeChange(p) \/ ActivateRevision(p) \/ IntegrateCandidate(p)
  PROVE  Scoped'
<1> USE DEF Start, StartWriter, CancelWriter, CommitCandidate, RequestScopeChange,
            ActivateRevision, IntegrateCandidate
<1>1. view' = view /\ checks' = checks /\ pc[p] \notin Rescoping
  BY DEF rows, events, Begins, Rescoping
<1>2. scope'.approved = scope.approved
  BY TypeParts DEF rows, StoreTypes, ScopeTypes
<1>3. \E l \in {"activate", "announce", "cancel_event", "git_commit", "authority",
                "approve", "integrate"} : \E m : Begin(p, l, m)
  OBVIOUS
<1>4. \A l \in {"activate", "announce", "cancel_event", "git_commit", "authority",
                "approve", "integrate"} : \A m : ChecksLast(l, m)
  BY DEF ChecksLast, CheckLabels, Checking
<1> QED BY <1>1, <1>2, <1>3, <1>4, Began, ScopedMove

LEMMA ScopedSays ==
  ASSUME Types, Scoped, NEW p \in Procs,
         Reopen(p) \/ Close(p) \/ CandidateChanged(p) \/ PreparePromotion(p)
  PROVE  Scoped'
<1> USE DEF Reopen, Close, CandidateChanged, PreparePromotion, Says
<1>1. UNCHANGED <<checks, scope, pc, loc>>
  BY DEF rows
<1>2. view' = view \/ \E ph \in {"ACTIVE", "CLOSED"} : view' = Enter(ph)
  BY DEF events
<1>3. view'.phase = "VERIFIED" => view.phase = "VERIFIED"
  BY <1>2, NextPhase
<1> QED BY <1>1, <1>3, ScopedStill

LEMMA ScopedWriter ==
  ASSUME Types, Types', Scoped, NEW p \in Procs, WriterStep(p)
  PROVE  Scoped'
<1> USE DEF WriterStarted, BackendReturns, BackendRaises, Compare, StagingRejected, Apply,
            ApplyFails, WriterApplied, WriterCompleted, FailLease, Fail, WriterFailed
<1>1. UNCHANGED <<checks, scope>>
  BY DEF WriterStep, rows
<1>2. view'.phase = view.phase
  BY NextPhase DEF WriterStep, events
<1>3. pc[p] \notin Rescoping
  BY DEF WriterStep, Rescoping
<1>4. \/ Finish(p) \/ WriterRaises(p)
      \/ \E l \in {"backend", "compare", "apply", "applied", "complete", "fail",
                   "fail_event"} : Goto(p, l) /\ loc' = loc
  BY DEF WriterStep
<1>5. \E l \in {"idle", "fail_lease", "backend", "compare", "apply", "applied", "complete",
                "fail", "fail_event"} : \E m : Moves(p, l, m)
  BY <1>4, Finished, Raised, Went
<1>6. \A l \in {"idle", "fail_lease", "backend", "compare", "apply", "applied", "complete",
                "fail", "fail_event"} : \A m : ChecksLast(l, m)
  BY DEF ChecksLast, CheckLabels, Checking
<1>7. PICK l \in {"idle", "fail_lease", "backend", "compare", "apply", "applied", "complete",
                  "fail", "fail_event"} : \E m : Moves(p, l, m)
  BY <1>5
<1>8. PICK m : Moves(p, l, m)
  BY <1>7
<1>9. ChecksLast(l, m)
  BY <1>6
<1> QED BY <1>1, <1>2, <1>3, <1>8, <1>9, ScopedMove

LEMMA ScopedOthers ==
  ASSUME Types, Types', Safe, Scoped, NEW p \in Procs,
         \/ Activate(p) \/ WriterCancelled(p) \/ GitCommit(p) \/ CandidateCommitted(p)
         \/ ScopeProposed(p) \/ ScopeApproved(p) \/ ScopeReopens(p)
         \/ Integrated(p) \/ IntegrationFails(p)
  PROVE  Scoped'
<1> USE DEF Activate, WriterCancelled, GitCommit, CandidateCommitted, ScopeProposed,
            ScopeApproved, ScopeReopens, Integrated, IntegrationFails
<1>1. UNCHANGED <<checks, scope>>
  BY DEF rows
<1>2. \/ Finish(p)
      \/ \E l \in {"commit_event", "scope_reopen"} : Goto(p, l) /\ loc' = loc
  OBVIOUS
<1>3. \A l \in {"idle", "commit_event", "scope_reopen"} : \A m : ChecksLast(l, m)
  BY DEF ChecksLast, CheckLabels, Checking
<1>4. CASE ScopeApproved(p)
  <2>1. pc[p] \in Holding
    BY <1>4 DEF Holding, Labels
  <2>2. Relies("scope_event", loc[p])
    BY <1>4, <2>1, Lockers
  <2>3. loc[p].phase = view.phase /\ view'.phase = view.phase
    BY <1>4, <2>2, NextPhase DEF Relies, ScopeLabels
  <2>4. CASE loc[p].phase = "VERIFIED"
    <3>1. Moves(p, "scope_reopen", loc[p])
      BY <1>4, <2>4, Went
    <3> QED BY <1>1, <1>3, <3>1, ScopedMove DEF Rescoping
  <2>5. CASE loc[p].phase # "VERIFIED"
    <3>1. Moves(p, "idle", Idle)
      BY <1>4, <2>5, Finished
    <3> QED BY <1>1, <1>3, <2>3, <2>5, <3>1, ScopedMove
  <2> QED BY <2>4, <2>5
<1>5. CASE ScopeReopens(p)
  <2>1. pc[p] \in Holding
    BY <1>5 DEF Holding, Labels
  <2>2. view.phase = "VERIFIED" /\ ~ view.broken
    BY <1>5, <2>1, Lockers DEF Relies, Safe
  <2>3. view'.phase = "ACTIVE"
    BY <1>5, <2>2, Entering DEF Legal, Phases
  <2> QED BY <1>1, <1>3, <1>5, <2>3, Finished, ScopedMove
<1>6. CASE ~ ScopeApproved(p) /\ ~ ScopeReopens(p)
  <2>1. pc[p] \notin Rescoping
    BY <1>6 DEF Rescoping
  <2>2. \/ view' = view
        \/ \E n : view' = [view EXCEPT !.writer = n]
        \/ \E x, h : view' = [view EXCEPT !.patch = x, !.head = h]
        \/ \E ph \in {"ACTIVE", "CLOSED"} : view' = Enter(ph)
    BY <1>6 DEF events
  <2>3. view'.phase = "VERIFIED" => view.phase = "VERIFIED"
    BY <2>2, NextPhase
  <2>4. \E l \in {"idle", "commit_event", "scope_reopen"} : \E m : Moves(p, l, m)
    BY <1>2, Finished, Went
  <2> QED BY <1>1, <1>3, <2>1, <2>3, <2>4, ScopedMove
<1> QED BY <1>4, <1>5, <1>6

\* Nobody else checks while this command holds the lease.
LEMMA NobodyChecks ==
  ASSUME Safe, NEW p \in Procs, pc[p] \in Holding \/ Acquirable
  PROVE  \A q \in Procs : q # p => pc[q] \notin CheckLabels
BY Lockers DEF Holding, Labels, CheckLabels, Checking

LEMMA ApproveScoped ==
  ASSUME Types, Types', Safe, Scoped, NEW p \in Procs, ApproveRevision(p)
  PROVE  Scoped'
<1>1. pc[p] \in Holding
  BY DEF ApproveRevision, Holding, Labels
<1>2. Moves(p, "scope_event", loc[p])
  BY Went DEF ApproveRevision
<1>3. ASSUME NEW q \in Procs PROVE pc'[q] \notin CheckLabels
  BY <1>1, <1>2, NobodyChecks DEF Moves, CheckLabels, Checking
<1>4. pc'[p] \in Rescoping
  BY <1>2 DEF Moves, Rescoping
<1> QED BY <1>3, <1>4 DEF Scoped, ChecksLast

LEMMA VerifyScoped ==
  ASSUME Types, Types', Safe, Scoped, NEW p \in Procs, NEW mode \in {"fast", "full"},
         Verify(p, mode)
  PROVE  Scoped'
<1> DEFINE row == [status |-> "RUNNING", mode |-> mode, head |-> head, patch |-> tree,
                   scope |-> scope.approved]
           o   == IF Admits(mode) THEN "pass" ELSE "rejected"
           m   == [Idle EXCEPT !.check = Len(checks) + 1, !.outcome = o]
<1>1. /\ UNCHANGED <<view, scope>> /\ checks' = Append(checks, row) /\ Acquirable
      /\ Begin(p, "check_event", m) /\ view.phase = "ACTIVE"
  BY DEF Verify, Begins, events
<1>2. row.scope = scope.approved
  OBVIOUS
<1>3. m.check = Len(checks) + 1
  <2> HIDE DEF o
  <2> QED BY DEF Idle
<1> HIDE DEF m, row
<1>4. checks'[Len(checks) + 1] = row /\ Len(checks') = Len(checks) + 1
  BY <1>1, TypeParts DEF StoreTypes, CheckTypes
<1>5. Moves(p, "check_event", m)
  BY <1>1, Began
<1>6. ASSUME NEW q \in Procs PROVE ChecksLast(pc[q], loc[q])'
  <2>1. CASE q = p
    <3>1. loc'[q].check = Len(checks) + 1
      BY <1>3, <1>5, <2>1 DEF Moves
    <3> QED BY <1>1, <1>2, <1>4, <3>1 DEF ChecksLast
  <2>2. CASE q # p
    BY <1>1, <1>5, <2>2, NobodyChecks DEF Moves, ChecksLast
  <2> QED BY <2>1, <2>2
<1> QED BY <1>1, <1>6 DEF Scoped

\* What a command that checks relies on.
LEMMA CheckerFacts ==
  ASSUME Types, Safe, Scoped, NEW p \in Procs, pc[p] \in CheckLabels
  PROVE  /\ pc[p] \in Holding /\ view.phase = "ACTIVE" /\ loc[p].check \in DOMAIN checks
         /\ loc[p].check = Len(checks) /\ checks[loc[p].check].scope = scope.approved
<1>1. pc[p] \in Holding
  BY DEF Holding, Labels, CheckLabels, Checking
<1>2. Relies(pc[p], loc[p])
  BY <1>1, Lockers
<1>3. loc[p].check \in DOMAIN checks
  BY Current DEF Remembers
<1> QED BY <1>1, <1>2, <1>3 DEF Relies, Scoped, ChecksLast

LEMMA CheckSavedScoped ==
  ASSUME Types, Types', Safe, Scoped, NEW p \in Procs, CheckSaved(p)
  PROVE  Scoped'
<1>0. PICK i : i = loc[p].check
  OBVIOUS
<1> DEFINE row == [checks[i] EXCEPT !.status = IF loc[p].outcome = "pass"
                                               THEN "PASSED" ELSE "FAILED"]
<1>1. /\ UNCHANGED <<view, scope>> /\ checks' = [checks EXCEPT ![i] = row]
      /\ pc[p] = "check_save" /\ Moves(p, "check_done", loc[p])
  BY <1>0, Went DEF CheckSaved, events
<1>2. /\ pc[p] \in Holding /\ view.phase = "ACTIVE" /\ i \in DOMAIN checks
      /\ i = Len(checks) /\ checks[i].scope = scope.approved
  BY <1>0, <1>1, CheckerFacts DEF CheckLabels, Checking
<1>3. checks \in Seq(CheckRows) /\ checks[i] \in CheckRows
  BY <1>2, TypeParts DEF StoreTypes, CheckTypes
<1>4. row.scope = checks[i].scope
  BY <1>3 DEF CheckRows
<1> HIDE DEF row
<1>5. checks'[i] = row /\ Len(checks') = Len(checks)
  BY <1>1, <1>2, <1>3
<1>6. ASSUME NEW q \in Procs PROVE ChecksLast(pc[q], loc[q])'
  <2>1. CASE q = p
    <3>1. loc'[q].check = i
      BY <1>0, <1>1, <2>1 DEF Moves
    <3> QED BY <1>1, <1>2, <1>4, <1>5, <3>1 DEF ChecksLast
  <2>2. CASE q # p
    BY <1>1, <1>2, <2>2, NobodyChecks DEF Moves, ChecksLast
  <2> QED BY <2>1, <2>2
<1> QED BY <1>1, <1>2, <1>6 DEF Scoped

LEMMA CheckingScoped ==
  ASSUME Types, Types', Scoped, NEW p \in Procs,
         \/ CheckStarted(p) \/ CheckEnded(p)
         \/ \E o \in {"pass", "retry_writer", "no_retry"} : RunChecks(p, o)
  PROVE  Scoped'
<1> USE DEF CheckStarted, CheckEnded, RunChecks
<1>1. UNCHANGED <<checks, scope>>
  BY DEF rows
<1>2. view'.phase = view.phase
  BY NextPhase DEF events
<1>3. pc[p] \in CheckLabels /\ pc[p] \notin Rescoping
  BY DEF CheckLabels, Checking, Rescoping
<1>4. ChecksLast(pc[p], loc[p])
  BY DEF Scoped
<1>5. \E m : \E l \in CheckLabels : Moves(p, l, m) /\ m.check = loc[p].check
  <2>1. CASE CheckStarted(p) \/ CheckEnded(p)
    BY <2>1, Went DEF CheckLabels, Checking
  <2>2. ASSUME NEW o \in {"pass", "retry_writer", "no_retry"}, RunChecks(p, o)
        PROVE  \E m : \E l \in CheckLabels : Moves(p, l, m) /\ m.check = loc[p].check
    <3> DEFINE m == [loc[p] EXCEPT !.outcome = o]
    <3>1. m.check = loc[p].check
      BY Current DEF Memories
    <3> HIDE DEF m
    <3>2. Moves(p, "check_save", m)
      BY <2>2, Moved DEF Goto, m
    <3> QED BY <3>1, <3>2 DEF CheckLabels, Checking
  <2> QED BY <2>1, <2>2
<1>6. ASSUME NEW m, NEW l, m.check = loc[p].check PROVE ChecksLast(l, m)
  BY <1>3, <1>4, <1>6 DEF ChecksLast
<1> QED BY <1>1, <1>2, <1>3, <1>5, <1>6, ScopedMove

\* The full check that passed is the last one.
LEMMA ConcludeScoped ==
  ASSUME Types, Types', Safe, Evidence, Scoped, NEW p \in Procs, Conclude(p)
  PROVE  Scoped'
<1>1. UNCHANGED <<checks, scope>> /\ Moves(p, "idle", Idle)
  BY Finished DEF Conclude
<1>2. pc[p] = "accept" /\ pc[p] \in CheckLabels /\ pc[p] \notin Rescoping
  BY DEF Conclude, CheckLabels, Rescoping
<1>3. \A m : ChecksLast("idle", m)
  BY DEF ChecksLast, CheckLabels, Checking
<1>4. CASE view' = view
  BY <1>1, <1>2, <1>3, <1>4, ScopedMove
<1>5. CASE loc[p].outcome = "pass" /\ Check(p).mode = "full"
  <2>1. /\ loc[p].check = Len(checks) /\ loc[p].check \in DOMAIN checks
        /\ checks[loc[p].check].scope = scope.approved
    BY <1>2, CheckerFacts
  <2>2. Len(checks) \in FullPassed
    BY <1>2, <1>5, <2>1 DEF Evidence, Works, FullPassed, Check
  <2>3. /\ Latest(FullPassed) \in FullPassed /\ \A i \in FullPassed : i <= Len(checks)
        /\ FullPassed \subseteq Nat
    BY <2>2, LatestPassed, TypeParts DEF FullPassed, StoreTypes, CheckTypes
  <2>4. \A i \in FullPassed : i <= Latest(FullPassed)
    BY <2>2, <2>3 DEF Latest
  <2>5. Latest(FullPassed) = Len(checks)
    <3>1. PICK x, n : x = Latest(FullPassed) /\ n = Len(checks)
      OBVIOUS
    <3>2. x \in Nat /\ n \in Nat /\ x <= n /\ n <= x
      BY <2>2, <2>3, <2>4, <3>1
    <3> QED BY <3>1, <3>2
  <2>6. PassedInScope'
    BY <1>1, <2>1, <2>2, <2>5, SamePassed DEF PassedInScope
  <2>7. ASSUME NEW q \in Procs PROVE ChecksLast(pc[q], loc[q])'
    <3>1. ChecksLast(pc[q], loc[q])
      BY DEF Scoped
    <3> QED BY <1>1, <1>3, <3>1, SamePassed DEF Moves
  <2> QED BY <2>6, <2>7 DEF Scoped
<1> QED BY <1>4, <1>5 DEF Conclude

LEMMA NextScoped ==
  ASSUME Types, Types', Evidence, Locked, NoFaults => Scoped, [Next]_vars
  PROVE  (NoFaults => Scoped)'
<1>1. regime' = regime
  BY DEF Next, vars
<1> SUFFICES ASSUME NoFaults PROVE Scoped'
  BY <1>1 DEF NoFaults
<1>2. Safe
  BY FaultFree DEF Locked
<1>3. ASSUME NEW p \in Procs, Command(p) PROVE Scoped'
  BY <1>2, <1>3, ScopedCommands, VerifyScoped, ScopedSays DEF Command
<1>4. ASSUME NEW p \in Procs, Step(p) PROVE Scoped'
  <2>1. CASE WriterStep(p)
    BY <2>1, ScopedWriter
  <2>2. CASE CheckStep(p)
    BY <1>2, <2>2, CheckingScoped, CheckSavedScoped, ConcludeScoped DEF CheckStep
  <2>3. CASE OtherStep(p)
    BY <1>2, <2>3, ScopedOthers, ApproveScoped DEF OtherStep
  <2> QED BY <1>4, <2>1, <2>2, <2>3 DEF Step
<1>5. CASE Edit \/ UNCHANGED vars
  <2>1. UNCHANGED <<view, checks, scope, pc, loc>>
    BY <1>5 DEF Edit, vars, rows, events
  <2> QED BY <2>1, ScopedStill
<1> QED BY <1>3, <1>4, <1>5, FaultFree DEF Next

LEMMA InitScoped == Init => Scoped
BY DEF Init, Scoped, ChecksLast, CheckLabels, Checking

-----------------------------------------------------------------------------
(* The properties.                                                         *)

RunsInv == Ends /\ (NoFaults => Line) /\ (NoFaults => Scoped)

LEMMA RunsInductive == Spec => [](IInv /\ RunsInv)
<1>1. Init => RunsInv
  BY InitEnds, InitLine, InitScoped DEF RunsInv
<1>2. IInv /\ RunsInv /\ [Next]_vars => RunsInv'
  BY NextTypes, NextEnds, NextLine, NextScoped DEF IInv, RunsInv
<1> QED BY <1>1, <1>2, Inductive, PTL DEF Spec

\* The log of a request is readable unless a lease is stolen; without faults
\* but edits the live Writer command has the active run; and an active run can
\* end unless a command dies or a transaction fails.
THEOREM ProjectionStaysSound == Spec => []ProjectionIsSound
<1>1. IInv => EventsProject
  BY DEF IInv, Locked, Safe, EventsProject
<1>2. RunsInv => WriterIsActive
  <2> SUFFICES ASSUME NoFaults, Line, NEW p \in Procs, ~ Cancelled(p),
                      pc[p] \in {"backend", "compare", "apply", "applied", "complete"}
               PROVE  view.writer = loc[p].run
    BY DEF RunsInv, WriterIsActive
  <2>1. Serves(pc[p], loc[p])
    BY DEF Line, AllServe
  <2> QED BY <2>1 DEF Serves, Cancelled, WriterLabels
<1>3. RunsInv => ActiveRunCanEnd
  BY DEF RunsInv, Ends, NoStop, Active, RunEnds, CheckEnds, Ending, CheckingIt,
         ActiveRunCanEnd
<1> QED BY <1>1, <1>2, <1>3, RunsInductive, PTL DEF ProjectionIsSound

\* A VERIFIED request stands on one history of Writer runs, whose last result
\* was committed and passed a full check, under the scope in effect.
THEOREM VerifiedStandsAlways == Spec => []VerifiedStands
<1>1. IInv => VerifiedIsTheWriters
  BY DEF IInv, Locked, Safe, VerifiedIsSound, VerifiedIsTheWriters, Stands, IsChecked
<1>2. RunsInv => RunsAreOneHistory
  BY DEF RunsInv, Line, OneHistory, Continues, RunsAreOneHistory
<1>3. RunsInv => VerifiedUnderScope
  BY DEF RunsInv, Scoped, Rescoping, PassedInScope, VerifiedUnderScope
<1> QED BY <1>1, <1>2, <1>3, RunsInductive, PTL DEF VerifiedStands

=============================================================================
