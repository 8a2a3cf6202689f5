---------------------------- MODULE ServicesProofs ----------------------------
(***************************************************************************)
(* Proofs about the services, for every value of their constants.  Each    *)
(* section is about one component, whose operators carry its letter; the   *)
(* behaviours are those of Services, where it may rest.                    *)
(***************************************************************************)
EXTENDS Services, FiniteSetTheorems, WellFoundedInduction, TLAPS

\* A step of the composition is a step of each component or leaves it alone.
LEMMA Steps ==
  ASSUME [Next]_vars
  PROVE  /\ [M!Next]_(M!mvars) /\ [S!Next]_(S!svars) /\ [N!Next]_(N!mmvars)
         /\ [W!Next]_(W!wvars) /\ [O!Next]_(O!osvars) /\ [E!Next]_(E!evvars)
<1> USE DEF vars, measurement, study, broker, notes, daemon, driving, evaluating
<1>1. [M!Next]_(M!mvars)
  BY DEF Next, M!mvars, M!repo, M!study
<1>2. [S!Next]_(S!svars)
  BY DEF Next, S!svars, S!disk, S!rows
<1>3. [N!Next]_(N!mmvars)
  BY DEF Next, N!mmvars, N!files
<1>4. [W!Next]_(W!wvars)
  BY DEF Next, W!wvars
<1>5. [O!Next]_(O!osvars)
  BY DEF Next, O!osvars, O!records, O!candidate
<1>6. [E!Next]_(E!evvars)
  BY DEF Next, E!evvars, E!files
<1> QED BY <1>1, <1>2, <1>3, <1>4, <1>5, <1>6

\* A set of positions has a last one.
LEMMA LastExists ==
  ASSUME NEW n \in Nat, NEW T, T \subseteq 1 .. n, T # {}
  PROVE  \E i \in T : \A j \in T : j <= i
<1> DEFINE D == {k \in Nat : \E i \in T : k = n - i}
<1>1. D \subseteq Nat /\ D # {}
  <2>1. PICK i \in T : i \in 1 .. n
    OBVIOUS
  <2>2. n - i \in D
    BY <2>1
  <2> QED BY <2>2
<1>2. PICK k \in D : \A y \in D : ~ (<<y, k>> \in OpToRel(<, Nat))
  <2> HIDE DEF D
  <2> QED BY <1>1, WFMin, NatLessThanWellFounded
<1>3. \A y \in D : ~ (y < k)
  BY <1>1, <1>2 DEF OpToRel
<1>4. PICK i \in T : k = n - i
  OBVIOUS
<1>5. ASSUME NEW j \in T PROVE j <= i
  <2>1. n - j \in D
    OBVIOUS
  <2>2. ~ (n - j < n - i) /\ i \in Int /\ j \in Int
    <3> HIDE DEF D
    <3> QED BY <1>3, <1>4, <2>1
  <2> QED BY <2>2
<1> QED BY <1>5

-----------------------------------------------------------------------------
(* WorkerDaemon.  A command that starts or stops a worker has it cornered: *)
(* it knows the pid of the only worker there can be.                       *)

WTypes ==
  /\ W!TypeOK
  /\ wpc \in [Procs -> {"idle", "spawn", "write", "kill", "unlink"}]
  /\ wloc \in [Procs -> Pids \cup {NoPid}]

WIdle(p) == wpc[p] = "idle"

Cornered ==
  wregime = {} =>
    /\ \A p, q \in Procs : WIdle(p) \/ WIdle(q) \/ p = q
    /\ (\A p \in Procs : WIdle(p)) => workers \subseteq {pidfile}
    /\ \A p \in Procs : wpc[p] \in {"spawn", "unlink"} => workers = {}
    /\ \A p \in Procs : wpc[p] \in {"write", "kill"} => workers \subseteq {wloc[p]}

WInv == WTypes /\ Cornered

LEMMA WInit == W!Init => WInv
BY ServicesAssumption DEF W!Init, WInv, WTypes, W!TypeOK, Cornered, WIdle

LEMMA WStep ==
  ASSUME WInv, [W!Next]_(W!wvars)
  PROVE  WInv'
<1> USE DEF WInv, WTypes, W!TypeOK, Cornered, WIdle, W!Goto
<1>1. ASSUME NEW p \in Procs, W!StartBegins(p) PROVE WInv'
  BY <1>1, ServicesAssumption DEF W!StartBegins, W!Begins, W!Running
<1>2. ASSUME NEW p \in Procs, NEW pid \in Pids, W!Spawn(p, pid) PROVE WInv'
  BY <1>2, ServicesAssumption DEF W!Spawn
<1>3. ASSUME NEW p \in Procs, W!WritePid(p) PROVE WInv'
  BY <1>3, ServicesAssumption DEF W!WritePid
<1>4. ASSUME NEW p \in Procs, W!StopBegins(p) PROVE WInv'
  BY <1>4, ServicesAssumption DEF W!StopBegins, W!Begins
<1>5. ASSUME NEW p \in Procs, W!Kill(p) PROVE WInv'
  BY <1>5, ServicesAssumption DEF W!Kill
<1>6. ASSUME NEW p \in Procs, W!Unlink(p) PROVE WInv'
  BY <1>6, ServicesAssumption DEF W!Unlink
<1>7. ASSUME NEW p \in Procs, W!Dies(p) PROVE WInv'
  BY <1>7, ServicesAssumption DEF W!Dies
<1>8. ASSUME NEW pid \in Pids, W!WorkerEnds(pid) \/ W!OtherStarts(pid) \/ W!OtherEnds(pid)
      PROVE  WInv'
  BY <1>8 DEF W!WorkerEnds, W!OtherStarts, W!OtherEnds
<1>9. CASE UNCHANGED W!wvars
  BY <1>9 DEF W!wvars
<1> QED BY <1>1, <1>2, <1>3, <1>4, <1>5, <1>6, <1>7, <1>8, <1>9 DEF W!Next

\* While commands follow one another, there is one worker at most and the pid
\* file names it between commands, whatever happens to pids and processes
\* (start_worker, stop_worker, worker_status).
THEOREM WorkerStaysNamed == Spec => []WorkerIsNamed
<1>1. Init => WInv
  BY WInit DEF Init
<1>2. WInv /\ [Next]_vars => WInv'
  BY WStep, Steps
<1>3. WInv => WorkerIsNamed
  BY DEF WInv, WTypes, Cornered, WIdle, WorkerIsNamed, W!WorkerIsNamed
<1> QED BY <1>1, <1>2, <1>3, PTL DEF Spec

\* A stop that comes to its end has left no worker: whoever unlinks the pid
\* file is the only command, and only a command starts a worker (stop_worker).
THEOREM StopStandsAlone == Spec => W!StopLeavesNone
<1>1. Init => WInv
  BY WInit DEF Init
<1>2. WInv /\ [Next]_vars => WInv'
  BY WStep, Steps
<1>3. ASSUME WInv, [Next]_vars
      PROVE  [wregime = {} /\ (\E p \in Procs : wpc[p] = "unlink" /\ wpc'[p] = "idle")
                => workers' = {}]_(W!wvars)
  <2> SUFFICES ASSUME wregime = {}, NEW p \in Procs, wpc[p] = "unlink", wpc'[p] = "idle",
                      W!Next
               PROVE  workers' = {}
    BY <1>3, Steps DEF W!wvars
  <2>1. workers = {} /\ \A q \in Procs : wpc[q] # "spawn"
    BY <1>3 DEF WInv, Cornered, WIdle
  <2>2. workers' \subseteq workers
    BY <2>1 DEF W!Next, W!StartBegins, W!WritePid, W!StopBegins, W!Kill, W!Unlink, W!Dies,
       W!Spawn, W!WorkerEnds, W!OtherStarts, W!OtherEnds
  <2> QED BY <2>1, <2>2
<1> QED BY <1>1, <1>2, <1>3, PTL DEF Spec, W!StopLeavesNone

-----------------------------------------------------------------------------
(* Memory.  A command that collects knows an accepted task, one that       *)
(* proposes a digest, and one that approves has appended its section.      *)

NLabels == {"idle", "record", "artifacts", "packet", "propose", "patch", "status", "move"}
NTasks  == [state : {"other", "accepted", "archived"},
            result : {"none", "accepted", "abandoned"}, moved : BOOLEAN]
NMemories == [task : N!Tasks \cup {None}, moved : BOOLEAN, packet : N!Packets]
NSections == [task : N!Tasks, text : BOOLEAN]

NTypes ==
  /\ task \in [N!Tasks -> NTasks]
  /\ raw \in [N!Tasks -> N!Packets \cup {None, HalfMade}]
  /\ digest \in [N!Tasks -> N!Packets \cup {None}]
  /\ proposal \in [N!Tasks -> N!Proposals \cup {None}]
  /\ rejected \in [N!Tasks -> N!Proposals \cup {None}]
  /\ active \in Seq(NSections) /\ Len(active) <= MaxApprovals
  /\ mpc \in [Procs -> NLabels]
  /\ mloc \in [Procs -> NMemories]
  /\ \A p \in Procs : N!Mine(p) = None <=> mpc[p] = "idle"

OneHand ==
  N!Alone => \A p, q \in Procs : mpc[p] = "idle" \/ mpc[q] = "idle" \/ p = q

\* While a command collects alone, the task stays what it found.
Collecting ==
  N!Alone => \A p \in Procs :
    /\ mpc[p] = "record" => N!Accepted(task[N!Mine(p)])
    /\ mpc[p] = "artifacts" => /\ mloc[p].packet.accepted
                               /\ mloc[p].moved = task[N!Mine(p)].moved
    /\ mpc[p] = "packet" => mloc[p].packet.full /\ mloc[p].packet.accepted

\* A proposal is made of a digest, and digests are never taken away.
Digested ==
  /\ \A t \in N!Tasks : proposal[t] # None => digest[t] # None
  /\ \A p \in Procs : mpc[p] = "propose" => digest[N!Mine(p)] # None
  /\ \A i \in DOMAIN active : digest[active[i].task] # None

\* A proposal without its text is still being written.
Texts ==
  mregime.faults = {} =>
    /\ \A t \in N!Tasks : proposal[t] # None /\ ~ proposal[t].text =>
         \E p \in Procs : mpc[p] = "patch" /\ N!Mine(p) = t
    /\ \A i \in DOMAIN active : active[i].text

Appended(t) == \E i \in DOMAIN active : active[i].task = t

Approving ==
  /\ \A p \in Procs : mpc[p] = "status" => Appended(N!Mine(p))
  /\ \A t \in N!Tasks :
       proposal[t] # None /\ proposal[t].status = "approved" => Appended(t)

NInv == /\ NTypes /\ OneHand /\ Collecting /\ N!PacketsAreAccepted
        /\ Digested /\ Texts /\ Approving /\ N!RejectedHasGone

LEMMA NInit == N!Init => NInv
<1> SUFFICES ASSUME N!Init PROVE NInv
  OBVIOUS
<1> USE ServicesAssumption DEF N!Init, N!Idle
<1>1. NTypes
  BY DEF NTypes, NLabels, NTasks, NMemories, N!Packets, N!Mine
<1>2. OneHand /\ Collecting /\ Digested /\ Approving /\ Texts
  BY DEF OneHand, Collecting, Digested, Approving, Texts
<1>3. N!PacketsAreAccepted /\ N!RejectedHasGone
  BY DEF N!PacketsAreAccepted, N!RejectedHasGone
<1> QED BY <1>1, <1>2, <1>3 DEF NInv

\* A command that begins does so alone, if commands do not overlap.
LEMMA NAsks ==
  ASSUME NInv, NEW p \in Procs, NEW t \in N!Tasks, NEW label \in NLabels \ {"idle"},
         N!Asks(p, t, label), mregime' = mregime
  PROVE  /\ mpc' = [mpc EXCEPT ![p] = label] /\ mpc' \in [Procs -> NLabels]
         /\ mloc' = [mloc EXCEPT ![p] = [N!Idle EXCEPT !.task = t]]
         /\ mloc' \in [Procs -> NMemories]
         /\ \A q \in Procs : N!Mine(q)' = None <=> mpc'[q] = "idle"
         /\ N!Mine(p)' = t /\ mpc[p] = "idle"
         /\ N!Alone => \A q \in Procs : mpc[q] = "idle"
         /\ OneHand'
<1> USE ServicesAssumption DEF NInv, NTypes, N!Asks, N!Goto, N!Mine, N!Idle
<1> DEFINE r == [N!Idle EXCEPT !.task = t]
<1>1. /\ r \in NMemories
      /\ r.task = t
  BY DEF N!Packets, NMemories
<1> HIDE DEF r
<1>2. mpc[p] = "idle" /\ mpc' = [mpc EXCEPT ![p] = label] /\ mloc' = [mloc EXCEPT ![p] = r]
  BY DEF r
<1>3. N!Alone => \A q \in Procs : mpc[q] = "idle"
  BY DEF N!MayBegin, N!Calm
<1>4. OneHand'
  BY <1>2, <1>3 DEF OneHand, N!Alone
<1>5. mpc' \in [Procs -> NLabels] /\ \A q \in Procs : N!Mine(q)' = None <=> mpc'[q] = "idle"
  BY <1>1, <1>2 DEF N!Tasks
<1>6. mloc' = [mloc EXCEPT ![p] = [N!Idle EXCEPT !.task = t]]
  BY <1>2 DEF r
<1>7. /\ mloc' \in [Procs -> NMemories]
      /\ N!Mine(p)' = t
  <2>1. mloc \in [Procs -> NMemories]
    OBVIOUS
  <2> HIDE ServicesAssumption DEF NInv, NTypes, N!Asks, N!Goto, N!Idle
  <2> QED BY <1>1, <1>2, <2>1
<1> HIDE DEF NInv, NTypes, N!Asks, N!Goto, N!Mine, N!Idle
<1> QED BY <1>1, <1>2, <1>3, <1>4, <1>5, <1>6, <1>7

\* A command that ends forgets everything.
LEMMA NDone ==
  ASSUME NInv, NEW p \in Procs, N!Done(p), mregime' = mregime
  PROVE  /\ mpc' = [mpc EXCEPT ![p] = "idle"] /\ mpc' \in [Procs -> NLabels]
         /\ mloc' = [mloc EXCEPT ![p] = N!Idle]
         /\ mloc' \in [Procs -> NMemories]
         /\ \A q \in Procs : N!Mine(q)' = None <=> mpc'[q] = "idle"
         /\ OneHand'
<1> USE ServicesAssumption DEF NInv, NTypes, N!Done, N!Goto, N!Mine, N!Idle
<1>1. N!Idle \in NMemories
  BY DEF N!Packets, NMemories
<1> QED BY <1>1 DEF OneHand, N!Alone, NLabels

\* A step of a command that leaves the files keeps their types.
LEMMA NFilesStay ==
  ASSUME NTypes, UNCHANGED <<task, raw, digest, proposal, rejected, active>>,
         mpc' \in [Procs -> NLabels], mloc' \in [Procs -> NMemories],
         \A q \in Procs : N!Mine(q)' = None <=> mpc'[q] = "idle"
  PROVE  NTypes'
BY DEF NTypes

LEMMA NTaskMoves ==
  ASSUME NInv, NEW t \in N!Tasks,
         \/ \E s \in {"accepted", "other"} : N!Gate(t, s)
         \/ \E r \in {"accepted", "abandoned"} : N!Archive(t, r)
         \/ N!ArchiveMoves(t)
  PROVE  NInv'
<1>0. task' \in [N!Tasks -> NTasks]
  <2>0. task \in [N!Tasks -> NTasks]
    BY DEF NInv, NTypes
  <2>1. CASE \E s \in {"accepted", "other"} : N!Gate(t, s)
    BY <2>0, <2>1 DEF N!Gate, NTasks
  <2>2. CASE \E r \in {"accepted", "abandoned"} : N!Archive(t, r)
    <3>1. PICK r \in {"accepted", "abandoned"} : N!Archive(t, r)
      BY <2>2
    <3>2. task' = [task EXCEPT ![t] = [task[t] EXCEPT !.state = "archived", !.result = r]]
      BY <3>1 DEF N!Archive
    <3>3. task[t] \in NTasks
      BY <2>0
    <3>4. [task[t] EXCEPT !.state = "archived", !.result = r] \in NTasks
      BY <3>3 DEF NTasks
    <3> QED BY <2>0, <3>2, <3>4
  <2>3. CASE N!ArchiveMoves(t)
    <3>1. task' = [task EXCEPT ![t] = [task[t] EXCEPT !.moved = TRUE]]
      BY <2>3 DEF N!ArchiveMoves
    <3>2. task[t] \in NTasks
      BY <2>0
    <3>3. [task[t] EXCEPT !.moved = TRUE] \in NTasks
      BY <3>2 DEF NTasks
    <3> QED BY <2>0, <3>1, <3>3
  <2> QED BY <2>1, <2>2, <2>3
<1>1. /\ task' \in [N!Tasks -> NTasks]
      /\ UNCHANGED <<mregime, raw, digest, proposal, rejected, active, worker, mpc, mloc>>
      /\ N!Alone => \A p \in Procs : mpc[p] = "idle"
  BY <1>0 DEF N!Gate, N!Archive, N!ArchiveMoves, N!files, N!MayBegin, N!Calm
<1>2. NTypes'
  BY <1>1 DEF NInv, NTypes, N!Mine
<1>3. OneHand' /\ Collecting'
  BY <1>1 DEF NInv, OneHand, Collecting, N!Alone
<1>4. Digested' /\ Texts' /\ Approving'
  BY <1>1 DEF NInv, Digested, Texts, Approving, Appended, N!Mine
<1>5. N!PacketsAreAccepted' /\ N!RejectedHasGone'
  BY <1>1 DEF NInv, N!PacketsAreAccepted, N!RejectedHasGone, N!Alone, N!Mine
<1> QED BY <1>2, <1>3, <1>4, <1>5 DEF NInv

LEMMA NCollects ==
  ASSUME NInv, NEW p \in Procs,
         \/ \E t \in N!Tasks : N!CollectBegins(p, t)
         \/ N!CollectRecord(p) \/ N!CollectMkdir(p) \/ N!CollectPacket(p)
  PROVE  NInv'
<1>1. CASE \E t \in N!Tasks : N!CollectBegins(p, t)
  <2>1. PICK t \in N!Tasks : N!CollectBegins(p, t)
    BY <1>1
  <2>2. UNCHANGED <<mregime, task, raw, digest, proposal, rejected, active>>
    BY <2>1 DEF N!CollectBegins, N!files
  <2>3. N!Asks(p, t, "record") /\ "record" \in NLabels \ {"idle"} /\ N!Accepted(task[t])
    BY <2>1 DEF N!CollectBegins, N!Collectable, NLabels
  <2>4. /\ mpc' = [mpc EXCEPT ![p] = "record"] /\ mpc' \in [Procs -> NLabels]
        /\ mloc' = [mloc EXCEPT ![p] = [N!Idle EXCEPT !.task = t]]
        /\ mloc' \in [Procs -> NMemories]
        /\ \A q \in Procs : N!Mine(q)' = None <=> mpc'[q] = "idle"
        /\ N!Mine(p)' = t /\ mpc[p] = "idle"
        /\ N!Alone => \A q \in Procs : mpc[q] = "idle"
        /\ OneHand'
    BY <2>2, <2>3, NAsks
  <2>5. NTypes'
    BY <2>2, <2>4 DEF NInv, NTypes
  <2>6. Collecting'
    BY <2>2, <2>3, <2>4 DEF NInv, NTypes, Collecting, N!Alone, N!Mine
  <2>7. Digested' /\ Texts' /\ Approving'
    BY <2>2, <2>4 DEF NInv, NTypes, Digested, Texts, Approving, Appended, N!Mine
  <2>8. N!PacketsAreAccepted' /\ N!RejectedHasGone'
    BY <2>2, <2>4 DEF NInv, NTypes, N!PacketsAreAccepted, N!RejectedHasGone, N!Alone, N!Mine
  <2> QED BY <2>4, <2>5, <2>6, <2>7, <2>8 DEF NInv
<1>2. CASE N!CollectRecord(p)
  <2> USE DEF N!CollectRecord, N!Goto, N!files, N!Mine
  <2>0. N!Accepted(task[mloc[p].task]) \in BOOLEAN
    BY DEF N!Accepted
  <2>1. /\ mloc'[p] \in NMemories /\ mloc'[p].task = mloc[p].task
        /\ mloc'[p].packet.accepted = N!Accepted(task[mloc[p].task])
        /\ mloc'[p].moved = task[mloc[p].task].moved
    <3>1. mloc[p] \in NMemories /\ mloc \in [Procs -> NMemories]
      BY DEF NInv, NTypes
    <3>2. mloc[p].task \in N!Tasks
      BY <1>2, <3>1 DEF NInv, NTypes, NMemories
    <3>3. task[mloc[p].task].moved \in BOOLEAN
      BY <3>2 DEF NInv, NTypes, NTasks
    <3>4. mloc'[p] = [mloc[p] EXCEPT !.packet.accepted = N!Accepted(task[mloc[p].task]),
                                     !.moved = task[mloc[p].task].moved]
      BY <1>2, <3>1
    <3>5. mloc[p] \in [task : N!Tasks \cup {None}, moved : BOOLEAN,
                       packet : [accepted : BOOLEAN, full : BOOLEAN]]
      BY <3>1 DEF NMemories, N!Packets
    <3>6. mloc'[p] = [task |-> mloc[p].task, moved |-> task[mloc[p].task].moved,
                      packet |-> [accepted |-> N!Accepted(task[mloc[p].task]),
                                  full |-> mloc[p].packet.full]]
      BY <3>4, <3>5
    <3>7. mloc[p].task \in N!Tasks \cup {None} /\ mloc[p].packet.full \in BOOLEAN
      BY <3>5
    <3> QED BY <2>0, <3>3, <3>6, <3>7 DEF NMemories, N!Packets
  <2>2. NTypes'
    <3>1. UNCHANGED <<task, raw, digest, proposal, rejected, active>>
      BY <1>2
    <3>2. mpc' = [mpc EXCEPT ![p] = "artifacts"] /\ mpc[p] = "record"
      BY <1>2
    <3>3. \A q \in Procs \ {p} : mloc'[q] = mloc[q]
      BY <1>2 DEF NInv, NTypes
    <3>4. DOMAIN mloc' = Procs /\ mloc' = [q \in Procs |-> mloc'[q]]
      BY <1>2 DEF NInv, NTypes
    <3>5. mloc' \in [Procs -> NMemories]
      BY <2>1, <3>3, <3>4 DEF NInv, NTypes
    <3>6. mpc' \in [Procs -> NLabels]
      BY <3>2 DEF NInv, NTypes, NLabels
    <3>7. \A q \in Procs : N!Mine(q)' = None <=> mpc'[q] = "idle"
      BY <2>1, <3>2, <3>3 DEF NInv, NTypes
    <3>8. NTypes
      BY DEF NInv
    <3> HIDE DEF N!Mine
    <3> QED BY <3>1, <3>5, <3>6, <3>7, <3>8, NFilesStay
  <2>3. OneHand' /\ Collecting'
    BY <1>2, <2>1 DEF NInv, NTypes, OneHand, Collecting, N!Alone
  <2>4. Digested' /\ Texts' /\ Approving'
    BY <1>2, <2>1 DEF NInv, NTypes, Digested, Texts, Approving, Appended
  <2>5. N!PacketsAreAccepted' /\ N!RejectedHasGone'
    BY <1>2, <2>1 DEF NInv, NTypes, N!PacketsAreAccepted, N!RejectedHasGone, N!Alone
  <2> QED BY <2>2, <2>3, <2>4, <2>5 DEF NInv
<1>3. CASE N!CollectMkdir(p)
  <2> USE DEF N!CollectMkdir, N!Goto, N!Mine
  <2>1. /\ mloc'[p] \in NMemories /\ mloc'[p].task = mloc[p].task
        /\ mloc'[p].packet.accepted = mloc[p].packet.accepted
        /\ mloc'[p].packet.full = (mloc[p].moved = task[mloc[p].task].moved)
    <3>1. mloc[p] \in NMemories /\ mloc \in [Procs -> NMemories]
      BY DEF NInv, NTypes
    <3>2. (mloc[p].moved = task[mloc[p].task].moved) \in BOOLEAN
      OBVIOUS
    <3>3. mloc'[p] = [mloc[p] EXCEPT !.packet.full = (mloc[p].moved = task[mloc[p].task].moved),
                                     !.moved = FALSE]
      BY <1>3, <3>1
    <3>4. mloc[p] \in [task : N!Tasks \cup {None}, moved : BOOLEAN,
                       packet : [accepted : BOOLEAN, full : BOOLEAN]]
      BY <3>1 DEF NMemories, N!Packets
    <3>5. mloc'[p] = [task |-> mloc[p].task, moved |-> FALSE,
                      packet |-> [accepted |-> mloc[p].packet.accepted,
                                  full |-> (mloc[p].moved = task[mloc[p].task].moved)]]
      BY <3>3, <3>4
    <3>6. mloc[p].task \in N!Tasks \cup {None} /\ mloc[p].packet.accepted \in BOOLEAN
      BY <3>4
    <3> QED BY <3>2, <3>5, <3>6 DEF NMemories, N!Packets
  <2>2. /\ raw' \in [N!Tasks -> N!Packets \cup {None, HalfMade}]
        /\ \A t \in N!Tasks : raw'[t] = raw[t] \/ raw'[t] = HalfMade
    <3>1. raw \in [N!Tasks -> N!Packets \cup {None, HalfMade}]
      BY DEF NInv, NTypes
    <3>2. raw' = [raw EXCEPT ![mloc[p].task] = IF @ = None THEN HalfMade ELSE @]
      BY <1>3
    <3> QED BY <3>1, <3>2
  <2>3. NTypes'
    <3>1. UNCHANGED <<task, digest, proposal, rejected, active>>
      BY <1>3
    <3>2. mpc' = [mpc EXCEPT ![p] = "packet"] /\ mpc[p] = "artifacts"
      BY <1>3
    <3>3. DOMAIN mloc' = Procs /\ mloc' = [q \in Procs |-> mloc'[q]]
      BY <1>3 DEF NInv, NTypes
    <3>4. \A q \in Procs \ {p} : mloc'[q] = mloc[q]
      BY <1>3 DEF NInv, NTypes
    <3>5. mloc' \in [Procs -> NMemories]
      BY <2>1, <3>3, <3>4 DEF NInv, NTypes
    <3>6. mpc' \in [Procs -> NLabels]
      BY <3>2 DEF NInv, NTypes, NLabels
    <3>7. \A q \in Procs : N!Mine(q)' = None <=> mpc'[q] = "idle"
      BY <2>1, <3>2, <3>4 DEF NInv, NTypes
    <3>8. NTypes
      BY DEF NInv
    <3> QED BY <2>2, <3>1, <3>5, <3>6, <3>7, <3>8 DEF NTypes
  <2>4. OneHand' /\ Collecting'
    <3>1. /\ mpc' = [mpc EXCEPT ![p] = "packet"] /\ mpc[p] = "artifacts"
          /\ mpc \in [Procs -> NLabels] /\ task' = task
          /\ N!Alone' <=> N!Alone
      BY <1>3 DEF NInv, NTypes, N!Alone
    <3>2. \A q \in Procs \ {p} : mpc'[q] = mpc[q] /\ mloc'[q] = mloc[q]
      BY <1>3 DEF NInv, NTypes
    <3>3. mpc'[p] = "packet"
      BY <3>1
    <3>4. OneHand'
      BY <3>1, <3>2, <3>3 DEF NInv, OneHand
    <3>5. N!Alone => mloc[p].packet.accepted /\ mloc[p].moved = task[mloc[p].task].moved
      BY <3>1 DEF NInv, Collecting
    <3>6. Collecting'
      BY <2>1, <3>1, <3>2, <3>3, <3>5 DEF NInv, Collecting
    <3> QED BY <3>4, <3>6
  <2>5. Digested' /\ Texts' /\ Approving'
    BY <1>3, <2>1 DEF NInv, NTypes, Digested, Texts, Approving, Appended
  <2>6. N!PacketsAreAccepted'
    BY <1>3, <2>2 DEF NInv, NTypes, N!PacketsAreAccepted, N!Alone
  <2>7. N!RejectedHasGone'
    BY <1>3, <2>1 DEF NInv, NTypes, N!RejectedHasGone
  <2> QED BY <2>3, <2>4, <2>5, <2>6, <2>7 DEF NInv
<1>4. CASE N!CollectPacket(p)
  <2> USE DEF N!CollectPacket
  <2>1. /\ mpc' = [mpc EXCEPT ![p] = "idle"] /\ mpc' \in [Procs -> NLabels]
        /\ mloc' = [mloc EXCEPT ![p] = N!Idle] /\ mloc' \in [Procs -> NMemories]
        /\ \A q \in Procs : N!Mine(q)' = None <=> mpc'[q] = "idle"
        /\ OneHand'
    BY <1>4, NDone
  <2>2. /\ raw' \in [N!Tasks -> N!Packets \cup {None, HalfMade}]
        /\ \A t \in N!Tasks : raw'[t] = raw[t] \/ raw'[t] = mloc[p].packet
    BY <1>4 DEF NInv, NTypes, NMemories
  <2>3. NTypes'
    BY <1>4, <2>1, <2>2 DEF NInv, NTypes
  <2>4. Collecting' /\ Digested'
    BY <1>4, <2>1 DEF NInv, NTypes, Collecting, Digested, N!Alone, N!Mine
  <2>5. Texts' /\ Approving' /\ N!RejectedHasGone'
    BY <1>4, <2>1 DEF NInv, NTypes, Texts, Approving, Appended, N!RejectedHasGone, N!Mine
  <2>6. N!PacketsAreAccepted'
    BY <1>4, <2>2 DEF NInv, NTypes, N!PacketsAreAccepted, Collecting, N!Alone
  <2> QED BY <2>1, <2>3, <2>4, <2>5, <2>6 DEF NInv
<1> QED BY <1>1, <1>2, <1>3, <1>4

LEMMA NDigests ==
  ASSUME NInv, NEW t, N!HasPacket(t) => N!Digests(t), ~ N!HasPacket(t) => digest' = digest,
         UNCHANGED <<mregime, task, raw, proposal, rejected, active, mpc, mloc>>
  PROVE  NInv'
<1>1. /\ digest' \in [N!Tasks -> N!Packets \cup {None}]
      /\ \A u \in N!Tasks : \/ digest'[u] = digest[u]
                            \/ digest'[u] = raw[u] /\ raw[u] \notin {None, HalfMade}
  BY DEF NInv, NTypes, N!HasPacket, N!Digests
<1>2. NTypes'
  BY <1>1 DEF NInv, NTypes, N!Mine
<1>3. OneHand' /\ Collecting' /\ Texts' /\ Approving' /\ N!RejectedHasGone'
  BY DEF NInv, OneHand, Collecting, Texts, Approving, Appended, N!RejectedHasGone, N!Alone, N!Mine
<1>4. Digested'
  <2>1. \A u \in N!Tasks : digest[u] # None => digest'[u] # None
    BY <1>1
  <2>2. \A p \in Procs : mpc[p] = "propose" => N!Mine(p) \in N!Tasks
    BY DEF NInv, NTypes, NMemories, N!Mine
  <2>3. \A i \in DOMAIN active : active[i].task \in N!Tasks
    <3>1. active \in Seq(NSections)
      BY DEF NInv, NTypes
    <3>2. \A i \in DOMAIN active : active[i] \in NSections
      BY <3>1
    <3> QED BY <3>2 DEF NSections
  <2> QED BY <2>1, <2>2, <2>3 DEF NInv, Digested, N!Mine
<1>5. N!PacketsAreAccepted'
  BY <1>1 DEF NInv, N!PacketsAreAccepted, N!Alone
<1> QED BY <1>2, <1>3, <1>4, <1>5 DEF NInv

LEMMA NWorks ==
  ASSUME NInv, N!Tick \/ N!WorkerStarts \/ \E t \in N!Tasks : N!Digest(t)
  PROVE  NInv'
<1>1. CASE N!Tick
  <2>1. PICK t : /\ N!HasPacket(t) => N!Digests(t)
                 /\ ~ N!HasPacket(t) => digest' = digest
                 /\ UNCHANGED <<mregime, task, raw, proposal, rejected, active, mpc, mloc>>
    BY <1>1 DEF N!Tick
  <2> QED BY <2>1, NDigests
<1>2. CASE N!WorkerStarts
  <2>1. UNCHANGED <<mregime, task, raw, digest, proposal, rejected, active, mpc, mloc>>
    BY <1>2 DEF N!WorkerStarts, N!files
  <2> QED BY <2>1 DEF NInv, NTypes, OneHand, Collecting, Digested, Texts, Approving, Appended,
          N!PacketsAreAccepted, N!RejectedHasGone, N!Alone, N!Mine
<1>3. CASE \E t \in N!Tasks : N!Digest(t)
  BY <1>3, NDigests DEF N!Digest
<1> QED BY <1>1, <1>2, <1>3

LEMMA MarkedProposal ==
  ASSUME NEW x \in N!Proposals, NEW s \in {"pending", "approved", "rejected"}
  PROVE  LET y == [x EXCEPT !.status = s]
         IN  y \in N!Proposals /\ y.status = s /\ y.text = x.text
BY DEF N!Proposals

LEMMA WrittenProposal ==
  ASSUME NEW x \in N!Proposals
  PROVE  LET y == [x EXCEPT !.text = TRUE]
         IN  y \in N!Proposals /\ y.status = x.status /\ y.text
BY DEF N!Proposals

LEMMA NMaintains ==
  ASSUME NInv, NEW p \in Procs,
         (\E t \in N!Tasks : N!MaintainBegins(p, t)) \/ N!MaintainWrites(p) \/ N!MaintainPatches(p)
  PROVE  NInv'
<1>1. CASE \E t \in N!Tasks : N!MaintainBegins(p, t)
  <2>1. PICK t \in N!Tasks : N!MaintainBegins(p, t)
    BY <1>1
  <2>2. UNCHANGED <<mregime, task, raw, digest, proposal, rejected, active>>
    BY <2>1 DEF N!MaintainBegins, N!files
  <2>3. N!Asks(p, t, "propose") /\ "propose" \in NLabels \ {"idle"} /\ digest[t] # None
    BY <2>1 DEF N!MaintainBegins, NLabels
  <2>4. /\ mpc' = [mpc EXCEPT ![p] = "propose"] /\ mpc' \in [Procs -> NLabels]
        /\ mloc' = [mloc EXCEPT ![p] = [N!Idle EXCEPT !.task = t]]
        /\ mloc' \in [Procs -> NMemories]
        /\ \A q \in Procs : N!Mine(q)' = None <=> mpc'[q] = "idle"
        /\ N!Mine(p)' = t /\ mpc[p] = "idle"
        /\ N!Alone => \A q \in Procs : mpc[q] = "idle"
        /\ OneHand'
    BY <2>2, <2>3, NAsks
  <2>5. NTypes'
    BY <2>2, <2>4 DEF NInv, NTypes
  <2>6. Collecting'
    BY <2>2, <2>4 DEF NInv, NTypes, Collecting, N!Alone, N!Mine
  <2>7. Digested' /\ Texts' /\ Approving'
    BY <2>2, <2>3, <2>4 DEF NInv, NTypes, Digested, Texts, Approving, Appended, N!Mine
  <2>8. N!PacketsAreAccepted' /\ N!RejectedHasGone'
    BY <2>2, <2>4 DEF NInv, NTypes, N!PacketsAreAccepted, N!RejectedHasGone, N!Alone, N!Mine
  <2> QED BY <2>4, <2>5, <2>6, <2>7, <2>8 DEF NInv
<1>2. CASE N!MaintainWrites(p)
  <2> USE DEF N!MaintainWrites, N!Goto
  <2>1. /\ mpc' = [mpc EXCEPT ![p] = "patch"] /\ mloc' = mloc
        /\ UNCHANGED <<mregime, task, raw, digest, rejected, active>>
    BY <1>2 DEF NInv, NTypes
  <2>2. N!Mine(p) \in N!Tasks
    BY <1>2 DEF NInv, NTypes, NMemories, N!Mine
  <2> DEFINE b == proposal[N!Mine(p)] # None /\ proposal[N!Mine(p)].text
             x == [status |-> "pending", text |-> b]
  <2>3. /\ proposal' = [proposal EXCEPT ![N!Mine(p)] = x]
        /\ x \in N!Proposals /\ x.status = "pending"
        /\ proposal[N!Mine(p)] # None /\ proposal[N!Mine(p)].text => x.text
    <3>1. proposal' = [proposal EXCEPT ![N!Mine(p)] = x]
      BY <1>2
    <3>2. b \in BOOLEAN
      OBVIOUS
    <3>3. x \in N!Proposals /\ x.status = "pending"
      BY <3>2 DEF N!Proposals
    <3>4. b => x.text
      OBVIOUS
    <3> QED BY <3>1, <3>3, <3>4
  <2> HIDE DEF x, b
  <2>4. NTypes'
    <3>1. mpc' \in [Procs -> NLabels] /\ mloc' \in [Procs -> NMemories]
      BY <2>1 DEF NInv, NTypes, NLabels
    <3>2. proposal \in [N!Tasks -> N!Proposals \cup {None}]
      BY DEF NInv, NTypes
    <3>3. proposal' \in [N!Tasks -> N!Proposals \cup {None}]
      BY <2>3, <3>2
    <3>4. \A q \in Procs : N!Mine(q)' = None <=> mpc'[q] = "idle"
      BY <1>2, <2>1 DEF NInv, NTypes, N!Mine
    <3> QED BY <2>1, <3>1, <3>3, <3>4 DEF NInv, NTypes
  <2>5. OneHand' /\ Collecting' /\ N!PacketsAreAccepted'
    BY <1>2, <2>1 DEF NInv, NTypes, OneHand, Collecting, N!PacketsAreAccepted, N!Alone, N!Mine
  <2>6. Digested'
    BY <1>2, <2>1, <2>2, <2>3 DEF NInv, NTypes, Digested, N!Mine
  <2>7. Texts'
    BY <1>2, <2>1, <2>2, <2>3 DEF NInv, NTypes, Texts, N!Mine
  <2>8. Approving'
    BY <1>2, <2>1, <2>2, <2>3 DEF NInv, NTypes, Approving, Appended, N!Mine
  <2>9. N!RejectedHasGone'
    BY <1>2, <2>1, <2>2, <2>3 DEF NInv, NTypes, N!RejectedHasGone, N!Mine
  <2> QED BY <2>4, <2>5, <2>6, <2>7, <2>8, <2>9 DEF NInv
<1>3. CASE N!MaintainPatches(p)
  <2> USE DEF N!MaintainPatches
  <2>1. /\ mpc' = [mpc EXCEPT ![p] = "idle"] /\ mpc' \in [Procs -> NLabels]
        /\ mloc' = [mloc EXCEPT ![p] = N!Idle] /\ mloc' \in [Procs -> NMemories]
        /\ \A q \in Procs : N!Mine(q)' = None <=> mpc'[q] = "idle"
        /\ OneHand'
    BY <1>3, NDone
  <2>2. N!Mine(p) \in N!Tasks /\ UNCHANGED <<mregime, task, raw, digest, rejected, active>>
    BY <1>3 DEF NInv, NTypes, NMemories, N!Mine
  <2> DEFINE x == IF proposal[N!Mine(p)] = None THEN None
                  ELSE [proposal[N!Mine(p)] EXCEPT !.text = TRUE]
  <2>3. /\ proposal' = [proposal EXCEPT ![N!Mine(p)] = x]
        /\ proposal[N!Mine(p)] = None => x = None
        /\ proposal[N!Mine(p)] # None =>
             x \in N!Proposals /\ x.status = proposal[N!Mine(p)].status /\ x.text
    <3>1. proposal' = [proposal EXCEPT ![N!Mine(p)] = x]
      BY <1>3
    <3>2. proposal[N!Mine(p)] \in N!Proposals \cup {None}
      BY <2>2 DEF NInv, NTypes
    <3>3. CASE proposal[N!Mine(p)] = None
      BY <3>1, <3>3
    <3>4. CASE proposal[N!Mine(p)] # None
      BY <3>1, <3>2, <3>4, WrittenProposal
    <3> QED BY <3>3, <3>4
  <2> HIDE DEF x
  <2>4. NTypes'
    <3>1. x \in N!Proposals \cup {None}
      BY <2>3
    <3>2. proposal \in [N!Tasks -> N!Proposals \cup {None}]
      BY DEF NInv, NTypes
    <3>3. proposal' \in [N!Tasks -> N!Proposals \cup {None}]
      BY <2>3, <3>1, <3>2
    <3> QED BY <2>1, <2>2, <3>3 DEF NInv, NTypes
  <2>5. Collecting' /\ N!PacketsAreAccepted'
    BY <1>3, <2>1 DEF NInv, NTypes, Collecting, N!PacketsAreAccepted, N!Alone, N!Mine
  <2>6. Digested'
    BY <1>3, <2>1, <2>2, <2>3 DEF NInv, NTypes, Digested, N!Mine
  <2>7. Texts'
    BY <1>3, <2>1, <2>2, <2>3 DEF NInv, NTypes, Texts, N!Mine
  <2>8. Approving'
    BY <1>3, <2>1, <2>2, <2>3 DEF NInv, NTypes, Approving, Appended, N!Mine
  <2>9. N!RejectedHasGone'
    BY <1>3, <2>1, <2>2, <2>3 DEF NInv, NTypes, N!RejectedHasGone, N!Mine
  <2> QED BY <2>1, <2>4, <2>5, <2>6, <2>7, <2>8, <2>9 DEF NInv
<1> QED BY <1>1, <1>2, <1>3

LEMMA NApproves ==
  ASSUME NInv, NEW p \in Procs, (\E t \in N!Tasks : N!Approve(p, t)) \/ N!ApproveMarks(p)
  PROVE  NInv'
<1>1. CASE \E t \in N!Tasks : N!Approve(p, t)
  <2>1. PICK t \in N!Tasks : N!Approve(p, t)
    BY <1>1
  <2>2. /\ UNCHANGED <<mregime, task, raw, digest, proposal, rejected>>
        /\ proposal[t] # None /\ Len(active) < MaxApprovals
    BY <2>1 DEF N!Approve
  <2>3. N!Asks(p, t, "status") /\ "status" \in NLabels \ {"idle"}
    BY <2>1 DEF N!Approve, NLabels
  <2>4. /\ mpc' = [mpc EXCEPT ![p] = "status"] /\ mpc' \in [Procs -> NLabels]
        /\ mloc' = [mloc EXCEPT ![p] = [N!Idle EXCEPT !.task = t]]
        /\ mloc' \in [Procs -> NMemories]
        /\ \A q \in Procs : N!Mine(q)' = None <=> mpc'[q] = "idle"
        /\ N!Mine(p)' = t /\ mpc[p] = "idle"
        /\ N!Alone => \A q \in Procs : mpc[q] = "idle"
        /\ OneHand'
    BY <2>2, <2>3, NAsks
  <2>5. PICK x \in NSections : active' = Append(active, x) /\ x.task = t /\ x.text = proposal[t].text
    <3> DEFINE x == [task |-> t, text |-> proposal[t].text]
    <3>1. x \in NSections
      BY <2>2 DEF NInv, NTypes, NSections, N!Proposals
    <3> QED BY <2>1, <3>1 DEF N!Approve
  <2>6. /\ active \in Seq(NSections) /\ active' \in Seq(NSections) /\ Len(active') <= MaxApprovals
        /\ DOMAIN active' = DOMAIN active \cup {Len(active) + 1}
        /\ \A i \in DOMAIN active : active'[i] = active[i]
        /\ active'[Len(active) + 1] = x
    <3>1. active \in Seq(NSections)
      BY DEF NInv, NTypes
    <3> QED BY <2>2, <2>5, <3>1, ServicesAssumption
  <2>7. NTypes'
    BY <2>2, <2>4, <2>6 DEF NInv, NTypes
  <2>8. Collecting' /\ N!PacketsAreAccepted' /\ N!RejectedHasGone'
    BY <2>2, <2>4 DEF NInv, NTypes, Collecting, N!PacketsAreAccepted, N!RejectedHasGone, N!Alone, N!Mine
  <2>9. Digested'
    BY <2>2, <2>4, <2>5, <2>6 DEF NInv, NTypes, Digested, N!Mine
  <2>10. Texts'
    BY <2>2, <2>4, <2>5, <2>6 DEF NInv, NTypes, Texts, N!Mine, N!Alone
  <2>11. Approving'
    <3>1. Appended(t)'
      BY <2>5, <2>6 DEF Appended
    <3>2. \A u \in N!Tasks : Appended(u) => Appended(u)'
      BY <2>6 DEF Appended
    <3>3. \A q \in Procs : mpc[q] = "status" => N!Mine(q) \in N!Tasks
      BY DEF NInv, NTypes, NMemories, N!Mine
    <3>4. \A q \in Procs : mpc'[q] = "status" => Appended(N!Mine(q))'
      <4>1. \A q \in Procs : q # p => mloc'[q] = mloc[q] /\ mpc'[q] = mpc[q]
        BY <2>4 DEF NInv, NTypes
      <4> TAKE q \in Procs
      <4>2. CASE q = p
        BY <2>4, <3>1, <4>2 DEF Appended
      <4>3. CASE q # p
        BY <3>2, <3>3, <4>1, <4>3 DEF NInv, Approving, Appended, N!Mine
      <4> QED BY <4>2, <4>3
    <3> QED BY <2>2, <3>2, <3>4 DEF NInv, Approving, Appended
  <2> QED BY <2>4, <2>7, <2>8, <2>9, <2>10, <2>11 DEF NInv
<1>2. CASE N!ApproveMarks(p)
  <2> USE DEF N!ApproveMarks
  <2>1. /\ mpc' = [mpc EXCEPT ![p] = "idle"] /\ mpc' \in [Procs -> NLabels]
        /\ mloc' = [mloc EXCEPT ![p] = N!Idle] /\ mloc' \in [Procs -> NMemories]
        /\ \A q \in Procs : N!Mine(q)' = None <=> mpc'[q] = "idle"
        /\ OneHand'
    BY <1>2, NDone
  <2>2. N!Mine(p) \in N!Tasks /\ UNCHANGED <<mregime, task, raw, digest, rejected, active>>
    BY <1>2 DEF NInv, NTypes, NMemories, N!Mine
  <2> DEFINE x == IF proposal[N!Mine(p)] = None THEN None
                  ELSE [proposal[N!Mine(p)] EXCEPT !.status = "approved"]
  <2>3. /\ proposal' = [proposal EXCEPT ![N!Mine(p)] = x]
        /\ proposal[N!Mine(p)] = None => x = None
        /\ proposal[N!Mine(p)] # None =>
             x \in N!Proposals /\ x.status = "approved" /\ x.text = proposal[N!Mine(p)].text
    <3>1. proposal' = [proposal EXCEPT ![N!Mine(p)] = x]
      BY <1>2
    <3>2. proposal[N!Mine(p)] \in N!Proposals \cup {None}
      BY <2>2 DEF NInv, NTypes
    <3>3. CASE proposal[N!Mine(p)] = None
      BY <3>1, <3>3
    <3>4. CASE proposal[N!Mine(p)] # None
      BY <3>1, <3>2, <3>4, MarkedProposal
    <3> QED BY <3>3, <3>4
  <2> HIDE DEF x
  <2>4. NTypes'
    BY <1>2, <2>1, <2>2, <2>3 DEF NInv, NTypes
  <2>5. Collecting' /\ N!PacketsAreAccepted'
    BY <1>2, <2>1 DEF NInv, NTypes, Collecting, N!PacketsAreAccepted, N!Alone, N!Mine
  <2>6. Digested'
    BY <1>2, <2>1, <2>2, <2>3 DEF NInv, NTypes, Digested, N!Mine
  <2>7. Texts'
    BY <1>2, <2>1, <2>2, <2>3 DEF NInv, NTypes, Texts, N!Mine
  <2>8. Approving'
    BY <1>2, <2>1, <2>2, <2>3 DEF NInv, NTypes, Approving, Appended, N!Mine
  <2>9. N!RejectedHasGone'
    BY <1>2, <2>1, <2>2, <2>3 DEF NInv, NTypes, N!RejectedHasGone, N!Mine
  <2> QED BY <2>1, <2>4, <2>5, <2>6, <2>7, <2>8, <2>9 DEF NInv
<1> QED BY <1>1, <1>2

LEMMA NRejects ==
  ASSUME NInv, NEW p \in Procs, (\E t \in N!Tasks : N!Reject(p, t)) \/ N!RejectMoves(p)
  PROVE  NInv'
<1>1. CASE \E t \in N!Tasks : N!Reject(p, t)
  <2>1. PICK t \in N!Tasks : N!Reject(p, t)
    BY <1>1
  <2>2. /\ UNCHANGED <<mregime, task, raw, digest, rejected, active>>
        /\ proposal[t] # None
    BY <2>1 DEF N!Reject
  <2>3. N!Asks(p, t, "move") /\ "move" \in NLabels \ {"idle"}
    BY <2>1 DEF N!Reject, NLabels
  <2>4. /\ mpc' = [mpc EXCEPT ![p] = "move"] /\ mpc' \in [Procs -> NLabels]
        /\ mloc' = [mloc EXCEPT ![p] = [N!Idle EXCEPT !.task = t]]
        /\ mloc' \in [Procs -> NMemories]
        /\ \A q \in Procs : N!Mine(q)' = None <=> mpc'[q] = "idle"
        /\ N!Mine(p)' = t /\ mpc[p] = "idle"
        /\ N!Alone => \A q \in Procs : mpc[q] = "idle"
        /\ OneHand'
    BY <2>2, <2>3, NAsks
  <2> DEFINE x == [proposal[t] EXCEPT !.status = "rejected"]
  <2>5. /\ proposal' = [proposal EXCEPT ![t] = x] /\ x \in N!Proposals
        /\ x.status = "rejected" /\ x.text = proposal[t].text
    <3>1. proposal[t] \in N!Proposals
      BY <2>2 DEF NInv, NTypes
    <3>2. proposal' = [proposal EXCEPT ![t] = x]
      BY <2>1 DEF N!Reject
    <3> QED BY <3>1, <3>2, MarkedProposal
  <2> HIDE DEF x
  <2>6. NTypes'
    BY <2>2, <2>4, <2>5 DEF NInv, NTypes
  <2>7. Collecting' /\ N!PacketsAreAccepted'
    BY <2>2, <2>4 DEF NInv, NTypes, Collecting, N!PacketsAreAccepted, N!Alone, N!Mine
  <2>8. Digested'
    BY <2>2, <2>4, <2>5 DEF NInv, NTypes, Digested, N!Mine
  <2>9. Texts'
    BY <2>2, <2>4, <2>5 DEF NInv, NTypes, Texts, N!Mine
  <2>10. Approving'
    BY <2>2, <2>4, <2>5 DEF NInv, NTypes, Approving, Appended, N!Mine
  <2>11. N!RejectedHasGone'
    BY <2>2, <2>4, <2>5 DEF NInv, NTypes, N!RejectedHasGone, N!Mine
  <2> QED BY <2>4, <2>6, <2>7, <2>8, <2>9, <2>10, <2>11 DEF NInv
<1>2. CASE N!RejectMoves(p)
  <2> USE DEF N!RejectMoves
  <2>1. /\ mpc' = [mpc EXCEPT ![p] = "idle"] /\ mpc' \in [Procs -> NLabels]
        /\ mloc' = [mloc EXCEPT ![p] = N!Idle] /\ mloc' \in [Procs -> NMemories]
        /\ \A q \in Procs : N!Mine(q)' = None <=> mpc'[q] = "idle"
        /\ OneHand'
    BY <1>2, NDone
  <2>2. N!Mine(p) \in N!Tasks /\ UNCHANGED <<mregime, task, raw, digest, active>>
    BY <1>2 DEF NInv, NTypes, NMemories, N!Mine
  <2>3. /\ proposal' = [proposal EXCEPT ![N!Mine(p)] = None]
        /\ rejected' \in [N!Tasks -> N!Proposals \cup {None}]
    BY <1>2, <2>2 DEF NInv, NTypes
  <2>4. NTypes'
    BY <1>2, <2>1, <2>2, <2>3 DEF NInv, NTypes
  <2>5. Collecting' /\ N!PacketsAreAccepted'
    BY <1>2, <2>1 DEF NInv, NTypes, Collecting, N!PacketsAreAccepted, N!Alone, N!Mine
  <2>6. Digested'
    BY <1>2, <2>1, <2>2, <2>3 DEF NInv, NTypes, Digested, N!Mine
  <2>7. Texts'
    BY <1>2, <2>1, <2>2, <2>3 DEF NInv, NTypes, Texts, N!Mine
  <2>8. Approving'
    BY <1>2, <2>1, <2>2, <2>3 DEF NInv, NTypes, Approving, Appended, N!Mine
  <2>9. N!RejectedHasGone'
    BY <1>2, <2>1, <2>2, <2>3 DEF NInv, NTypes, N!RejectedHasGone, N!Mine
  <2> QED BY <2>1, <2>4, <2>5, <2>6, <2>7, <2>8, <2>9 DEF NInv
<1> QED BY <1>1, <1>2

LEMMA NDies ==
  ASSUME NInv, NEW p \in Procs, N!Dies(p)
  PROVE  NInv'
<1> USE DEF N!Dies, N!files
<1>1. /\ mpc' = [mpc EXCEPT ![p] = "idle"] /\ mpc' \in [Procs -> NLabels]
      /\ mloc' = [mloc EXCEPT ![p] = N!Idle] /\ mloc' \in [Procs -> NMemories]
      /\ \A q \in Procs : N!Mine(q)' = None <=> mpc'[q] = "idle"
      /\ OneHand'
  BY NDone
<1>2. NTypes'
  BY <1>1 DEF NInv, NTypes
<1>3. Collecting' /\ N!PacketsAreAccepted'
  BY <1>1 DEF NInv, NTypes, Collecting, N!PacketsAreAccepted, N!Alone, N!Mine
<1>4. Digested' /\ Texts' /\ Approving' /\ N!RejectedHasGone'
  BY <1>1 DEF NInv, NTypes, Digested, Texts, Approving, Appended, N!RejectedHasGone, N!Mine
<1> QED BY <1>1, <1>2, <1>3, <1>4 DEF NInv

LEMMA NStep ==
  ASSUME NInv, [N!Next]_(N!mmvars)
  PROVE  NInv'
<1>1. CASE UNCHANGED N!mmvars
  BY <1>1 DEF N!mmvars, N!files, NInv, NTypes, OneHand, Collecting, Digested, Texts, Approving,
     Appended, N!PacketsAreAccepted, N!RejectedHasGone, N!Alone, N!Mine
<1>2. CASE N!Next
  BY <1>2, NTaskMoves, NWorks, NCollects, NMaintains, NApproves, NRejects, NDies
     DEF N!Next, N!TaskMoves, N!Collect, N!Maintain, N!Decide
<1> QED BY <1>1, <1>2

\* Packets and digests are whole evidence of accepted tasks, what the active
\* Memory has was proposed from a digest, an approved proposal is in it and a
\* rejected one gone, under the faults that each part names (collect, digest,
\* maintain, approve, reject).
THEOREM MemoryStaysBacked == Spec => []MemoryIsBacked
<1>1. Init => NInv
  BY NInit DEF Init
<1>2. NInv /\ [Next]_vars => NInv'
  BY NStep, Steps
<1>3. NInv => MemoryIsBacked
  BY DEF NInv, Digested, Texts, Approving, Appended, MemoryIsBacked, N!ActiveIsBacked,
     N!ApprovedIsActive
<1> QED BY <1>1, <1>2, <1>3, PTL DEF Spec

-----------------------------------------------------------------------------
(* Study.  A command that has made a snapshot is the only one to hold its  *)
(* study until the row is written, and one that has made a branch the only *)
(* one to build its line.                                                  *)

SLabels  == {"idle", "memory", "manifest", "cohort", "row",
             "release", "digests", "branch", "link", "line"}
Snapped  == {"manifest", "cohort", "row"}
Filed   == {"cohort", "row"}
Creates  == Snapped \cup {"memory"}
Building == {"digests", "branch", "link", "line"}
Branched == {"link", "line"}
Inits    == Building \cup {"release"}

Frozen == [S!Fields -> 1 .. 2]
SRows  == [line : Lines, target : Targets, frozen : Frozen]
SPlans == [study : Studies \cup {NoStudy}, line : Lines \cup {NoLine},
           target : Targets \cup {"none"}, frozen : [S!Fields -> 0 .. 2]]

STypes ==
  /\ world \in Frozen
  /\ studies \in [Studies -> SRows \cup {NoStudy}]
  /\ lines \in [Studies -> Lines \cup {NoLine}]
  /\ memory \in [Studies -> 0 .. 2] /\ branch \in [Studies -> 0 .. 2]
  /\ starts \subseteq {s \in Studies : studies[s] # NoStudy}
  /\ pc \in [Procs -> SLabels] /\ loc \in [Procs -> SPlans]
  /\ \A p \in Procs : pc[p] = "idle" <=> S!Mine(p) = NoStudy

Plans ==
  \A p \in Procs :
    /\ pc[p] \in Creates => loc[p].line \in Lines /\ loc[p].target \in Targets
    /\ pc[p] = "memory" =>
         \A f \in S!Fields \ {"memory"} : loc[p].frozen[f] \in 1 .. 2
    /\ pc[p] \in Snapped => loc[p].frozen \in Frozen
    /\ pc[p] \in Inits => /\ studies[S!Mine(p)] # NoStudy
                          /\ loc[p].frozen = studies[S!Mine(p)].frozen
                          /\ loc[p].line \in Lines

\* What a command that has a snapshot may rely on.
Holds ==
  /\ \A p \in Procs : pc[p] \in Snapped =>
       /\ studies[S!Mine(p)] = NoStudy
       /\ memory[S!Mine(p)] = loc[p].frozen.memory
       /\ pc[p] # "manifest" => S!Mine(p) \in manifest
  /\ \A p, q \in Procs : pc[p] \in Snapped /\ pc[q] \in Snapped
                           /\ S!Mine(p) = S!Mine(q) => p = q

\* What a command that has a branch may rely on.
Builds ==
  /\ \A p \in Procs : pc[p] \in Branched =>
       lines[S!Mine(p)] = NoLine /\ branch[S!Mine(p)] # 0
  /\ \A p, q \in Procs : pc[p] \in Branched /\ pc[q] \in Branched
                           /\ S!Mine(p) = S!Mine(q) => p = q
  /\ \A s \in Studies : lines[s] # NoLine => branch[s] # 0

SHand == S!Alone => \A p, q \in Procs : pc[p] = "idle" \/ pc[q] = "idle" \/ p = q

Fitting == S!Alone => \A p \in Procs : pc[p] = "row" => S!Fits(p)

\* How far the only command has come.
Progress ==
  S!Alone => \A p \in Procs : pc[p] \in Inits =>
    /\ lines[S!Mine(p)] = NoLine /\ S!Mine(p) \in starts
    /\ S!Mine(p) \in release <=> pc[p] # "release"
    /\ pc[p] \in {"release", "digests", "branch"} => branch[S!Mine(p)] = 0
    /\ pc[p] \in Branched => branch[S!Mine(p)] = loc[p].frozen.base
    /\ pc[p] = "line" => S!Mine(p) \in link
    /\ pc[p] \in {"digests", "branch"} /\ S!Mine(p) \notin scars => S!Mine(p) \notin link

\* What no command died over is in the hands of a command or is a copy that
\* failed on its way, and such a copy stays where it is.
CleanStudies ==
  S!Alone => \A s \in Studies \ scars : studies[s] = NoStudy =>
    /\ memory[s] # 0 /\ ~ S!Broke(s, "memory") =>
         \E p \in Procs : pc[p] \in Snapped /\ S!Mine(p) = s
    /\ s \in manifest /\ ~ S!Broke(s, "manifest") =>
         \E p \in Procs : pc[p] \in Filed /\ S!Mine(p) = s
    /\ S!Broke(s, "memory") =>
         memory[s] # 0 /\ \A p \in Procs : pc[p] \in Snapped => S!Mine(p) # s
    /\ S!Broke(s, "manifest") =>
         s \in manifest /\ \A p \in Procs : pc[p] \in Filed => S!Mine(p) # s

CleanLines ==
  S!Alone => \A s \in Studies \ scars : lines[s] = NoLine =>
    /\ \/ branch[s] # 0 \/ s \in link
       \/ s \in release /\ ~ S!Broke(s, "release")
       => \E p \in Procs : pc[p] \in Building /\ S!Mine(p) = s
    /\ S!Broke(s, "release") =>
         s \in release /\ \A p \in Procs : pc[p] \in Inits => S!Mine(p) # s

SInv == /\ STypes /\ Plans /\ Holds /\ Builds /\ SHand /\ Fitting
        /\ Progress /\ CleanStudies /\ CleanLines
        /\ S!StudyHasItsSnapshots /\ S!CohortIsFrozen /\ S!LineIsComplete

LEMMA SInit == S!Init => SInv
<1> SUFFICES ASSUME S!Init PROVE SInv
  OBVIOUS
<1> USE ServicesAssumption DEF S!Init, S!Idle, S!Mine
<1>1. STypes
  BY DEF STypes, SLabels, SPlans, Frozen
<1>2. Plans /\ Holds /\ Builds /\ SHand /\ Fitting /\ Progress
  BY DEF Plans, Holds, Builds, SHand, Fitting, Progress, Creates, Snapped, Inits, Building, Branched
<1>3. CleanStudies /\ CleanLines
  BY DEF CleanStudies, CleanLines, S!Broke
<1>4. S!StudyHasItsSnapshots /\ S!CohortIsFrozen /\ S!LineIsComplete
  BY DEF S!StudyHasItsSnapshots, S!CohortIsFrozen, S!LineIsComplete
<1> QED BY <1>1, <1>2, <1>3, <1>4 DEF SInv

\* A step of one command.
Turn(p) == /\ \A q \in Procs \ {p} : pc'[q] = pc[q] /\ loc'[q] = loc[q]
           /\ pc' \in [Procs -> SLabels] /\ loc' \in [Procs -> SPlans]
           /\ pc'[p] = "idle" <=> loc'[p].study = NoStudy

LEMMA SRaises ==
  ASSUME STypes, NEW p \in Procs, S!Raises(p)
  PROVE  Turn(p) /\ pc'[p] = "idle" /\ loc'[p].study = NoStudy
<1>1. S!Idle \in SPlans /\ S!Idle.study = NoStudy
  BY DEF S!Idle, SPlans
<1> QED BY <1>1 DEF Turn, S!Raises, STypes, SLabels

LEMMA SGoes ==
  ASSUME STypes, NEW p \in Procs, NEW from, NEW to \in SLabels \ {"idle"},
         S!Step(p, from, to), from # "idle", loc' = loc
  PROVE  Turn(p) /\ pc[p] = from /\ pc'[p] = to
BY DEF Turn, S!Step, STypes, S!Mine

LEMMA STurns ==
  ASSUME SInv, NEW p \in Procs, Turn(p), regime' = regime,
         pc[p] # "idle" \/ (S!Alone => \A q \in Procs : pc[q] = "idle")
  PROVE  /\ SHand'
         /\ pc' \in [Procs -> SLabels] /\ loc' \in [Procs -> SPlans]
         /\ \A q \in Procs : pc'[q] = "idle" <=> S!Mine(q)' = NoStudy
BY DEF SInv, SHand, STypes, Turn, S!Alone, S!Mine

\* What has failed on its way of one kind of copies.
SameBroken(what) == \A s \in Studies : S!Broke(s, what)' <=> S!Broke(s, what)

LEMMA SKeeps ==
  ASSUME broken' = broken
  PROVE  SameBroken("memory") /\ SameBroken("manifest") /\ SameBroken("release")
BY DEF SameBroken, S!Broke

LEMMA SBreaks ==
  ASSUME NEW p \in Procs, NEW w, S!Breaks(p, w)
  PROVE  /\ S!Raises(p)
         /\ \A s \in Studies, x \in {"memory", "manifest", "release"} :
              S!Broke(s, x)' <=> S!Broke(s, x) \/ (s = S!Mine(p) /\ x = w)
<1>1. S!Raises(p) /\ broken' = broken \cup {[study |-> S!Mine(p), what |-> w]}
  BY DEF S!Breaks
<1>2. ASSUME NEW s \in Studies, NEW x \in {"memory", "manifest", "release"}
      PROVE  [study |-> s, what |-> x] = [study |-> S!Mine(p), what |-> w]
               <=> s = S!Mine(p) /\ x = w
  <2>1. ASSUME [study |-> s, what |-> x] = [study |-> S!Mine(p), what |-> w]
        PROVE  s = S!Mine(p) /\ x = w
    <3>1. /\ [study |-> s, what |-> x].study = [study |-> S!Mine(p), what |-> w].study
          /\ [study |-> s, what |-> x].what = [study |-> S!Mine(p), what |-> w].what
      BY <2>1
    <3> QED BY <3>1
  <2> QED BY <2>1
<1> QED BY <1>1, <1>2 DEF S!Broke

\* create_study leaves lines alone.
LEMMA CreateSide ==
  ASSUME SInv, NEW p \in Procs, Turn(p),
         pc[p] \in Creates \cup {"idle"}, pc'[p] \in Creates \cup {"idle"},
         UNCHANGED <<regime, lines, branch, release, link, starts>>,
         \A s \in Studies : studies[s] # NoStudy => studies'[s] = studies[s],
         scars \subseteq scars', SameBroken("release")
  PROVE  Builds' /\ Progress' /\ CleanLines' /\ S!LineIsComplete'
<1> USE DEF SInv, STypes, Turn, Creates, Snapped, S!Mine
<1>1. Builds'
  BY DEF Builds, Branched
<1>2. Progress'
  BY DEF Progress, Inits, Building, Branched, S!Alone
<1>3. CleanLines'
  BY DEF CleanLines, Inits, Building, SameBroken, S!Alone
<1>4. S!LineIsComplete'
  BY DEF S!LineIsComplete, S!Alone
<1> QED BY <1>1, <1>2, <1>3, <1>4

\* initialize_experiment_line leaves studies alone.
LEMMA InitSide ==
  ASSUME SInv, NEW p \in Procs, Turn(p),
         pc[p] \in Inits \cup {"idle"}, pc'[p] \in Inits \cup {"idle"},
         UNCHANGED <<regime, memory, manifest, studies>>, scars \subseteq scars',
         SameBroken("memory"), SameBroken("manifest")
  PROVE  /\ Holds' /\ Fitting' /\ CleanStudies'
         /\ S!StudyHasItsSnapshots' /\ S!CohortIsFrozen'
<1> USE DEF SInv, Turn, Inits, Building, S!Mine
<1>1. Holds'
  BY DEF Holds, Snapped
<1>2. Fitting'
  BY DEF Fitting, S!Fits, S!Known, S!Alone
<1>3. CleanStudies'
  BY DEF CleanStudies, Snapped, Filed, SameBroken, S!Alone
<1>4. S!StudyHasItsSnapshots' /\ S!CohortIsFrozen'
  BY DEF S!StudyHasItsSnapshots, S!CohortIsFrozen, S!Intact, S!Alone
<1> QED BY <1>1, <1>2, <1>3, <1>4

LEMMA SWorld ==
  ASSUME SInv, (\E f \in S!Fields : S!Drift(f)) \/ \E s \in Studies : S!RegisterBaseline(s)
  PROVE  SInv'
<1> USE DEF S!disk, S!rows
<1>1. CASE \E f \in S!Fields : S!Drift(f)
  <2>1. /\ world' \in Frozen
        /\ UNCHANGED <<regime, memory, manifest, release, link, branch, studies, starts,
                       lines, pc, loc, scars, broken>>
    BY <1>1 DEF S!Drift, SInv, STypes, Frozen
  <2> QED BY <2>1 DEF SInv, STypes, Plans, Holds, Builds, SHand, Fitting, Progress, CleanStudies,
          CleanLines, S!StudyHasItsSnapshots, S!CohortIsFrozen, S!LineIsComplete, S!Fits,
          S!Known, S!Intact, S!Alone, S!Mine, S!Broke
<1>2. ASSUME NEW s \in Studies, S!RegisterBaseline(s) PROVE SInv'
  <2>1. /\ starts' = starts \cup {s} /\ studies[s] # NoStudy
        /\ UNCHANGED <<regime, world, memory, manifest, release, link, branch, studies,
                       lines, pc, loc, scars, broken>>
    BY <1>2 DEF S!RegisterBaseline, S!Intact
  <2> QED BY <2>1 DEF SInv, STypes, Plans, Holds, Builds, SHand, Fitting, Progress, CleanStudies,
          CleanLines, S!StudyHasItsSnapshots, S!CohortIsFrozen, S!LineIsComplete, S!Fits,
          S!Known, S!Intact, S!Alone, S!Mine, S!Broke
<1> QED BY <1>1, <1>2

LEMMA SnapshotPlan ==
  ASSUME NEW x \in SPlans, NEW w \in 1 .. 2,
         \A f \in S!Fields \ {"memory"} : x.frozen[f] \in 1 .. 2
  PROVE  LET y == [x EXCEPT !.frozen.memory = w]
         IN  /\ y \in SPlans /\ y.study = x.study /\ y.line = x.line /\ y.target = x.target
             /\ y.frozen \in Frozen /\ y.frozen.memory = w
BY DEF SPlans, Frozen, S!Fields

LEMMA SCreateBegins ==
  ASSUME SInv, NEW p \in Procs, NEW s \in Studies, NEW l \in Lines, NEW t \in Targets,
         S!CreateBegins(p, s, l, t)
  PROVE  SInv'
<1> USE DEF S!CreateBegins, S!MayBegin, S!Step, S!disk, S!rows
<1> DEFINE fr == [world EXCEPT !.memory = 0]
           x  == [study |-> s, line |-> l, target |-> t, frozen |-> fr]
<1>1. /\ fr \in [S!Fields -> 0 .. 2]
      /\ \A f \in S!Fields \ {"memory"} : fr[f] \in 1 .. 2
  BY DEF SInv, STypes, Frozen, S!Fields
<1>2. loc' = [loc EXCEPT ![p] = x]
  OBVIOUS
<1> HIDE DEF fr
<1>3. x \in SPlans /\ x.study = s /\ x.line = l /\ x.target = t /\ x.frozen = fr
  BY <1>1 DEF SPlans
<1> HIDE DEF x
<1>4. Turn(p) /\ pc[p] = "idle" /\ pc'[p] = "memory" /\ loc'[p] = x
  BY <1>2, <1>3, ServicesAssumption DEF Turn, SInv, STypes, SLabels
<1>5. /\ UNCHANGED <<regime, world, memory, manifest, release, link, branch, studies, starts,
                     lines, scars, broken>>
      /\ S!Alone => \A q \in Procs : pc[q] = "idle"
  BY DEF S!Alone
<1>6. Builds' /\ Progress' /\ CleanLines' /\ S!LineIsComplete'
  BY <1>4, <1>5, SKeeps, CreateSide DEF Creates
<1>7. STypes' /\ SHand'
  BY <1>4, <1>5, STurns DEF SInv, STypes
<1>8. Plans'
  BY <1>1, <1>3, <1>4, <1>5 DEF SInv, Plans, Turn, Creates, Snapped, Inits, Building, S!Mine
<1>9. Holds' /\ Fitting' /\ CleanStudies'
  BY <1>4, <1>5 DEF SInv, Holds, Fitting, CleanStudies, Turn, Snapped, Filed, S!Fits, S!Known,
     S!Alone, S!Mine, S!Broke
<1>10. S!StudyHasItsSnapshots' /\ S!CohortIsFrozen'
  BY <1>5 DEF SInv, S!StudyHasItsSnapshots, S!CohortIsFrozen, S!Intact, S!Alone
<1> QED BY <1>6, <1>7, <1>8, <1>9, <1>10 DEF SInv

\* A command that ends without a snapshot.
LEMMA SGivesUp ==
  ASSUME SInv, NEW p \in Procs, pc[p] = "memory", S!Raises(p),
         UNCHANGED <<regime, world, manifest, release, link, branch, studies, starts, lines,
                     scars>>,
         \/ UNCHANGED <<memory, broken>>
         \/ /\ memory[S!Mine(p)] = 0 /\ S!Breaks(p, "memory")
            /\ memory' = [memory EXCEPT ![S!Mine(p)] = world.memory]
  PROVE  SInv'
<1>1. Turn(p) /\ pc'[p] = "idle" /\ loc'[p].study = NoStudy
  BY SRaises DEF SInv
<1>2. S!Mine(p) \in Studies /\ world.memory \in 1 .. 2
  BY DEF SInv, STypes, SPlans, Frozen, S!Fields, S!Mine
<1>3. /\ SameBroken("manifest") /\ SameBroken("release")
      /\ \A s \in Studies :
           \/ memory'[s] = memory[s] /\ (S!Broke(s, "memory")' <=> S!Broke(s, "memory"))
           \/ s = S!Mine(p) /\ memory[s] = 0 /\ memory'[s] # 0 /\ S!Broke(s, "memory")'
  <2>1. CASE UNCHANGED <<memory, broken>>
    BY <2>1, SKeeps DEF SameBroken, S!Broke
  <2>2. CASE /\ memory[S!Mine(p)] = 0 /\ S!Breaks(p, "memory")
             /\ memory' = [memory EXCEPT ![S!Mine(p)] = world.memory]
    <3>1. \A s \in Studies, x \in {"memory", "manifest", "release"} :
            S!Broke(s, x)' <=> S!Broke(s, x) \/ (s = S!Mine(p) /\ x = "memory")
      BY <2>2, SBreaks
    <3>2. \A s \in Studies : memory'[s] = IF s = S!Mine(p) THEN world.memory ELSE memory[s]
      BY <1>2, <2>2 DEF SInv, STypes
    <3>3. SameBroken("manifest") /\ SameBroken("release")
      BY <3>1 DEF SameBroken
    <3>4. ASSUME NEW s \in Studies
          PROVE  \/ memory'[s] = memory[s] /\ (S!Broke(s, "memory")' <=> S!Broke(s, "memory"))
                 \/ s = S!Mine(p) /\ memory[s] = 0 /\ memory'[s] # 0 /\ S!Broke(s, "memory")'
      <4>1. S!Broke(s, "memory")' <=> S!Broke(s, "memory") \/ s = S!Mine(p)
        BY <3>1
      <4> QED BY <1>2, <2>2, <3>2, <4>1
    <3> QED BY <3>3, <3>4
  <2> QED BY <2>1, <2>2
<1>4. memory' \in [Studies -> 0 .. 2]
  BY <1>2 DEF SInv, STypes
<1>5. Builds' /\ Progress' /\ CleanLines' /\ S!LineIsComplete'
  BY <1>1, <1>3, CreateSide DEF Creates
<1>6. STypes' /\ SHand'
  BY <1>1, <1>4, STurns DEF SInv, STypes
<1>7. Plans'
  BY <1>1, ServicesAssumption DEF SInv, STypes, Plans, Turn, Creates, Snapped, Inits, Building, S!Mine
<1>8. \A q \in Procs : pc[q] \in Snapped => S!Mine(q) \in Studies /\ loc[q].frozen.memory # 0
  BY DEF SInv, STypes, SPlans, Plans, Snapped, Frozen, S!Fields, S!Mine
<1>9. Holds'
  BY <1>1, <1>3, <1>8 DEF SInv, Holds, Turn, Snapped, S!Mine
<1>10. Fitting'
  BY <1>1 DEF SInv, Fitting, Turn, S!Fits, S!Known, S!Alone, S!Mine
<1>11. CleanStudies'
  <2>1. S!Alone => \A q \in Procs : pc'[q] = "idle"
    BY <1>1 DEF SInv, SHand, Turn
  <2>2. S!Alone => \A q \in Procs : pc[q] \notin Snapped
    BY DEF SInv, SHand, Snapped
  <2> QED BY <1>3, <2>1, <2>2 DEF SInv, CleanStudies, Snapped, Filed, SameBroken, S!Alone
<1>12. \A s \in Studies : studies[s] # NoStudy => memory[s] # 0
  BY DEF SInv, STypes, SRows, Frozen, S!Fields, S!StudyHasItsSnapshots, S!Intact
<1>13. S!StudyHasItsSnapshots' /\ S!CohortIsFrozen'
  BY <1>3, <1>12 DEF SInv, S!StudyHasItsSnapshots, S!CohortIsFrozen, S!Intact, S!Alone
<1> QED BY <1>5, <1>6, <1>7, <1>9, <1>10, <1>11, <1>13 DEF SInv

LEMMA SSnapshotMemory ==
  ASSUME SInv, NEW p \in Procs, S!SnapshotMemory(p) \/ S!SnapshotBreaks(p)
  PROVE  SInv'
<1> USE DEF S!SnapshotMemory, S!SnapshotBreaks, S!Step, S!rows
<1>1. CASE S!SnapshotBreaks(p) \/ memory[S!Mine(p)] # 0
  <2>1. /\ pc[p] = "memory" /\ S!Raises(p)
        /\ UNCHANGED <<regime, world, manifest, release, link, branch, studies, starts, lines,
                       scars>>
        /\ \/ UNCHANGED <<memory, broken>>
           \/ /\ memory[S!Mine(p)] = 0 /\ S!Breaks(p, "memory")
              /\ memory' = [memory EXCEPT ![S!Mine(p)] = world.memory]
    BY <1>1, SBreaks
  <2> QED BY <2>1, SGivesUp
<1>2. CASE S!SnapshotMemory(p) /\ memory[S!Mine(p)] = 0
  <2> DEFINE x == [loc[p] EXCEPT !.frozen.memory = world.memory]
  <2>1. S!Mine(p) \in Studies /\ world.memory \in 1 .. 2 /\ loc[p] \in SPlans
    BY <1>2 DEF SInv, STypes, SPlans, Frozen, S!Fields, S!Mine
  <2>2. \A f \in S!Fields \ {"memory"} : loc[p].frozen[f] \in 1 .. 2
    BY <1>2 DEF SInv, Plans
  <2>3. loc' = [loc EXCEPT ![p] = x]
    BY <1>2
  <2>4. /\ x \in SPlans /\ x.study = loc[p].study /\ x.line = loc[p].line
        /\ x.target = loc[p].target /\ x.frozen \in Frozen /\ x.frozen.memory = world.memory
    BY <2>1, <2>2, SnapshotPlan
  <2> HIDE DEF x
  <2>5. Turn(p) /\ pc[p] = "memory" /\ pc'[p] = "manifest" /\ loc'[p] = x
    BY <1>2, <2>1, <2>3, <2>4, ServicesAssumption DEF Turn, SInv, STypes, SLabels, S!Mine
  <2>6. /\ UNCHANGED <<regime, world, manifest, release, link, branch, studies, starts,
                       lines, scars, broken>>
        /\ memory' = [memory EXCEPT ![S!Mine(p)] = world.memory]
    BY <1>2
  <2>7. Builds' /\ Progress' /\ CleanLines' /\ S!LineIsComplete'
    BY <2>5, <2>6, SKeeps, CreateSide DEF Creates, Snapped
  <2>8. memory' \in [Studies -> 0 .. 2]
    BY <2>1, <2>6 DEF SInv, STypes
  <2>9. STypes' /\ SHand'
    BY <2>5, <2>6, <2>8, STurns DEF SInv, STypes
  <2>10. Plans'
    BY <2>4, <2>5, <2>6 DEF SInv, Plans, Turn, Creates, Snapped, Inits, Building, S!Mine
  <2>11. \A q \in Procs : pc[q] \in Snapped => S!Mine(q) \in Studies /\ loc[q].frozen.memory # 0
    BY DEF SInv, STypes, SPlans, Plans, Snapped, Frozen, S!Fields, S!Mine
  <2>12. \A s \in Studies : studies[s] # NoStudy => memory[s] # 0
    BY DEF SInv, STypes, SRows, Frozen, S!Fields, S!StudyHasItsSnapshots, S!Intact
  <2>13. \A q \in Procs : pc[q] \in Snapped => S!Mine(q) # S!Mine(p)
    BY <1>2, <2>11 DEF SInv, Holds
  <2>14. \A s \in Studies : s # S!Mine(p) => memory'[s] = memory[s]
    BY <2>6 DEF SInv, STypes
  <2>15. memory'[S!Mine(p)] = world.memory
    BY <2>1, <2>6 DEF SInv, STypes
  <2>16. Holds'
    <3>1. \A q \in Procs : pc'[q] \in Snapped =>
            /\ studies'[S!Mine(q)'] = NoStudy
            /\ memory'[S!Mine(q)'] = loc'[q].frozen.memory
            /\ pc'[q] # "manifest" => S!Mine(q)' \in manifest'
      BY <1>2, <2>1, <2>4, <2>5, <2>6, <2>11, <2>12, <2>13, <2>14, <2>15
         DEF SInv, Holds, Turn, Snapped, S!Mine
    <3>2. \A q, r \in Procs : pc'[q] \in Snapped /\ pc'[r] \in Snapped
                              /\ S!Mine(q)' = S!Mine(r)' => q = r
      BY <2>4, <2>5, <2>13 DEF SInv, Holds, Turn, S!Mine
    <3> QED BY <3>1, <3>2 DEF Holds
  <2>17. Fitting'
    BY <2>5, <2>6 DEF SInv, Fitting, Turn, S!Fits, S!Known, S!Alone, S!Mine
  <2>18. CleanStudies'
    <3>1. S!Alone => \A q \in Procs : q # p => pc[q] = "idle" /\ pc'[q] = "idle"
      BY <2>5 DEF SInv, SHand, Turn
    <3>2. S!Mine(p)' = S!Mine(p)
      BY <2>4, <2>5 DEF S!Mine
    <3> QED BY <1>2, <2>1, <2>5, <2>6, <2>14, <3>1, <3>2
            DEF SInv, CleanStudies, Snapped, Filed, S!Alone, S!Broke
  <2>19. S!StudyHasItsSnapshots' /\ S!CohortIsFrozen'
    BY <1>2, <2>6, <2>12, <2>14 DEF SInv, S!StudyHasItsSnapshots, S!CohortIsFrozen, S!Intact, S!Alone
  <2> QED BY <2>7, <2>9, <2>10, <2>16, <2>17, <2>18, <2>19 DEF SInv
<1> QED BY <1>1, <1>2

\* A command that takes back the snapshots that it knows of.
LEMMA STakesBack ==
  ASSUME SInv, NEW p \in Procs, pc[p] \in Snapped, S!Raises(p),
         memory' = [memory EXCEPT ![S!Mine(p)] = 0],
         \/ /\ manifest' = manifest \ {S!Mine(p)} /\ broken' = broken
            /\ pc[p] \in Filed
         \/ /\ manifest' = manifest /\ broken' = broken
            /\ pc[p] = "manifest"
         \/ /\ manifest' = manifest \cup {S!Mine(p)} /\ S!Breaks(p, "manifest")
            /\ pc[p] = "manifest" /\ S!Mine(p) \notin manifest,
         UNCHANGED <<regime, world, release, link, branch, studies, starts, lines, scars>>
  PROVE  SInv'
<1>1. Turn(p) /\ pc'[p] = "idle" /\ loc'[p].study = NoStudy
  BY SRaises DEF SInv
<1>2. S!Mine(p) \in Studies /\ studies[S!Mine(p)] = NoStudy
  BY ServicesAssumption DEF SInv, STypes, SPlans, Holds, Snapped, S!Mine
<1>3. /\ memory' \in [Studies -> 0 .. 2] /\ memory'[S!Mine(p)] = 0
      /\ \A s \in Studies : s # S!Mine(p) =>
           memory'[s] = memory[s] /\ (s \in manifest' <=> s \in manifest)
  BY <1>2 DEF SInv, STypes
<1>4. /\ SameBroken("memory") /\ SameBroken("release")
      /\ \A s \in Studies : s # S!Mine(p) => (S!Broke(s, "manifest")' <=> S!Broke(s, "manifest"))
  <2>1. CASE broken' = broken
    BY <2>1, SKeeps DEF SameBroken
  <2>2. CASE S!Breaks(p, "manifest")
    <3>1. \A s \in Studies, x \in {"memory", "manifest", "release"} :
            S!Broke(s, x)' <=> S!Broke(s, x) \/ (s = S!Mine(p) /\ x = "manifest")
      BY <2>2, SBreaks
    <3> QED BY <3>1 DEF SameBroken
  <2> QED BY <2>1, <2>2
<1>5. ASSUME S!Alone, NEW s \in Studies, s = S!Mine(p), s \notin scars
      PROVE  /\ ~ S!Broke(s, "memory")
             /\ s \in manifest' <=> S!Broke(s, "manifest")'
  <2>1. /\ ~ S!Broke(s, "memory")
        /\ pc[p] \in Filed => ~ S!Broke(s, "manifest")
        /\ pc[p] = "manifest" => (s \in manifest <=> S!Broke(s, "manifest"))
    BY <1>2, <1>5 DEF SInv, SHand, CleanStudies, Snapped, Filed
  <2>2. CASE broken' = broken /\ manifest' = manifest \ {S!Mine(p)} /\ pc[p] \in Filed
    BY <2>1, <2>2, <1>5, SKeeps DEF SameBroken
  <2>3. CASE broken' = broken /\ manifest' = manifest /\ pc[p] = "manifest"
    BY <2>1, <2>3, <1>5, SKeeps DEF SameBroken
  <2>4. CASE S!Breaks(p, "manifest") /\ manifest' = manifest \cup {S!Mine(p)}
    BY <2>1, <2>4, <1>5, SBreaks
  <2> QED BY <2>2, <2>3, <2>4
<1>6. Builds' /\ Progress' /\ CleanLines' /\ S!LineIsComplete'
  BY <1>1, <1>4, CreateSide DEF Creates
<1>7. STypes' /\ SHand'
  BY <1>1, <1>3, STurns DEF SInv, STypes, Snapped
<1>8. Plans'
  BY <1>1 DEF SInv, Plans, Turn, Creates, Snapped, Inits, Building, S!Mine
<1>9. \A q \in Procs : pc[q] \in Snapped => S!Mine(q) \in Studies
  BY DEF SInv, STypes, SPlans, Snapped, S!Mine
<1>10. Holds'
  BY <1>1, <1>3, <1>9 DEF SInv, Holds, Turn, Snapped, S!Mine
<1>11. Fitting'
  BY <1>1 DEF SInv, Fitting, Turn, S!Fits, S!Known, S!Alone, S!Mine
<1>12. CleanStudies'
  <2>1. S!Alone => \A q \in Procs : pc'[q] = "idle" /\ (q # p => pc[q] = "idle")
    BY <1>1 DEF SInv, SHand, Turn, Snapped
  <2> QED BY <1>2, <1>3, <1>4, <1>5, <2>1
          DEF SInv, CleanStudies, Snapped, Filed, SameBroken, S!Alone
<1>13. S!StudyHasItsSnapshots' /\ S!CohortIsFrozen'
  BY <1>2, <1>3 DEF SInv, S!StudyHasItsSnapshots, S!CohortIsFrozen, S!Intact, S!Alone
<1> QED BY <1>6, <1>7, <1>8, <1>10, <1>11, <1>12, <1>13 DEF SInv

\* A command that goes on with what it holds.
LEMMA SHoldsOn ==
  ASSUME SInv, NEW p \in Procs, Turn(p), loc' = loc,
         UNCHANGED <<regime, world, memory, release, link, branch, studies, starts, lines,
                     scars, broken>>,
         \/ /\ pc[p] = "manifest" /\ pc'[p] = "cohort" /\ S!Mine(p) \notin manifest
            /\ manifest' = manifest \cup {S!Mine(p)}
         \/ pc[p] = "cohort" /\ pc'[p] = "row" /\ S!Fits(p) /\ manifest' = manifest
  PROVE  SInv'
<1>1. S!Mine(p) \in Studies /\ memory[S!Mine(p)] # 0
  BY ServicesAssumption DEF SInv, STypes, SPlans, Plans, Holds, Snapped, Frozen, S!Fields, S!Mine
<1>2. Builds' /\ Progress' /\ CleanLines' /\ S!LineIsComplete'
  BY SKeeps, CreateSide DEF Creates, Snapped
<1>3. STypes' /\ SHand'
  BY STurns DEF SInv, STypes
<1>4. Plans'
  BY DEF SInv, Plans, Turn, Creates, Snapped, Inits, Building, S!Mine
<1>5. Holds'
  BY <1>1 DEF SInv, Holds, Turn, Snapped, S!Mine
<1>6. Fitting'
  BY DEF SInv, Fitting, Turn, S!Fits, S!Known, S!Alone, S!Mine
<1>7. CleanStudies'
  <2>1. S!Alone => \A q \in Procs : q # p => pc[q] = "idle" /\ pc'[q] = "idle"
    BY DEF SInv, SHand, Turn
  <2>2. S!Mine(p)' = S!Mine(p) /\ pc[p] \in Snapped /\ pc'[p] \in Filed
    BY DEF S!Mine, Snapped, Filed
  <2>3. \A s \in Studies : s # S!Mine(p) => (s \in manifest' <=> s \in manifest)
    OBVIOUS
  <2>4. S!Mine(p) \in manifest'
    BY DEF SInv, Holds, Snapped
  <2>5. \A s \in Studies, x \in {"memory", "manifest"} : S!Broke(s, x)' <=> S!Broke(s, x)
    BY DEF S!Broke
  <2>6. S!Alone /\ S!Mine(p) \notin scars /\ studies[S!Mine(p)] = NoStudy =>
          ~ S!Broke(S!Mine(p), "memory") /\ ~ S!Broke(S!Mine(p), "manifest")
    BY <1>1 DEF SInv, CleanStudies, Snapped, Filed
  <2> QED BY <1>1, <2>1, <2>2, <2>3, <2>4, <2>5, <2>6
          DEF SInv, CleanStudies, Snapped, Filed, S!Alone
<1>8. S!StudyHasItsSnapshots' /\ S!CohortIsFrozen'
  BY DEF SInv, S!StudyHasItsSnapshots, S!CohortIsFrozen, S!Intact, S!Alone
<1> QED BY <1>2, <1>3, <1>4, <1>5, <1>6, <1>7, <1>8 DEF SInv

LEMMA SHolders ==
  ASSUME SInv, NEW p \in Procs,
         S!SnapshotManifest(p) \/ S!ManifestBreaks(p) \/ S!CheckCohort(p)
  PROVE  SInv'
<1> USE DEF S!rows
<1>1. CASE S!SnapshotManifest(p) /\ S!Step(p, "manifest", "cohort") /\ S!Mine(p) \notin manifest
           /\ manifest' = manifest \cup {S!Mine(p)} /\ UNCHANGED <<memory, loc>>
  <2>1. UNCHANGED <<regime, world, release, link, branch, studies, starts, lines, scars, broken>>
    BY <1>1 DEF S!SnapshotManifest
  <2>2. Turn(p) /\ pc[p] = "manifest" /\ pc'[p] = "cohort"
    BY <1>1, SGoes DEF SInv, SLabels
  <2> QED BY <1>1, <2>1, <2>2, SHoldsOn
<1>2. CASE S!SnapshotManifest(p) /\ pc[p] = "manifest" /\ S!Raises(p) /\ UNCHANGED manifest
           /\ memory' = [memory EXCEPT ![S!Mine(p)] = 0]
  <2>1. UNCHANGED <<regime, world, release, link, branch, studies, starts, lines, scars, broken>>
    BY <1>2 DEF S!SnapshotManifest
  <2> QED BY <1>2, <2>1, STakesBack DEF Snapped
<1>3. CASE S!ManifestBreaks(p)
  <2>1. /\ pc[p] = "manifest" /\ S!Mine(p) \notin manifest /\ S!Breaks(p, "manifest")
        /\ manifest' = manifest \cup {S!Mine(p)} /\ memory' = [memory EXCEPT ![S!Mine(p)] = 0]
        /\ UNCHANGED <<regime, world, release, link, branch, studies, starts, lines, scars>>
    BY <1>3 DEF S!ManifestBreaks
  <2>2. S!Raises(p)
    BY <2>1, SBreaks
  <2> QED BY <2>1, <2>2, STakesBack DEF Snapped
<1>4. CASE S!CheckCohort(p) /\ S!Fits(p)
  <2>1. /\ UNCHANGED <<regime, world, memory, release, link, branch, studies, starts, lines,
                       scars, broken>>
        /\ loc' = loc /\ manifest' = manifest /\ S!Step(p, "cohort", "row")
    BY <1>4 DEF S!CheckCohort
  <2>2. Turn(p) /\ pc[p] = "cohort" /\ pc'[p] = "row"
    BY <2>1, SGoes DEF SInv, SLabels
  <2> QED BY <1>4, <2>1, <2>2, SHoldsOn
<1>5. CASE S!CheckCohort(p) /\ ~ S!Fits(p)
  <2>1. /\ pc[p] = "cohort" /\ S!TakesBack(p)
        /\ UNCHANGED <<regime, world, release, link, branch, studies, starts, lines, scars, broken>>
    BY <1>5 DEF S!CheckCohort
  <2> QED BY <2>1, STakesBack DEF S!TakesBack, Snapped, Filed
<1> QED BY <1>1, <1>2, <1>3, <1>4, <1>5 DEF S!SnapshotManifest

LEMMA SWriteStudy ==
  ASSUME SInv, NEW p \in Procs, S!WriteStudy(p)
  PROVE  SInv'
<1> USE DEF S!WriteStudy
<1>1. CASE ~ S!Unique(p)
  <2>1. /\ pc[p] = "row" /\ S!TakesBack(p)
        /\ UNCHANGED <<regime, world, release, link, branch, studies, starts, lines, scars, broken>>
    BY <1>1
  <2> QED BY <2>1, STakesBack DEF S!TakesBack, Snapped, Filed
<1>2. CASE S!Unique(p)
  <2> DEFINE x == [line |-> loc[p].line, target |-> loc[p].target, frozen |-> loc[p].frozen]
  <2>1. /\ x \in SRows /\ x.target = loc[p].target /\ x.frozen = loc[p].frozen
        /\ S!Mine(p) \in Studies
    BY ServicesAssumption DEF SInv, STypes, SPlans, SRows, Plans, Creates, Snapped, S!Mine
  <2>2. /\ studies' = [studies EXCEPT ![S!Mine(p)] = x] /\ S!Raises(p) /\ pc[p] = "row"
        /\ UNCHANGED <<regime, world, memory, manifest, release, link, branch, starts, lines,
                       scars, broken>>
    BY <1>2
  <2> HIDE DEF x
  <2>3. x # NoStudy
    BY <2>1, ServicesAssumption DEF SRows, Frozen
  <2>4. Turn(p) /\ pc'[p] = "idle" /\ loc'[p].study = NoStudy
    BY <2>2, SRaises DEF SInv
  <2>5. studies[S!Mine(p)] = NoStudy /\ S!Mine(p) \in manifest
        /\ memory[S!Mine(p)] = x.frozen.memory
    BY <2>1, <2>2 DEF SInv, Holds, Snapped
  <2>6. /\ studies' \in [Studies -> SRows \cup {NoStudy}] /\ studies'[S!Mine(p)] = x
        /\ \A s \in Studies : s # S!Mine(p) => studies'[s] = studies[s]
    BY <2>1, <2>2 DEF SInv, STypes
  <2>7. Builds' /\ Progress' /\ CleanLines' /\ S!LineIsComplete'
    BY <2>2, <2>4, <2>5, <2>6, SKeeps, CreateSide DEF Creates, Snapped
  <2>8. STypes' /\ SHand'
    BY <2>2, <2>3, <2>4, <2>6, STurns DEF SInv, STypes
  <2>9. \A q \in Procs : pc[q] \in Inits \cup Snapped => S!Mine(q) \in Studies
    BY DEF SInv, STypes, SPlans, Snapped, Inits, Building, S!Mine
  <2>10. Plans'
    BY <2>4, <2>5, <2>6, <2>9 DEF SInv, Plans, Turn, Creates, Snapped, Inits, Building, S!Mine
  <2>11. Holds'
    BY <2>2, <2>4, <2>6, <2>9 DEF SInv, Holds, Turn, Snapped, S!Mine
  <2>12. Fitting'
    BY <2>2, <2>4 DEF SInv, SHand, Fitting, Turn, S!Alone, S!Mine
  <2>13. CleanStudies'
    BY <2>2, <2>3, <2>4, <2>6 DEF SInv, CleanStudies, Turn, Snapped, Filed, S!Alone, S!Mine, S!Broke
  <2>14. S!StudyHasItsSnapshots'
    BY <2>2, <2>3, <2>5, <2>6 DEF SInv, S!StudyHasItsSnapshots, S!Intact
  <2>15. S!CohortIsFrozen'
    <3>1. S!Alone => \A s \in Studies : studies[s] # NoStudy =>
            studies[s].target # x.target /\ studies[s].frozen = x.frozen
      BY <2>1, <2>2 DEF SInv, Fitting, S!Fits, S!Known
    <3> QED BY <2>2, <2>6, <3>1 DEF SInv, S!CohortIsFrozen, S!Alone
  <2> QED BY <2>7, <2>8, <2>10, <2>11, <2>12, <2>13, <2>14, <2>15 DEF SInv
<1> QED BY <1>1, <1>2

LEMMA SInitBegins ==
  ASSUME SInv, NEW p \in Procs, NEW s \in Studies, S!InitBegins(p, s)
  PROVE  SInv'
<1> USE DEF S!InitBegins, S!MayBegin, S!Step, S!disk, S!rows
<1> DEFINE x == [S!Idle EXCEPT !.study = s, !.line = studies[s].line,
                               !.frozen = studies[s].frozen]
<1>1. /\ studies[s] \in SRows /\ branch[s] = 0 /\ s \notin release /\ s \in starts
      /\ lines[s] = NoLine
  BY DEF S!Ready, S!Intact, S!Vacant, SInv, STypes, Builds
<1>2. studies[s].line \in Lines /\ studies[s].frozen \in [S!Fields -> 0 .. 2]
  BY <1>1 DEF SRows, Frozen
<1>3. x \in SPlans /\ x.study = s /\ x.line = studies[s].line /\ x.frozen = studies[s].frozen
  BY <1>2 DEF SPlans, S!Idle
<1>4. loc' = [loc EXCEPT ![p] = x]
  OBVIOUS
<1> HIDE DEF x
<1>5. Turn(p) /\ pc[p] = "idle" /\ pc'[p] = "release" /\ loc'[p] = x
  BY <1>3, <1>4, ServicesAssumption DEF Turn, SInv, STypes, SLabels
<1>6. /\ UNCHANGED <<regime, world, memory, manifest, release, link, branch, studies, starts,
                     lines, scars, broken>>
      /\ S!Alone => \A q \in Procs : pc[q] = "idle"
  BY DEF S!Alone
<1>7. Holds' /\ Fitting' /\ CleanStudies' /\ S!StudyHasItsSnapshots' /\ S!CohortIsFrozen'
  BY <1>5, <1>6, SKeeps, InitSide DEF Inits
<1>8. STypes' /\ SHand'
  BY <1>5, <1>6, STurns DEF SInv, STypes
<1>9. Plans'
  BY <1>1, <1>2, <1>3, <1>5, <1>6, ServicesAssumption
     DEF SInv, STypes, Plans, Turn, Creates, Snapped, Inits, Building, S!Mine
<1>10. Builds'
  BY <1>5, <1>6 DEF SInv, Builds, Turn, Branched, S!Mine
<1>11. Progress'
  BY <1>1, <1>3, <1>5, <1>6 DEF SInv, Progress, Turn, Inits, Building, Branched, S!Alone, S!Mine
<1>12. CleanLines' /\ S!LineIsComplete'
  BY <1>1, <1>3, <1>5, <1>6
     DEF SInv, CleanLines, S!LineIsComplete, Turn, Inits, Building, S!Alone, S!Mine, S!Broke
<1> QED BY <1>7, <1>8, <1>9, <1>10, <1>11, <1>12 DEF SInv

\* What a command that builds a line works on.
LEMMA SBuilder ==
  ASSUME SInv, NEW p \in Procs, pc[p] \in Inits
  PROVE  /\ S!Mine(p) \in Studies /\ studies[S!Mine(p)] # NoStudy /\ loc[p].line \in Lines
         /\ loc[p].frozen = studies[S!Mine(p)].frozen /\ loc[p].frozen.base \in 1 .. 2
<1>1. S!Mine(p) \in Studies
  BY DEF SInv, STypes, SPlans, Inits, Building, S!Mine
<1>2. /\ studies[S!Mine(p)] \in SRows /\ loc[p].frozen = studies[S!Mine(p)].frozen
      /\ loc[p].line \in Lines /\ studies[S!Mine(p)] # NoStudy
  BY <1>1 DEF SInv, STypes, Plans
<1>3. loc[p].frozen.base \in 1 .. 2
  BY <1>2 DEF SRows, Frozen, S!Fields
<1> QED BY <1>1, <1>2, <1>3

\* A command that fails before it has a branch.
LEMMA SFails ==
  ASSUME SInv, NEW p \in Procs, pc[p] \in {"release", "digests", "branch"}, S!Raises(p),
         \/ release' = release \ {S!Mine(p)} /\ broken' = broken
         \/ /\ release' = release \cup {S!Mine(p)} /\ S!Breaks(p, "release")
            /\ pc[p] = "release",
         UNCHANGED <<regime, world, memory, manifest, link, branch, studies, starts, lines, scars>>
  PROVE  SInv'
<1>1. Turn(p) /\ pc'[p] = "idle" /\ loc'[p].study = NoStudy
  BY SRaises DEF SInv
<1>2. /\ SameBroken("memory") /\ SameBroken("manifest")
      /\ \A s \in Studies : s # S!Mine(p) =>
           (S!Broke(s, "release")' <=> S!Broke(s, "release")) /\ (s \in release' <=> s \in release)
  <2>1. CASE release' = release \ {S!Mine(p)} /\ broken' = broken
    BY <2>1, SKeeps DEF SameBroken
  <2>2. CASE release' = release \cup {S!Mine(p)} /\ S!Breaks(p, "release")
    <3>1. \A s \in Studies, x \in {"memory", "manifest", "release"} :
            S!Broke(s, x)' <=> S!Broke(s, x) \/ (s = S!Mine(p) /\ x = "release")
      BY <2>2, SBreaks
    <3> QED BY <2>2, <3>1 DEF SameBroken
  <2> QED BY <2>1, <2>2
<1>3. Holds' /\ Fitting' /\ CleanStudies' /\ S!StudyHasItsSnapshots' /\ S!CohortIsFrozen'
  BY <1>1, <1>2, InitSide DEF Inits, Building
<1>4. STypes' /\ SHand'
  BY <1>1, STurns DEF SInv, STypes
<1>5. Plans'
  BY <1>1 DEF SInv, Plans, Turn, Creates, Snapped, Inits, Building, S!Mine
<1>6. Builds'
  BY <1>1 DEF SInv, Builds, Turn, Branched, S!Mine
<1>7. Progress'
  BY <1>1 DEF SInv, SHand, Progress, Turn, Inits, Building, S!Alone, S!Mine
<1>8. S!Alone => /\ lines[S!Mine(p)] = NoLine /\ branch[S!Mine(p)] = 0
                 /\ S!Mine(p) \notin scars => S!Mine(p) \notin link
  BY SBuilder DEF SInv, SHand, Progress, CleanLines, Inits, Building
<1>9. ASSUME S!Alone, NEW s \in Studies, s = S!Mine(p), s \notin scars
      PROVE  s \in release' <=> S!Broke(s, "release")'
  <2>1. ~ S!Broke(s, "release")
    BY <1>8, <1>9 DEF SInv, CleanLines, Inits, Building
  <2>2. CASE release' = release \ {S!Mine(p)} /\ broken' = broken
    BY <2>1, <2>2, <1>9, SKeeps DEF SameBroken
  <2>3. CASE release' = release \cup {S!Mine(p)} /\ S!Breaks(p, "release")
    BY <2>1, <2>3, <1>9, SBreaks
  <2> QED BY <2>2, <2>3
<1>10. CleanLines'
  <2>1. S!Alone => \A q \in Procs : pc'[q] = "idle" /\ (q # p => pc[q] = "idle")
    BY <1>1 DEF SInv, SHand, Turn
  <2> QED BY <1>2, <1>8, <1>9, <2>1 DEF SInv, CleanLines, Inits, Building, S!Alone
<1>11. S!LineIsComplete'
  BY <1>2, <1>8 DEF SInv, S!LineIsComplete, S!Alone
<1> QED BY <1>3, <1>4, <1>5, <1>6, <1>7, <1>10, <1>11 DEF SInv

\* A command that goes on with its line.
LEMMA SBuildsOn ==
  ASSUME SInv, NEW p \in Procs, Turn(p), loc' = loc,
         UNCHANGED <<regime, world, memory, manifest, studies, starts, lines, scars, broken>>,
         \/ /\ pc[p] = "release" /\ pc'[p] = "digests" /\ UNCHANGED <<branch, link>>
            /\ release' = release \cup {S!Mine(p)}
         \/ pc[p] = "digests" /\ pc'[p] = "branch" /\ UNCHANGED <<release, branch, link>>
         \/ /\ pc[p] = "branch" /\ pc'[p] = "link" /\ UNCHANGED <<release, link>>
            /\ branch[S!Mine(p)] = 0
            /\ branch' = [branch EXCEPT ![S!Mine(p)] = loc[p].frozen.base]
         \/ /\ pc[p] = "link" /\ pc'[p] = "line" /\ UNCHANGED <<release, branch>>
            /\ link' = link \cup {S!Mine(p)}
  PROVE  SInv'
<1>1. pc[p] \in Inits /\ pc'[p] \in Building
  BY DEF Inits, Building
<1>2. S!Mine(p) \in Studies /\ loc[p].frozen.base \in 1 .. 2
  BY <1>1, SBuilder
<1>3. /\ branch' \in [Studies -> 0 .. 2]
      /\ \A s \in Studies : s # S!Mine(p) => branch'[s] = branch[s]
      /\ pc[p] = "branch" => /\ branch[S!Mine(p)] = 0
                             /\ branch'[S!Mine(p)] = loc[p].frozen.base
      /\ pc[p] # "branch" => branch' = branch
  BY <1>2 DEF SInv, STypes
<1>4. Holds' /\ Fitting' /\ CleanStudies' /\ S!StudyHasItsSnapshots' /\ S!CohortIsFrozen'
  BY <1>1, SKeeps, InitSide DEF Inits
<1>5. STypes' /\ SHand'
  BY <1>3, STurns DEF SInv, STypes
<1>6. Plans'
  BY DEF SInv, Plans, Turn, Creates, Snapped, Inits, Building, S!Mine
<1>7. Builds'
  <2>1. \A q \in Procs : pc[q] \in Branched => S!Mine(q) \in Studies
    BY SBuilder DEF Branched, Inits, Building
  <2>2. CASE pc[p] = "branch"
    <3>1. pc'[p] = "link" /\ lines[S!Mine(p)] = NoLine
      BY <1>2, <1>3, <2>2 DEF SInv, Builds
    <3>2. \A q \in Procs : pc[q] \in Branched => S!Mine(q) # S!Mine(p) /\ q # p
      BY <1>3, <2>2 DEF SInv, Builds, Branched
    <3> QED BY <1>2, <1>3, <2>1, <2>2, <3>1, <3>2 DEF SInv, Builds, Turn, Branched, S!Mine
  <2>3. CASE pc[p] # "branch"
    BY <1>3, <2>3 DEF SInv, Builds, Turn, Branched, S!Mine
  <2> QED BY <2>2, <2>3
<1>8. Progress'
  <2>1. S!Alone => \A q \in Procs : q # p => pc'[q] = "idle"
    BY <1>1 DEF SInv, SHand, Turn, Inits, Building
  <2>2. S!Alone => /\ lines[S!Mine(p)] = NoLine /\ S!Mine(p) \in starts
                   /\ S!Mine(p) \in release'
                   /\ pc[p] = "link" => S!Mine(p) \in link'
                   /\ pc'[p] = "branch" => branch[S!Mine(p)] = 0
                   /\ pc[p] = "link" => branch[S!Mine(p)] = loc[p].frozen.base
    BY <1>1 DEF SInv, Progress, Inits, Building, Branched
  <2>3. S!Alone /\ pc'[p] = "digests" =>
          branch[S!Mine(p)] = 0 /\ (S!Mine(p) \notin scars => S!Mine(p) \notin link)
    BY <1>1, <1>2 DEF SInv, SHand, Progress, CleanLines, Inits, Building
  <2>4. S!Alone /\ pc'[p] = "branch" => (S!Mine(p) \notin scars => S!Mine(p) \notin link)
    BY <1>1 DEF SInv, Progress, Inits, Building
  <2> QED BY <1>1, <1>3, <2>1, <2>2, <2>3, <2>4
          DEF Progress, Inits, Building, Branched, S!Alone, S!Mine
<1>9. CleanLines'
  <2>1. S!Alone => \A q \in Procs : q # p => pc[q] = "idle" /\ pc'[q] = "idle"
    BY <1>1 DEF SInv, SHand, Turn, Inits, Building
  <2>2. S!Mine(p)' = S!Mine(p)
    BY DEF S!Mine
  <2>3. \A s \in Studies : /\ S!Broke(s, "release")' <=> S!Broke(s, "release")
                           /\ s # S!Mine(p) => /\ s \in release' <=> s \in release
                                               /\ s \in link' <=> s \in link
    BY DEF S!Broke
  <2> QED BY <1>1, <1>2, <1>3, <2>1, <2>2, <2>3 DEF SInv, CleanLines, Inits, Building, S!Alone
<1>10. S!LineIsComplete'
  BY <1>1, <1>3 DEF SInv, Progress, S!LineIsComplete, S!Alone
<1> QED BY <1>4, <1>5, <1>6, <1>7, <1>8, <1>9, <1>10 DEF SInv

LEMMA SBuilds ==
  ASSUME SInv, NEW p \in Procs,
         \/ S!CopyRelease(p) \/ S!CheckDigests(p) \/ S!CreateBranch(p) \/ S!Activate(p)
         \/ S!ReleaseBreaks(p)
  PROVE  SInv'
<1> USE DEF S!rows
<1>0. CASE S!ReleaseBreaks(p)
  <2>1. /\ pc[p] = "release" /\ release' = release \cup {S!Mine(p)} /\ S!Breaks(p, "release")
        /\ UNCHANGED <<regime, world, memory, manifest, link, branch, studies, starts, lines, scars>>
    BY <1>0 DEF S!ReleaseBreaks
  <2>2. S!Raises(p)
    BY <2>1, SBreaks
  <2> QED BY <2>1, <2>2, SFails
<1> SUFFICES ASSUME S!CopyRelease(p) \/ S!CheckDigests(p) \/ S!CreateBranch(p) \/ S!Activate(p)
             PROVE  SInv'
  BY <1>0
<1> USE DEF S!CopyRelease, S!CheckDigests, S!CreateBranch, S!Activate
<1>1. UNCHANGED <<regime, world, memory, manifest, studies, starts, lines, scars, broken>>
  OBVIOUS
<1>2. CASE S!Raises(p) /\ ~ S!Activate(p) /\ release' = release \ {S!Mine(p)} /\ UNCHANGED branch
           /\ pc[p] \in {"release", "digests", "branch"}
  <2>1. link' = link
    BY <1>2
  <2> QED BY <1>1, <1>2, <2>1, SFails
<1>3. CASE \E from \in Inits, to \in Building :
             /\ S!Step(p, from, to) /\ loc' = loc
             /\ \/ /\ from = "release" /\ to = "digests" /\ UNCHANGED <<branch, link>>
                   /\ release' = release \cup {S!Mine(p)}
                \/ from = "digests" /\ to = "branch" /\ UNCHANGED <<release, branch, link>>
                \/ /\ from = "branch" /\ to = "link" /\ UNCHANGED <<release, link>>
                   /\ branch[S!Mine(p)] = 0
                   /\ branch' = [branch EXCEPT ![S!Mine(p)] = loc[p].frozen.base]
                \/ /\ from = "link" /\ to = "line" /\ UNCHANGED <<release, branch>>
                   /\ link' = link \cup {S!Mine(p)}
  <2>1. PICK from \in Inits, to \in Building :
             /\ S!Step(p, from, to) /\ loc' = loc
             /\ \/ /\ from = "release" /\ to = "digests" /\ UNCHANGED <<branch, link>>
                   /\ release' = release \cup {S!Mine(p)}
                \/ from = "digests" /\ to = "branch" /\ UNCHANGED <<release, branch, link>>
                \/ /\ from = "branch" /\ to = "link" /\ UNCHANGED <<release, link>>
                   /\ branch[S!Mine(p)] = 0
                   /\ branch' = [branch EXCEPT ![S!Mine(p)] = loc[p].frozen.base]
                \/ /\ from = "link" /\ to = "line" /\ UNCHANGED <<release, branch>>
                   /\ link' = link \cup {S!Mine(p)}
    BY <1>3
  <2>2. from # "idle" /\ to \in SLabels \ {"idle"}
    BY DEF Inits, Building, SLabels
  <2>3. Turn(p) /\ pc[p] = from /\ pc'[p] = to
    BY <2>1, <2>2, SGoes DEF SInv
  <2> QED BY <1>1, <2>1, <2>3, SBuildsOn
<1> QED BY <1>2, <1>3 DEF Inits, Building

LEMMA SWriteLine ==
  ASSUME SInv, NEW p \in Procs, S!WriteLine(p)
  PROVE  SInv'
<1> USE DEF S!WriteLine, S!Undo
<1>1. Turn(p) /\ pc[p] = "line" /\ pc'[p] = "idle" /\ loc'[p].study = NoStudy
  BY SRaises DEF SInv
<1>2. /\ S!Mine(p) \in Studies /\ loc[p].line \in Lines
      /\ loc[p].frozen = studies[S!Mine(p)].frozen
  BY <1>1, SBuilder DEF Inits, Building
<1>3. /\ lines[S!Mine(p)] = NoLine /\ branch[S!Mine(p)] # 0
      /\ \A q \in Procs : pc[q] \in Branched /\ S!Mine(q) = S!Mine(p) => q = p
  BY <1>1 DEF SInv, Builds, Branched
<1>4. UNCHANGED <<regime, world, memory, manifest, studies, starts, scars, broken>>
  OBVIOUS
<1>5. /\ lines' \in [Studies -> Lines \cup {NoLine}] /\ branch' \in [Studies -> 0 .. 2]
      /\ \A s \in Studies : s # S!Mine(p) => branch'[s] = branch[s] /\ lines'[s] = lines[s]
      /\ release \ {S!Mine(p)} \subseteq release' /\ link \ {S!Mine(p)} \subseteq link'
      /\ release' \subseteq release /\ link' \subseteq link
  BY <1>2 DEF SInv, STypes
<1>6. \/ lines'[S!Mine(p)] # NoLine /\ UNCHANGED <<branch, release, link>>
      \/ /\ lines'[S!Mine(p)] = NoLine /\ branch'[S!Mine(p)] = 0
         /\ S!Mine(p) \notin release' \cup link'
  BY <1>2, <1>3, ServicesAssumption DEF SInv, STypes
<1> HIDE DEF S!WriteLine, S!Undo
<1>7. Holds' /\ Fitting' /\ CleanStudies' /\ S!StudyHasItsSnapshots' /\ S!CohortIsFrozen'
  BY <1>1, <1>4, SKeeps, InitSide DEF Inits, Building
<1>8. STypes' /\ SHand'
  BY <1>1, <1>4, <1>5, STurns DEF SInv, STypes
<1>9. Plans'
  BY <1>1, <1>4 DEF SInv, Plans, Turn, Creates, Snapped, Inits, Building, S!Mine
<1>10. Builds'
  <2>1. \A q \in Procs : pc[q] \in Branched => S!Mine(q) \in Studies
    BY SBuilder DEF Branched, Inits, Building
  <2> QED BY <1>1, <1>3, <1>5, <1>6, <2>1 DEF SInv, Builds, Turn, Branched, S!Mine
<1>11. Progress'
  BY <1>1, <1>4 DEF SInv, SHand, Progress, Turn, Inits, Building, S!Alone, S!Mine
<1>12. CleanLines'
  <2>1. S!Alone => \A q \in Procs : pc'[q] = "idle" /\ (q # p => pc[q] = "idle")
    BY <1>1 DEF SInv, SHand, Turn
  <2>2. \A s \in Studies : S!Broke(s, "release")' <=> S!Broke(s, "release")
    BY <1>4 DEF S!Broke
  <2>3. ASSUME S!Alone, NEW s \in Studies, s = S!Mine(p), s \notin scars
        PROVE  ~ S!Broke(s, "release")
    BY <1>1, <1>3, <2>3 DEF SInv, CleanLines, Inits, Building
  <2> QED BY <1>3, <1>4, <1>5, <1>6, <2>1, <2>2, <2>3 DEF SInv, CleanLines, Inits, Building, S!Alone
<1>13. S!LineIsComplete'
  <2>1. S!Alone => /\ S!Mine(p) \in starts /\ S!Mine(p) \in release /\ S!Mine(p) \in link
                   /\ branch[S!Mine(p)] = studies[S!Mine(p)].frozen.base
    BY <1>1, <1>2 DEF SInv, Progress, Inits, Building, Branched
  <2> QED BY <1>4, <1>5, <1>6, <2>1 DEF SInv, S!LineIsComplete, S!Alone
<1> QED BY <1>7, <1>8, <1>9, <1>10, <1>11, <1>12, <1>13 DEF SInv

LEMMA SDies ==
  ASSUME SInv, NEW p \in Procs, S!Dies(p)
  PROVE  SInv'
<1> USE DEF S!Dies, S!disk, S!rows
<1>1. Turn(p) /\ pc[p] # "idle" /\ pc'[p] = "idle" /\ loc'[p].study = NoStudy
  BY SRaises DEF SInv
<1>2. STypes' /\ SHand'
  BY <1>1, STurns DEF SInv, STypes
<1>3. Plans'
  BY <1>1 DEF SInv, Plans, Turn, Creates, Snapped, Inits, Building, S!Mine
<1>4. Holds' /\ Builds'
  BY <1>1 DEF SInv, Holds, Builds, Turn, Snapped, Branched, S!Mine
<1>5. Fitting' /\ Progress'
  BY <1>1 DEF SInv, SHand, Fitting, Progress, Turn, Inits, Building, S!Alone, S!Mine
<1>6. CleanStudies'
  BY <1>1 DEF SInv, CleanStudies, Turn, Snapped, Filed, S!Alone, S!Mine, S!Broke
<1>7. CleanLines'
  BY <1>1 DEF SInv, CleanLines, Turn, Inits, Building, S!Alone, S!Mine, S!Broke
<1>8. S!StudyHasItsSnapshots' /\ S!CohortIsFrozen' /\ S!LineIsComplete'
  BY DEF SInv, S!StudyHasItsSnapshots, S!CohortIsFrozen, S!LineIsComplete, S!Intact, S!Alone
<1> QED BY <1>2, <1>3, <1>4, <1>5, <1>6, <1>7, <1>8 DEF SInv

LEMMA SStep ==
  ASSUME SInv, [S!Next]_(S!svars)
  PROVE  SInv'
<1>1. CASE UNCHANGED S!svars
  BY <1>1 DEF S!svars, S!disk, S!rows, SInv, STypes, Plans, Holds, Builds, SHand, Fitting,
     Progress, CleanStudies, CleanLines, S!StudyHasItsSnapshots, S!CohortIsFrozen,
     S!LineIsComplete, S!Fits, S!Known, S!Intact, S!Alone, S!Mine, S!Broke
<1>2. CASE S!Next
  BY <1>2, SWorld, SCreateBegins, SSnapshotMemory, SHolders, SWriteStudy, SInitBegins, SBuilds,
     SWriteLine, SDies DEF S!Next, S!Create, S!Initialize
<1> QED BY <1>1, <1>2

\* A registered study has its snapshots, also when commands overlap, fail or
\* die.  While commands follow one another it is like the others of its
\* cohort, an initialized line has all its parts, and what a failed command
\* leaves where none died are exactly the copies that failed on their way;
\* they stay and refuse the name (create_study, initialize_experiment_line).
THEOREM StudyStaysWhole == Spec => []StudyIsWhole
<1>1. Init => SInv
  BY SInit DEF Init
<1>2. SInv /\ [Next]_vars => SInv'
  BY SStep, Steps
<1>3. SInv => StudyIsWhole
  <2> SUFFICES ASSUME SInv PROVE StudyIsWhole
    OBVIOUS
  <2>1. ASSUME S!Alone, NEW s \in Studies, S!Quiet(s)
        PROVE  /\ studies[s] = NoStudy => /\ memory[s] # 0 <=> S!Broke(s, "memory")
                                          /\ s \in manifest <=> S!Broke(s, "manifest")
               /\ lines[s] = NoLine => /\ branch[s] = 0 /\ s \notin link
                                       /\ s \in release <=> S!Broke(s, "release")
    BY <2>1 DEF SInv, CleanStudies, CleanLines, S!Quiet
  <2>2. S!OnlyBrokenCopiesStay
    BY <2>1 DEF S!OnlyBrokenCopiesStay
  <2> QED BY <2>2 DEF SInv, StudyIsWhole
<1> QED BY <1>1, <1>2, <1>3, PTL DEF Spec

\* A line's branch is never created over or taken away, not even by commands
\* that overlap: whoever takes one away made it, and its line is not written
\* (initialize_experiment_line).
THEOREM BranchesStay == Spec => S!BranchStays
<1>1. Init => SInv
  BY SInit DEF Init
<1>2. SInv /\ [Next]_vars => SInv'
  BY SStep, Steps
<1>3. ASSUME SInv, [Next]_vars
      PROVE  [\A s \in Studies : lines[s] # NoLine => branch'[s] = branch[s]]_(S!svars)
  <2>0. S!Next \/ UNCHANGED S!svars
    BY <1>3, Steps
  <2> SUFFICES ASSUME S!Next, NEW s \in Studies, lines[s] # NoLine
               PROVE  branch'[s] = branch[s]
    BY <2>0
  <2> SUFFICES ASSUME branch' # branch PROVE branch'[s] = branch[s]
    OBVIOUS
  <2>1. PICK p \in Procs : S!CreateBranch(p) \/ S!WriteLine(p)
    BY DEF S!Next, S!Create, S!Initialize, S!Drift, S!RegisterBaseline, S!CreateBegins,
       S!SnapshotMemory, S!SnapshotBreaks, S!SnapshotManifest, S!ManifestBreaks, S!CheckCohort,
       S!WriteStudy, S!InitBegins, S!CopyRelease, S!ReleaseBreaks, S!CheckDigests, S!Activate,
       S!Dies, S!disk, S!rows
  <2>2. S!Mine(p) # s
    <3>1. CASE S!CreateBranch(p)
      BY <1>3, <3>1 DEF SInv, Builds, S!CreateBranch
    <3>2. CASE S!WriteLine(p)
      BY <1>3, <3>2 DEF SInv, Builds, Branched, S!WriteLine
    <3> QED BY <2>1, <3>1, <3>2
  <2> QED BY <1>3, <2>1, <2>2 DEF S!CreateBranch, S!WriteLine, S!Undo, SInv, STypes
<1> QED BY <1>1, <1>2, <1>3, PTL DEF Spec, S!BranchStays

-----------------------------------------------------------------------------
(* OperatorScheduler.  What the only driver has chosen is still due when   *)
(* it comes to run it.                                                     *)

LEMMA NewestIs ==
  ASSUME NEW n \in Nat, NEW T, T \subseteq 1 .. n, T # {}
  PROVE  O!Newest(T) \in T /\ \A j \in T : j <= O!Newest(T)
BY LastExists DEF O!Newest

ORuns   == [status : {"RUNNING", "COMPLETED", "FAILED", "CANCELLED"}, patch : 0 .. MaxAttempts]
OChecks == [mode : {"fast", "full"}, status : {"PASSED", "FAILED"}, patch : 0 .. O!Foreign,
            seen : 0 .. O!Foreign]
OLabels == O!Commands \cup {"idle", "backend", "review"}

OTypes ==
  /\ runs \in Seq(ORuns) /\ Len(runs) <= MaxAttempts /\ writer \in 0 .. Len(runs)
  /\ checks \in Seq(OChecks)
  /\ patch \in 0 .. O!Foreign /\ head \in 0 .. MaxAttempts
  /\ reviewing \in 0 .. Len(runs)
  /\ \A i \in 1 .. Len(runs) : runs[i].patch <= Len(runs)
  /\ opc \in [Procs -> OLabels]

\* The candidate has passed the fast check of what the last run made.
FastPassed ==
  runs # << >> /\ \E i \in DOMAIN checks :
    /\ checks[i].mode = "fast" /\ checks[i].status = "PASSED"
    /\ checks[i].patch = O!Last(runs).patch

Chosen ==
  O!Alone => \A d \in O!Driving :
    /\ opc[d] = "writer_start" => runs = << >>
    /\ opc[d] = "writer_retry" => Len(runs) <= MaxAutoRetries
    /\ opc[d] = "candidate_commit" => FastPassed

\* While a review is under way nobody writes and no other review is; only a
\* person may have edited what it was begun for.
Reviewed ==
  /\ reviewing # 0 => writer = 0
  /\ \A d \in Procs : opc[d] = "review" =>
       /\ reviewing # 0 /\ patch \in {reviewing, O!Foreign}
       /\ "human" \notin oregime => patch = reviewing
       /\ \A e \in Procs : opc[e] = "review" => d = e

OInv == /\ OTypes /\ Chosen /\ Reviewed
        /\ O!AutoRetriesAreBounded /\ O!CommittedWasChecked /\ O!PassedWasReviewed

LEMMA OInit == O!Init => OInv
<1> SUFFICES ASSUME O!Init PROVE OInv
  OBVIOUS
<1>1. OTypes
  BY ServicesAssumption DEF O!Init, OTypes, OLabels, O!Foreign
<1>2. Chosen /\ O!AutoRetriesAreBounded /\ Reviewed
  BY <1>1, ServicesAssumption
     DEF O!Init, OTypes, Chosen, O!AutoRetriesAreBounded, O!Driving, Reviewed
<1>3. O!CommittedWasChecked /\ O!PassedWasReviewed
  <2>1. O!Range(checks) = {}
    BY DEF O!Init, O!Range
  <2> QED BY <2>1 DEF O!Init, O!CommittedWasChecked, O!PassedWasReviewed, O!Passes
<1> QED BY <1>1, <1>2, <1>3 DEF OInv

\* What a run or a commit starts from was made by a run.
LEMMA LeftIs ==
  ASSUME OTypes
  PROVE  /\ O!Left \in 0 .. MaxAttempts /\ O!Left \in 0 .. Len(runs)
         /\ O!Latest("COMPLETED") => O!Left = O!Last(runs).patch
<1>1. /\ Len(runs) \in Nat /\ O!Completed \subseteq 1 .. Len(runs)
      /\ \A i \in 1 .. Len(runs) : runs[i] \in ORuns /\ runs[i].patch <= Len(runs)
  BY DEF OTypes, O!Completed
<1>2. CASE O!Completed = {}
  <2>1. ~ O!Latest("COMPLETED")
    BY <1>1, <1>2 DEF OTypes, O!Completed, O!Latest, O!Last
  <2> QED BY <1>1, <1>2, <2>1, ServicesAssumption DEF O!Left
<1>3. CASE O!Completed # {}
  <2>1. /\ O!Newest(O!Completed) \in O!Completed
        /\ \A j \in O!Completed : j <= O!Newest(O!Completed)
    BY <1>1, <1>3, NewestIs
  <2>2. O!Left = runs[O!Newest(O!Completed)].patch
    BY <1>3 DEF O!Left
  <2>3. O!Left \in 0 .. MaxAttempts /\ O!Left \in 0 .. Len(runs)
    <3>1. O!Left \in 0 .. MaxAttempts /\ O!Left <= Len(runs)
      BY <1>1, <2>1, <2>2 DEF ORuns
    <3> QED BY <1>1, <3>1, ServicesAssumption
  <2>4. O!Latest("COMPLETED") => O!Newest(O!Completed) = Len(runs)
    <3> SUFFICES ASSUME O!Latest("COMPLETED") PROVE O!Newest(O!Completed) = Len(runs)
      OBVIOUS
    <3>1. Len(runs) \in O!Completed
      BY <1>1 DEF OTypes, O!Completed, O!Latest, O!Last
    <3>2. /\ O!Newest(O!Completed) \in 1 .. Len(runs)
          /\ Len(runs) <= O!Newest(O!Completed)
      BY <1>1, <2>1, <3>1
    <3> QED BY <1>1, <3>2
  <2> QED BY <2>2, <2>3, <2>4 DEF O!Last
<1> QED BY <1>2, <1>3

\* Without a second driver whoever runs a command is the only one.
LEMMA OneDriver ==
  ASSUME O!Alone
  PROVE  \E d \in Procs : O!Driving = {d}
BY ServicesAssumption DEF O!Alone, O!Driving

LEMMA OAdvance ==
  ASSUME OInv, NEW d \in O!Driving, O!Advance(d)
  PROVE  OInv'
<1>1. PICK c \in O!Commands : O!Due(c) /\ opc' = [opc EXCEPT ![d] = c]
  BY DEF O!Advance
<1>2. UNCHANGED <<oregime, runs, writer, checks, patch, head, reviewing>>
  BY DEF O!Advance, O!records, O!candidate
<1>3. d \in Procs /\ O!Driving \subseteq Procs
  BY ServicesAssumption DEF O!Driving
<1>4. OTypes'
  BY <1>1, <1>2, <1>3 DEF OInv, OTypes, OLabels
<1>5. c = "writer_start" => runs = << >>
  BY <1>1 DEF O!Due, O!Awaits
<1>6. c = "writer_retry" => Len(runs) <= MaxAutoRetries
  <2>1. Len(runs) \in Nat
    BY DEF OInv, OTypes
  <2> QED BY <1>1, <2>1, ServicesAssumption DEF O!Due, O!Awaits, O!MayRetry
<1>7. c = "candidate_commit" => FastPassed
  <2> SUFFICES ASSUME c = "candidate_commit" PROVE FastPassed
    OBVIOUS
  <2>1. O!Checked("PASSED", "fast")
    BY <1>1 DEF O!Due, O!Awaits, O!AwaitsCommit
  <2>2. O!Matching \subseteq 1 .. Len(checks) /\ Len(checks) \in Nat
    BY DEF OInv, OTypes, O!Matching
  <2>3. O!Newest(O!Matching) \in O!Matching
    BY <2>1, <2>2, NewestIs DEF O!Checked
  <2> QED BY <2>1, <2>3 DEF FastPassed, O!Checked, O!Latest, O!Matching
<1>8. Chosen'
  BY <1>1, <1>2, <1>3, <1>5, <1>6, <1>7
     DEF OInv, OTypes, Chosen, FastPassed, O!Alone, O!Driving, O!Last
<1>9. O!AutoRetriesAreBounded' /\ O!CommittedWasChecked' /\ O!PassedWasReviewed'
  BY <1>2 DEF OInv, O!AutoRetriesAreBounded, O!CommittedWasChecked, O!PassedWasReviewed, O!Alone,
     O!Range, O!Passes
<1>10. Reviewed'
  <2>1. c # "review"
    BY DEF O!Commands
  <2> QED BY <1>1, <1>2, <1>3, <2>1 DEF OInv, OTypes, Reviewed
<1> QED BY <1>4, <1>8, <1>9, <1>10 DEF OInv

LEMMA OStartsWriter ==
  ASSUME OInv, NEW d \in O!Driving, O!StartWriter(d)
  PROVE  OInv'
<1> DEFINE r == [status |-> "RUNNING", patch |-> 0]
<1>1. /\ runs' = Append(runs, r) /\ writer' = Len(runs) + 1
      /\ opc' = [opc EXCEPT ![d] = "backend"] /\ opc[d] \in {"writer_start", "writer_retry"}
      /\ Len(runs) < MaxAttempts /\ head = 0 /\ reviewing = 0
      /\ UNCHANGED <<oregime, checks, patch, head, reviewing>>
  BY DEF O!StartWriter, O!MayWrite, O!NoActiveRun, O!candidate
<1>2. d \in Procs /\ O!Driving \subseteq Procs
  BY ServicesAssumption DEF O!Driving
<1>3. r \in ORuns /\ r.patch = 0 /\ Len(runs) \in Nat
  BY ServicesAssumption DEF ORuns, OInv, OTypes
<1> HIDE DEF r
<1>4. /\ runs' \in Seq(ORuns) /\ Len(runs') = Len(runs) + 1
      /\ \A i \in 1 .. Len(runs') : runs'[i].patch <= Len(runs')
  <2>1. /\ runs \in Seq(ORuns)
        /\ \A i \in 1 .. Len(runs) : runs[i] \in ORuns /\ runs[i].patch <= Len(runs)
    BY DEF OInv, OTypes
  <2>2. \A i \in 1 .. Len(runs) : runs[i].patch \in 0 .. MaxAttempts
    BY <2>1 DEF ORuns
  <2>3. /\ runs' \in Seq(ORuns) /\ Len(runs') = Len(runs) + 1
        /\ \A i \in 1 .. Len(runs) : runs'[i] = runs[i]
        /\ runs'[Len(runs) + 1] = r
    BY <1>1, <1>3, <2>1
  <2> QED BY <1>3, <2>1, <2>2, <2>3
<1>5. OTypes'
  BY <1>1, <1>2, <1>3, <1>4, ServicesAssumption DEF OInv, OTypes, OLabels
<1>6. Chosen'
  BY <1>1, <1>2, OneDriver DEF OInv, OTypes, Chosen, O!Alone, O!Driving
<1>7. O!AutoRetriesAreBounded'
  BY <1>1, <1>3, <1>4, ServicesAssumption DEF OInv, Chosen, O!AutoRetriesAreBounded, O!Alone
<1>8. O!CommittedWasChecked' /\ O!PassedWasReviewed'
  BY <1>1, <1>3, <1>4
     DEF OInv, O!CommittedWasChecked, O!PassedWasReviewed, O!Alone, O!Range, O!Passes
<1>9. Reviewed'
  BY <1>1, <1>2 DEF OInv, OTypes, Reviewed
<1> QED BY <1>5, <1>6, <1>7, <1>8, <1>9 DEF OInv

LEMMA AppendRange ==
  ASSUME NEW T, NEW s \in Seq(T), NEW x \in T
  PROVE  /\ Append(s, x) \in Seq(T)
         /\ O!Range(s) \subseteq O!Range(Append(s, x))
         /\ \A y \in O!Range(Append(s, x)) : y \in O!Range(s) \/ y = x
<1> DEFINE t == Append(s, x)
<1>1. /\ t \in Seq(T) /\ DOMAIN t = 1 .. Len(s) + 1 /\ DOMAIN s = 1 .. Len(s)
      /\ Len(s) \in Nat
      /\ \A i \in 1 .. Len(s) : t[i] = s[i]
      /\ t[Len(s) + 1] = x
  OBVIOUS
<1> HIDE DEF t
<1>2. \A i \in DOMAIN t : i \in DOMAIN s \/ i = Len(s) + 1
  BY <1>1
<1>3. \A i \in DOMAIN s : i \in DOMAIN t /\ t[i] = s[i]
  BY <1>1
<1>4. O!Range(s) \subseteq O!Range(t) /\ \A y \in O!Range(t) : y \in O!Range(s) \/ y = x
  BY <1>1, <1>2, <1>3 DEF O!Range
<1> QED BY <1>1, <1>4 DEF t

\* What a full check may record as passed.
Earned(c) == c.mode = "full" /\ c.status = "PASSED" =>
               /\ c.patch \in 1 .. Len(runs) /\ c.seen \in {c.patch, O!Foreign}
               /\ "human" \notin oregime => c.seen = c.patch

\* A command comes to its end: it may have changed runs, recorded a check,
\* changed the candidate or committed it.
LEMMA OEnds ==
  ASSUME OInv, NEW d \in O!Driving, O!Finish(d), oregime' = oregime,
         runs' \in Seq(ORuns), Len(runs') = Len(runs), writer' \in {writer, 0},
         \A i \in 1 .. Len(runs) : runs'[i].patch <= Len(runs),
         patch' \in 0 .. O!Foreign, patch' = patch \/ writer # 0,
         head' \in 0 .. MaxAttempts,
         reviewing' = reviewing \/ (reviewing' = 0 /\ opc[d] = "review"),
         O!Alone /\ head' # 0 /\ head' # head =>
           \E c \in O!Range(checks) : c.mode = "fast" /\ c.status = "PASSED" /\ c.patch = head',
         \/ checks' = checks
         \/ \E c \in OChecks : checks' = Append(checks, c) /\ Earned(c)
  PROVE  OInv'
<1>1. d \in Procs /\ O!Driving \subseteq Procs /\ opc' = [opc EXCEPT ![d] = "idle"]
  BY ServicesAssumption DEF O!Driving, O!Finish
<1>2. checks \in Seq(OChecks)
  BY DEF OInv, OTypes
<1>3. /\ checks' \in Seq(OChecks)
      /\ O!Range(checks) \subseteq O!Range(checks')
      /\ \A c \in O!Range(checks') : c \in O!Range(checks) \/ Earned(c)
  <2>1. CASE checks' = checks
    BY <1>2, <2>1 DEF O!Range
  <2>2. ASSUME NEW c \in OChecks, checks' = Append(checks, c), Earned(c)
        PROVE  /\ checks' \in Seq(OChecks)
               /\ O!Range(checks) \subseteq O!Range(checks')
               /\ \A x \in O!Range(checks') : x \in O!Range(checks) \/ x = c
    BY <1>2, <2>2, AppendRange
  <2> QED BY <2>1, <2>2
<1>4. OTypes'
  BY <1>1, <1>3 DEF OInv, OTypes, OLabels, O!Foreign
<1>5. Chosen'
  BY <1>1, OneDriver DEF OInv, OTypes, Chosen, O!Alone, O!Driving
<1>6. O!AutoRetriesAreBounded'
  BY DEF OInv, O!AutoRetriesAreBounded, O!Alone
<1>7. O!CommittedWasChecked'
  BY <1>3 DEF OInv, O!CommittedWasChecked, O!Alone
<1>8. O!PassedWasReviewed'
  BY <1>3 DEF OInv, O!PassedWasReviewed, O!Passes, O!Foreign, Earned
<1>9. Reviewed'
  <2>1. opc' \in [Procs -> OLabels] /\ opc'[d] = "idle"
        /\ \A e \in Procs : opc'[e] = "review" => opc[e] = "review" /\ e # d
    BY <1>1 DEF OInv, OTypes, OLabels
  <2>2. \A e \in Procs : opc'[e] = "review" =>
          /\ reviewing # 0 /\ writer = 0 /\ reviewing' = reviewing /\ patch' = patch
    BY <1>1, <2>1 DEF OInv, Reviewed
  <2> QED BY <2>1, <2>2 DEF OInv, Reviewed, O!Foreign
<1> QED BY <1>4, <1>5, <1>6, <1>7, <1>8, <1>9 DEF OInv

LEMMA SetStatus ==
  ASSUME NEW s \in Seq(ORuns), NEW i \in 1 .. Len(s),
         NEW x \in {"RUNNING", "COMPLETED", "FAILED", "CANCELLED"},
         NEW t, t = [s EXCEPT ![i].status = x]
  PROVE  /\ t \in Seq(ORuns) /\ Len(t) = Len(s)
         /\ \A j \in 1 .. Len(s) : t[j].patch = s[j].patch
<1> DEFINE r == [s[i] EXCEPT !.status = x]
<1>1. s[i] \in ORuns
  OBVIOUS
<1>2. r \in ORuns /\ r.patch = s[i].patch
  BY <1>1 DEF ORuns
<1>3. t = [s EXCEPT ![i] = r]
  OBVIOUS
<1> HIDE DEF r
<1>4. t \in Seq(ORuns) /\ Len(t) = Len(s)
  BY <1>2, <1>3
<1>5. \A j \in 1 .. Len(s) : t[j].patch = s[j].patch
  BY <1>2, <1>3
<1> QED BY <1>4, <1>5

LEMMA OTypesOf ==
  ASSUME OInv
  PROVE  /\ runs \in Seq(ORuns) /\ Len(runs) \in Nat /\ Len(runs) <= MaxAttempts
         /\ writer \in 0 .. Len(runs) /\ patch \in 0 .. O!Foreign /\ head \in 0 .. MaxAttempts
         /\ \A i \in 1 .. Len(runs) : runs[i].patch <= Len(runs)
         /\ MaxAttempts \in Nat /\ O!Foreign = MaxAttempts + 1
BY ServicesAssumption DEF OInv, OTypes, O!Foreign

LEMMA OWriterEnds ==
  ASSUME OInv, NEW d \in O!Driving, O!WriterCompletes(d) \/ O!WriterFails(d)
  PROVE  OInv'
<1>1. CASE O!WriterCompletes(d)
  <2> DEFINE r == [status |-> "COMPLETED", patch |-> patch']
  <2>1. /\ O!Finish(d) /\ writer # 0 /\ patch = O!Left /\ patch' \in {patch, writer}
        /\ runs' = [runs EXCEPT ![writer] = r] /\ writer' = 0
        /\ UNCHANGED <<oregime, checks, head, reviewing>>
    BY <1>1 DEF O!WriterCompletes, O!AdmissionChain
  <2>2. r \in ORuns /\ r.patch <= Len(runs)
    BY <2>1, OTypesOf, LeftIs DEF OInv, ORuns
  <2> HIDE DEF r
  <2>3. /\ runs' \in Seq(ORuns) /\ Len(runs') = Len(runs)
        /\ \A i \in 1 .. Len(runs) : runs'[i].patch <= Len(runs)
    BY <2>1, <2>2, OTypesOf
  <2>4. patch' \in 0 .. O!Foreign
    BY <2>1, OTypesOf
  <2> QED BY <2>1, <2>3, <2>4, OEnds, OTypesOf
<1>2. CASE O!WriterFails(d)
  <2>1. /\ O!Finish(d) /\ writer # 0 /\ patch' \in {patch, O!Left} /\ head' = 0
        /\ runs' = [runs EXCEPT ![writer].status = "FAILED"] /\ writer' = 0
        /\ UNCHANGED <<oregime, checks, reviewing>>
    BY <1>2 DEF O!WriterFails
  <2>2. /\ runs' \in Seq(ORuns) /\ Len(runs') = Len(runs)
        /\ \A i \in 1 .. Len(runs) : runs'[i].patch <= Len(runs)
    <3>1. writer \in 1 .. Len(runs) /\ runs \in Seq(ORuns)
      BY <2>1, OTypesOf
    <3>2. /\ runs' \in Seq(ORuns) /\ Len(runs') = Len(runs)
          /\ \A i \in 1 .. Len(runs) : runs'[i].patch = runs[i].patch
      BY <2>1, <3>1, SetStatus, SMTT(30)
    <3> QED BY <3>2, OTypesOf
  <2>3. patch' \in 0 .. O!Foreign
    BY <2>1, OTypesOf, LeftIs DEF OInv
  <2> QED BY <2>1, <2>2, <2>3, OEnds, OTypesOf
<1> QED BY <1>1, <1>2

\* The last look at the candidate before the review.
LEMMA OReviewBegins ==
  ASSUME OInv, NEW d \in O!Driving, O!ReviewBegins(d)
  PROVE  OInv'
<1>1. /\ opc' = [opc EXCEPT ![d] = "review"] /\ reviewing' = patch
      /\ writer = 0 /\ reviewing = 0 /\ patch = O!Left /\ patch = head /\ head # 0
      /\ UNCHANGED <<oregime, runs, writer, checks, patch, head>>
  BY DEF O!ReviewBegins, O!MayCheck, O!NoActiveRun, O!Deserves, O!AdmissionChain, O!Dirty,
     O!records, O!candidate
<1>2. d \in Procs /\ O!Driving \subseteq Procs
  BY ServicesAssumption DEF O!Driving
<1>3. patch \in 1 .. Len(runs)
  BY <1>1, LeftIs, OTypesOf DEF OInv
<1>4. OTypes'
  BY <1>1, <1>2, <1>3 DEF OInv, OTypes, OLabels
<1>5. Chosen'
  BY <1>1, <1>2 DEF OInv, OTypes, Chosen, FastPassed, O!Alone, O!Driving, O!Last
<1>6. Reviewed'
  <2>1. \A e \in Procs : opc'[e] = "review" <=> e = d
    BY <1>1, <1>2 DEF OInv, OTypes, Reviewed
  <2> QED BY <1>1, <1>3, <2>1 DEF Reviewed
<1>7. O!AutoRetriesAreBounded' /\ O!CommittedWasChecked' /\ O!PassedWasReviewed'
  BY <1>1 DEF OInv, O!AutoRetriesAreBounded, O!CommittedWasChecked, O!PassedWasReviewed, O!Alone,
     O!Range, O!Passes
<1> QED BY <1>4, <1>5, <1>6, <1>7 DEF OInv

\* Commands that leave runs and candidate alone and record no full check.
LEMMA OChecksEnd ==
  ASSUME OInv, NEW d \in O!Driving,
         \/ O!Start(d) \/ O!WriterReturns(d) \/ O!FastCheck(d) \/ O!RunExperiment(d)
         \/ O!FullFails(d) \/ O!Raises(d) \/ O!Dies(d)
  PROVE  OInv'
<1> USE DEF O!records, O!candidate
<1>1. O!Finish(d) /\ UNCHANGED <<oregime, runs, writer, patch, head, reviewing>>
  BY DEF O!Start, O!WriterReturns, O!FastCheck, O!RunExperiment, O!FullFails, O!Raises, O!Dies
<1>2. \/ checks' = checks
      \/ \E mode \in {"fast", "full"}, status \in {"PASSED", "FAILED"} :
           /\ checks' = Append(checks, [mode |-> mode, status |-> status, patch |-> patch,
                                       seen |-> 0])
           /\ ~ (mode = "full" /\ status = "PASSED")
  BY DEF O!Start, O!WriterReturns, O!FastCheck, O!RunExperiment, O!FullFails, O!Raises, O!Dies,
     O!Concludes
<1> DEFINE Fine == \E c \in OChecks : checks' = Append(checks, c) /\ Earned(c)
<1>3. ASSUME NEW mode \in {"fast", "full"}, NEW status \in {"PASSED", "FAILED"},
             checks' = Append(checks, [mode |-> mode, status |-> status, patch |-> patch,
                                       seen |-> 0]),
             ~ (mode = "full" /\ status = "PASSED")
      PROVE  Fine
  <2> DEFINE c == [mode |-> mode, status |-> status, patch |-> patch, seen |-> 0]
  <2>1. c \in OChecks /\ c.mode = mode /\ c.status = status
    BY OTypesOf DEF OChecks
  <2>2. checks' = Append(checks, c)
    BY <1>3
  <2> HIDE DEF c
  <2> QED BY <1>3, <2>1, <2>2 DEF Earned
<1> HIDE DEF Fine
<1>4. checks' = checks \/ Fine
  BY <1>2, <1>3
<1>5. /\ runs' \in Seq(ORuns) /\ Len(runs') = Len(runs) /\ writer' = writer
      /\ \A i \in 1 .. Len(runs) : runs'[i].patch <= Len(runs)
      /\ patch' \in 0 .. O!Foreign /\ patch' = patch
      /\ head' \in 0 .. MaxAttempts /\ head' = head
  BY <1>1, OTypesOf
<1> HIDE DEF O!records, O!candidate
<1> QED BY <1>1, <1>4, <1>5, OEnds DEF Fine

\* A review ends: it passed what it saw, or it failed or raised.
LEMMA OReviewEnds ==
  ASSUME OInv, NEW d \in O!Driving,
         O!ReviewRaises(d) \/ (\E passed \in BOOLEAN : O!Review(d, passed))
  PROVE  OInv'
<1> USE DEF O!records, O!candidate
<1>1. /\ O!Finish(d) /\ opc[d] = "review" /\ reviewing' = 0
      /\ UNCHANGED <<oregime, runs, writer, patch, head>>
  BY DEF O!ReviewRaises, O!Review, O!UnderReview
<1>2. \E status \in {"PASSED", "FAILED"}, seen \in {0, reviewing, patch} :
        /\ checks' = Append(checks, [mode |-> "full", status |-> status, patch |-> reviewing,
                                    seen |-> seen])
        /\ status = "PASSED" => seen \in {reviewing, patch}
  BY DEF O!ReviewRaises, O!Review, O!Concludes
<1>3. d \in Procs /\ reviewing \in 1 .. Len(runs)
  BY <1>1, ServicesAssumption DEF O!Driving, OInv, OTypes, Reviewed
<1>4. patch \in {reviewing, O!Foreign} /\ ("human" \notin oregime => patch = reviewing)
  BY <1>1, <1>3 DEF OInv, Reviewed
<1> DEFINE Fine == \E c \in OChecks : checks' = Append(checks, c) /\ Earned(c)
<1>5. ASSUME NEW status \in {"PASSED", "FAILED"}, NEW seen \in {0, reviewing, patch},
             checks' = Append(checks, [mode |-> "full", status |-> status, patch |-> reviewing,
                                       seen |-> seen]),
             status = "PASSED" => seen \in {reviewing, patch}
      PROVE  Fine
  <2> DEFINE c == [mode |-> "full", status |-> status, patch |-> reviewing, seen |-> seen]
  <2>1. /\ c \in OChecks /\ c.status = status /\ c.patch = reviewing /\ c.seen = seen
    BY <1>3, OTypesOf DEF OChecks
  <2>2. checks' = Append(checks, c)
    BY <1>5
  <2> HIDE DEF c
  <2>3. Earned(c)
    BY <1>3, <1>4, <1>5, <2>1 DEF Earned
  <2> QED BY <2>1, <2>2, <2>3
<1> HIDE DEF Fine
<1>6. Fine
  BY <1>2, <1>5
<1>7. /\ runs' \in Seq(ORuns) /\ Len(runs') = Len(runs) /\ writer' = writer
      /\ \A i \in 1 .. Len(runs) : runs'[i].patch <= Len(runs)
      /\ patch' \in 0 .. O!Foreign /\ patch' = patch
      /\ head' \in 0 .. MaxAttempts /\ head' = head
  BY <1>1, OTypesOf
<1> HIDE DEF O!records, O!candidate
<1> QED BY <1>1, <1>6, <1>7, OEnds DEF Fine

LEMMA OCommits ==
  ASSUME OInv, NEW d \in O!Driving, O!CommitCandidate(d)
  PROVE  OInv'
<1>1. /\ O!Finish(d) /\ opc[d] = "candidate_commit" /\ O!Latest("COMPLETED")
      /\ patch = O!Left /\ head' = patch
      /\ UNCHANGED <<oregime, runs, writer, checks, patch, reviewing>>
  BY DEF O!CommitCandidate, O!AdmissionChain, O!records
<1>2. head' \in 0 .. MaxAttempts /\ head' = O!Last(runs).patch
  BY <1>1, LeftIs DEF OInv
<1>3. O!Alone => \E c \in O!Range(checks) :
                   c.mode = "fast" /\ c.status = "PASSED" /\ c.patch = head'
  BY <1>1, <1>2 DEF OInv, Chosen, FastPassed, O!Range
<1> QED BY <1>1, <1>2, <1>3, OEnds, OTypesOf

LEMMA OHuman ==
  ASSUME OInv, O!Human
  PROVE  OInv'
<1> USE DEF O!records, O!candidate
<1>1. CASE O!CancelWriter
  <2>1. /\ runs' = [runs EXCEPT ![writer].status = "CANCELLED"] /\ writer' = 0 /\ writer # 0
        /\ UNCHANGED <<oregime, checks, patch, head, reviewing, opc>>
    BY <1>1 DEF O!CancelWriter
  <2>2. /\ runs' \in Seq(ORuns) /\ Len(runs') = Len(runs)
        /\ \A j \in 1 .. Len(runs) : runs'[j].patch = runs[j].patch
    <3>1. writer \in 1 .. Len(runs) /\ runs \in Seq(ORuns)
      BY <2>1, OTypesOf
    <3> QED BY <2>1, <3>1, SetStatus, SMTT(30)
  <2>3. OTypes'
    BY <2>1, <2>2, OTypesOf DEF OInv, OTypes
  <2>4. (runs = << >> <=> Len(runs) = 0) /\ (runs' = << >> <=> Len(runs') = 0)
    BY <2>2, OTypesOf
  <2>5. FastPassed => FastPassed'
    BY <2>1, <2>2, <2>4, OTypesOf DEF FastPassed, O!Last
  <2>6. Chosen'
    BY <2>1, <2>2, <2>4, <2>5 DEF OInv, Chosen, O!Alone, O!Driving
  <2>7. O!AutoRetriesAreBounded' /\ O!CommittedWasChecked' /\ O!PassedWasReviewed'
    BY <2>1, <2>2 DEF OInv, O!AutoRetriesAreBounded, O!CommittedWasChecked, O!PassedWasReviewed,
       O!Alone, O!Range, O!Passes
  <2>8. Reviewed'
    BY <2>1 DEF OInv, Reviewed
  <2> QED BY <2>3, <2>6, <2>7, <2>8 DEF OInv
<1>2. CASE O!Supervise \/ O!Edit \/ O!Reopen \/ O!Close
  <2>1. /\ UNCHANGED <<oregime, runs, writer, checks, head, reviewing, opc>>
        /\ patch' \in {patch, O!Foreign} /\ ("human" \in oregime \/ patch' = patch)
    BY <1>2 DEF O!Supervise, O!Edit, O!Reopen, O!Close
  <2>2. OTypes'
    BY <2>1, OTypesOf DEF OInv, OTypes
  <2>3. Reviewed'
    BY <2>1 DEF OInv, Reviewed, O!Foreign
  <2> QED BY <2>1, <2>2, <2>3 DEF OInv, Chosen, FastPassed, O!AutoRetriesAreBounded,
          O!CommittedWasChecked, O!PassedWasReviewed, O!Passes, O!Alone, O!Driving, O!Range, O!Last
<1> QED BY <1>1, <1>2 DEF O!Human

LEMMA OStep ==
  ASSUME OInv, [O!Next]_(O!osvars)
  PROVE  OInv'
<1>1. CASE UNCHANGED O!osvars
  BY <1>1 DEF O!osvars, O!records, O!candidate, OInv, OTypes, Chosen, FastPassed, Reviewed,
     O!AutoRetriesAreBounded, O!CommittedWasChecked, O!PassedWasReviewed, O!Passes, O!Alone,
     O!Driving, O!Range, O!Last
<1>2. CASE O!Next
  BY <1>2, OAdvance, OStartsWriter, OWriterEnds, OChecksEnd, OReviewBegins, OReviewEnds,
     OCommits, OHuman
     DEF O!Next, O!Perform
<1> QED BY <1>1, <1>2

\* A request that one driver drives has no more runs than the automatic retries
\* allow and commits only what a fast check passed.  With any drivers, no full
\* check passes without a review that passed what a Writer made: the very patch
\* where no person edits the worktree, and else that patch or the edit which the
\* verifier found there, as nobody writes while a check is under review
\* (advance, _semantic_review, verify, require_no_active_run).
THEOREM AttemptsStayGoverned == Spec => []AttemptsAreGoverned
<1>1. Init => OInv
  BY OInit DEF Init
<1>2. OInv /\ [Next]_vars => OInv'
  BY OStep, Steps
<1>3. OInv => AttemptsAreGoverned
  BY DEF OInv, AttemptsAreGoverned
<1> QED BY <1>1, <1>2, <1>3, PTL DEF Spec

-----------------------------------------------------------------------------
(* Measurement.  The rules are monotone, commits are never rewritten, and  *)
(* only a command whose row is live writes that row.                       *)

LEMMA MetricsAre ==
  ASSUME NEW o
  PROVE  /\ DOMAIN M!Metrics(o) = {"pass_rate", "artifact_completeness", "runtime_seconds"}
         /\ M!Metrics(o)["pass_rate"] = o.passes
         /\ M!Metrics(o)["artifact_completeness"] = ProfileCommands - o.lost
         /\ M!Metrics(o)["runtime_seconds"] = o.time
BY DEF M!Metrics

\* A rule that holds of a value holds of a better one.
LEMMA HoldsOfBetter ==
  ASSUME NEW rule, NEW old \in Int, NEW new \in Int, NEW best \in Int,
         rule.absolute \in Int \cup {Unset}, rule.percent \in Int \cup {Unset},
         rule.minimum \in Int \cup {Unset}, rule.maximum \in Int \cup {Unset},
         \/ rule.better = "higher" /\ rule.maximum = Unset /\ best >= new
         \/ rule.better = "lower" /\ rule.minimum = Unset /\ best <= new,
         M!Holds(rule, old, new)
  PROVE  M!Holds(rule, old, best)
<1> DEFINE r == M!Regression(rule, old, new)
           s == M!Regression(rule, old, best)
           bound == rule.percent * M!Magnitude(old)
<1>1. r \in Int /\ s \in Int /\ s <= r
  BY DEF M!Regression
<1>2. rule.percent # Unset => bound \in Int
  <2>1. M!Magnitude(old) \in Int
    BY DEF M!Magnitude
  <2> QED BY <2>1
<1>3. /\ rule.absolute # Unset => r <= rule.absolute
      /\ rule.minimum # Unset => new >= rule.minimum
      /\ rule.maximum # Unset => new <= rule.maximum
      /\ rule.percent # Unset /\ old # 0 /\ M!Magnitude(old) >= rule.from => 100 * r <= bound
  BY DEF M!Holds
<1> HIDE DEF r, s, bound
<1>4. rule.absolute # Unset => s <= rule.absolute
  BY <1>1, <1>3
<1>5. (rule.minimum # Unset => best >= rule.minimum) /\ (rule.maximum # Unset => best <= rule.maximum)
  BY <1>3
<1>6. rule.percent # Unset /\ old # 0 /\ M!Magnitude(old) >= rule.from => 100 * s <= bound
  BY <1>1, <1>2, <1>3
<1> QED BY <1>4, <1>5, <1>6 DEF M!Holds, r, s, bound

\* What is no worse passes as many commands.
LEMMA NoWorsePasses ==
  ASSUME NEW old \in Outcomes, NEW new \in Outcomes, M!NoWorse(old, new)
  PROVE  new.passes >= old.passes
<1>1. M!Holds(Rules["pass_rate"], old.passes, new.passes)
  BY MetricsAre DEF M!NoWorse
<1>2. old.passes \in Int /\ new.passes \in Int
  BY MeasurementAssumption
<1> QED BY <1>1, <1>2, MeasurementAssumption DEF M!Holds, M!Regression

\* What is at least as good in every metric is no worse either.
LEMMA BetterIsNoWorse ==
  ASSUME NEW old \in Outcomes, NEW new \in Outcomes, NEW best \in Outcomes,
         M!NoWorse(old, new),
         best.passes >= new.passes, best.lost <= new.lost, best.time <= new.time
  PROVE  M!NoWorse(old, best)
<1>1. /\ old.passes \in Int /\ new.passes \in Int /\ best.passes \in Int
      /\ old.lost \in Int /\ new.lost \in Int /\ best.lost \in Int
      /\ old.time \in Int /\ new.time \in Int /\ best.time \in Int /\ ProfileCommands \in Int
  BY MeasurementAssumption
<1>2. M!Holds(Rules["pass_rate"], old.passes, best.passes)
  <2>1. M!Holds(Rules["pass_rate"], old.passes, new.passes)
    BY MetricsAre DEF M!NoWorse
  <2> QED BY <1>1, <2>1, HoldsOfBetter, MeasurementAssumption
<1>3. M!Holds(Rules["artifact_completeness"], ProfileCommands - old.lost, ProfileCommands - best.lost)
  <2>1. M!Holds(Rules["artifact_completeness"], ProfileCommands - old.lost, ProfileCommands - new.lost)
    BY MetricsAre DEF M!NoWorse
  <2>2. ProfileCommands - best.lost >= ProfileCommands - new.lost
    BY <1>1
  <2> QED BY <1>1, <2>1, <2>2, HoldsOfBetter, MeasurementAssumption
<1>4. M!Holds(Rules["runtime_seconds"], old.time, best.time)
  <2>1. M!Holds(Rules["runtime_seconds"], old.time, new.time)
    BY MetricsAre DEF M!NoWorse
  <2> QED BY <1>1, <2>1, HoldsOfBetter, MeasurementAssumption
<1>5. DOMAIN M!Metrics(best) \subseteq DOMAIN Rules
  BY MetricsAre DEF M!NoWorse
<1> QED BY <1>2, <1>3, <1>4, <1>5, MetricsAre DEF M!NoWorse

LEMMA LastOfIs ==
  ASSUME NEW n \in Nat, NEW T, T \subseteq 1 .. n, T # {}
  PROVE  M!LastOf(T) \in T /\ \A j \in T : j <= M!LastOf(T)
BY LastExists DEF M!LastOf

MBases   == [at : Nat, setup : Setups, seen : Outcomes]
MCommits == [code : Codes \cup {1}, baseline : MBases \cup {NoBaseline}]
MRows    == [status : {"CREATED", "RUNNING", "COMPLETED", "FAILED"}, head : Nat,
             setup : Setups, seen : Outcomes \cup {Unset}]

MTypes ==
  /\ history \in Seq(MCommits) /\ Len(history) >= 1
  /\ base \in 0 .. Len(history)
  /\ file \in MBases \cup {NoBaseline} /\ h0 \in MBases \cup {NoBaseline}
  /\ cand \in [head : Nat, edits : {0, 1}]
  /\ exps \in Seq(MRows)
  /\ \A i \in DOMAIN exps : exps[i].status = "COMPLETED" => exps[i].seen \in Outcomes
  /\ live \subseteq DOMAIN exps /\ \A i \in live : exps[i].status = "RUNNING"
  /\ admitted \in Outcomes \cup {Unset}

\* What a baseline says was measured on a commit that exists.
Sound(b) == b # NoBaseline => b.at \in 1 .. Len(history) /\ ~ b.seen.harness

Baselines ==
  /\ Sound(file) /\ Sound(h0)
  /\ \A i \in DOMAIN history : Sound(history[i].baseline)

\* How far the request and its study have come.
Stages ==
  /\ stage \in {"NONE", "STUDY", "ACTIVE", "VERIFIED", "INTEGRATED"}
  /\ stage = "NONE" <=> base = 0
  /\ base = 0 => h0 = NoBaseline /\ admitted = Unset
  /\ stage \in {"NONE", "STUDY"} => exps = << >>
  /\ metric # NoMetric => stage = "INTEGRATED"

Verdict ==
  stage \in {"VERIFIED", "INTEGRATED"} =>
    /\ verified.row \in DOMAIN exps
    /\ exps[verified.row].status = "COMPLETED" /\ exps[verified.row].head = verified.head
    /\ exps[verified.row].setup = M!Baseline.setup
    /\ M!Fresh(base) /\ M!NoWorse(M!Baseline.seen, exps[verified.row].seen)

Admittance == admitted # Unset => M!Fresh(base) /\ M!NoWorse(M!Baseline.seen, admitted)

Earning == metric # NoMetric => metric.row \in DOMAIN exps /\ M!MetricWasEarned

MInv == /\ MTypes /\ Baselines /\ Stages /\ Verdict /\ Admittance /\ Earning
        /\ M!StartingPointIsOfTheStudy

\* A row that may still speak against the one that a check has read: a run of
\* the same commit and setup that completed after it.
Later(i) == /\ i > checking.row /\ exps[i].status = "COMPLETED"
            /\ exps[i].head = checking.head /\ exps[i].setup = M!Baseline.setup

\* While a check is active its candidate stays and no experiment begins, so what
\* completes after it has read the rows was running then.
Watching ==
  checking # M!NoCheck =>
    /\ stage = "ACTIVE" /\ cand.head = checking.head
    /\ checking.row \in DOMAIN exps
    /\ exps[checking.row].status = "COMPLETED" /\ exps[checking.row].head = checking.head
    /\ exps[checking.row].setup = M!Baseline.setup
    /\ M!Fresh(base) /\ M!NoWorse(M!Baseline.seen, exps[checking.row].seen)
    /\ checking.running \subseteq DOMAIN exps /\ live \subseteq checking.running
    /\ \A i \in DOMAIN exps : Later(i) => i \in checking.running

MAll == MInv /\ Watching

LEMMA MInit == M!Init => MAll
<1> SUFFICES ASSUME M!Init PROVE MAll
  OBVIOUS
<1>1. history \in Seq(MCommits) /\ Len(history) = 1 /\ DOMAIN history = {1}
      /\ history[1].baseline = NoBaseline
  <2> DEFINE c == [code |-> 1, baseline |-> NoBaseline]
  <2>1. c \in MCommits /\ history = <<c>> /\ c.baseline = NoBaseline
    BY DEF M!Init, MCommits
  <2> HIDE DEF c
  <2> QED BY <2>1
<1>2. MTypes
  BY <1>1 DEF M!Init, MTypes
<1>3. Baselines /\ Stages /\ Verdict /\ Admittance /\ Earning /\ M!StartingPointIsOfTheStudy
  BY <1>1 DEF M!Init, Baselines, Sound, Stages, Verdict, Admittance, Earning,
     M!StartingPointIsOfTheStudy
<1>4. Watching
  BY DEF M!Init, Watching
<1> QED BY <1>2, <1>3, <1>4 DEF MInv, MAll

\* Commits are added at the end, and rows that ended stay.
Grows ==
  /\ history' \in Seq(MCommits) /\ Len(history) <= Len(history')
  /\ \A i \in 1 .. Len(history) : history'[i] = history[i]

KeepsRows ==
  /\ exps' \in Seq(MRows) /\ Len(exps) <= Len(exps')
  /\ \A i \in DOMAIN exps : exps[i].status \in {"COMPLETED", "FAILED"} => exps'[i] = exps[i]

LEMMA BaseStays ==
  ASSUME MInv, Grows, base' = base, base # 0
  PROVE  M!Baseline' = M!Baseline /\ (M!Fresh(base) => M!Fresh(base)')
<1>1. base \in 1 .. Len(history) /\ history \in Seq(MCommits)
  BY DEF MInv, MTypes
<1>2. history'[base] = history[base]
  BY <1>1 DEF Grows
<1>3. Sound(history[base].baseline)
  BY <1>1 DEF MInv, Baselines
<1>4. M!Fresh(base) => M!Fresh(base)'
  BY <1>2, <1>3 DEF Grows, M!Fresh, Sound
<1> QED BY <1>2, <1>4 DEF M!Baseline

\* What was measured, verified and earned stays so.
LEMMA MKeeps ==
  ASSUME MInv, Grows, KeepsRows, UNCHANGED <<base, verified, h0>>,
         stage' \in {"VERIFIED", "INTEGRATED"} => stage \in {"VERIFIED", "INTEGRATED"}
  PROVE  /\ Verdict' /\ M!StartingPointIsOfTheStudy'
         /\ admitted' = admitted => Admittance'
         /\ metric' = metric => Earning'
         /\ \A b : Sound(b) => (b # NoBaseline => b.at \in 1 .. Len(history')) /\ Sound(b)
<1>1. base # 0 => M!Baseline' = M!Baseline /\ (M!Fresh(base) => M!Fresh(base)')
  BY BaseStays
<1>2. base = 0 <=> stage = "NONE"
  BY DEF MInv, Stages
<1>3. exps \in Seq(MRows) /\ history \in Seq(MCommits) /\ base \in 0 .. Len(history)
  BY DEF MInv, MTypes
<1>4. \A i \in DOMAIN exps : i \in DOMAIN exps'
  BY <1>3 DEF KeepsRows
<1>5. Verdict'
  BY <1>1, <1>2, <1>4 DEF MInv, Verdict, KeepsRows
<1>6. admitted' = admitted => Admittance'
  BY <1>1 DEF MInv, Stages, Admittance
<1>7. metric' = metric => Earning'
  BY <1>4 DEF MInv, Earning, M!MetricWasEarned, KeepsRows
<1>8. M!StartingPointIsOfTheStudy'
  BY <1>3 DEF MInv, Stages, Baselines, Sound, Grows, M!StartingPointIsOfTheStudy
<1>9. \A b : Sound(b) => (b # NoBaseline => b.at \in 1 .. Len(history')) /\ Sound(b)
  BY <1>3 DEF Sound, Grows
<1> QED BY <1>5, <1>6, <1>7, <1>8, <1>9

LEMMA BaselinesStay ==
  ASSUME MInv, Grows, UNCHANGED <<file, h0>>,
         \A i \in 1 .. Len(history') : i > Len(history) =>
           history'[i].baseline \in {NoBaseline, file, history[Len(history)].baseline}
  PROVE  Baselines'
<1>1. history \in Seq(MCommits) /\ history' \in Seq(MCommits) /\ Len(history) \in Nat
      /\ Len(history) >= 1
  BY DEF MInv, MTypes, Grows
<1>2. \A b : Sound(b) => (b # NoBaseline => b.at \in 1 .. Len(history') /\ ~ b.seen.harness)
  BY <1>1 DEF Sound, Grows
<1>3. \A i \in 1 .. Len(history') : Sound(history'[i].baseline)
  <2> SUFFICES ASSUME NEW i \in 1 .. Len(history') PROVE Sound(history'[i].baseline)
    OBVIOUS
  <2>1. CASE i <= Len(history)
    BY <2>1, <1>1 DEF Grows, MInv, Baselines
  <2>2. CASE i > Len(history)
    BY <2>2, <1>1 DEF MInv, Baselines, Sound
  <2> QED BY <2>1, <2>2, <1>1
<1>4. DOMAIN history' = 1 .. Len(history')
  BY <1>1
<1>5. \A i \in DOMAIN history' : Sound(history[i].baseline)'
  BY <1>2, <1>3, <1>4 DEF Sound
<1>6. Sound(file)' /\ Sound(h0)'
  BY <1>2 DEF Sound, MInv, Baselines
<1> QED BY <1>5, <1>6 DEF Baselines

\* Steps that add no commit, row, baseline or verdict.
LEMMA MCalm ==
  ASSUME MInv, UNCHANGED <<history, file, base, exps, verified, admitted, h0, metric>>,
         \/ stage' = stage
         \/ stage = "VERIFIED" /\ stage' \in {"ACTIVE", "INTEGRATED"},
         cand' \in [head : Nat, edits : {0, 1}], live' \subseteq live
  PROVE  MInv' /\ Grows /\ KeepsRows
<1>1. Grows /\ KeepsRows
  BY DEF MInv, MTypes, Grows, KeepsRows
<1>2. Verdict' /\ M!StartingPointIsOfTheStudy' /\ Admittance' /\ Earning'
  BY <1>1, MKeeps
<1>3. Baselines'
  BY <1>1, BaselinesStay DEF MInv, MTypes
<1>4. MTypes'
  BY DEF MInv, MTypes
<1>5. Stages'
  BY DEF MInv, Stages
<1> QED BY <1>1, <1>2, <1>3, <1>4, <1>5 DEF MInv

LEMMA MCommitTrusted ==
  ASSUME MInv, NEW code \in Codes, NEW with \in BOOLEAN, M!CommitTrusted(code, with)
  PROVE  MInv' /\ Grows /\ KeepsRows
<1> DEFINE b == IF with THEN file ELSE history[Len(history)].baseline
           c == [code |-> code, baseline |-> b]
<1>1. /\ history' = Append(history, c)
      /\ UNCHANGED <<contract, file, base, h0, metric, stage, cand, exps, live, holder,
                     verified, admitted>>
  BY DEF M!CommitTrusted, M!Tip, M!study
<1>2. history \in Seq(MCommits) /\ Len(history) \in Nat /\ Len(history) >= 1
      /\ history[Len(history)] \in MCommits /\ file \in MBases \cup {NoBaseline}
  BY DEF MInv, MTypes
<1>3. c \in MCommits /\ c.baseline \in {file, history[Len(history)].baseline}
  <2>1. b \in MBases \cup {NoBaseline}
    BY <1>2 DEF MCommits
  <2> QED BY <2>1 DEF MCommits
<1> HIDE DEF b, c
<1>4. Grows /\ KeepsRows
  BY <1>1, <1>2, <1>3 DEF MInv, MTypes, Grows, KeepsRows
<1>5. Verdict' /\ M!StartingPointIsOfTheStudy' /\ Admittance' /\ Earning'
  BY <1>1, <1>4, MKeeps
<1>6. Baselines'
  <2>1. \A i \in 1 .. Len(history') : i > Len(history) => history'[i] = c
    BY <1>1, <1>2, <1>3
  <2> QED BY <1>1, <1>3, <1>4, <2>1, BaselinesStay
<1>7. MTypes'
  BY <1>1, <1>2, <1>4 DEF MInv, MTypes, Grows
<1>8. Stages'
  BY <1>1 DEF MInv, Stages
<1> QED BY <1>4, <1>5, <1>6, <1>7, <1>8 DEF MInv

LEMMA MCaptureBaseline ==
  ASSUME MInv, NEW s \in Setups, NEW o \in Outcomes, M!CaptureBaseline(s, o)
  PROVE  MInv' /\ Grows /\ KeepsRows
<1> DEFINE b == [at |-> Len(history), setup |-> s, seen |-> o]
<1>1. /\ M!Measured(s.mode, o) /\ file' = b
      /\ UNCHANGED <<history, base, h0, metric, stage, cand, exps, live, holder,
                     verified, admitted>>
  BY DEF M!CaptureBaseline, M!Tip, M!study
<1>2. ~ o.harness
  BY <1>1, MeasurementAssumption DEF M!Measured
<1>3. Len(history) \in Nat /\ Len(history) >= 1
  BY DEF MInv, MTypes
<1>4. b \in MBases /\ b.at = Len(history) /\ b.seen = o
  BY <1>3 DEF MBases
<1> HIDE DEF b
<1>5. Grows /\ KeepsRows
  BY <1>1 DEF MInv, MTypes, Grows, KeepsRows
<1>6. Verdict' /\ M!StartingPointIsOfTheStudy' /\ Admittance' /\ Earning'
  BY <1>1, <1>5, MKeeps
<1>7. Baselines'
  <2>1. Sound(file)'
    BY <1>1, <1>2, <1>3, <1>4 DEF Sound
  <2>2. Sound(h0)' /\ \A i \in DOMAIN history' : Sound(history[i].baseline)'
    BY <1>1 DEF Sound, MInv, Baselines
  <2> QED BY <2>1, <2>2 DEF Baselines
<1>8. MTypes' /\ Stages'
  BY <1>1, <1>4 DEF MInv, MTypes, Stages
<1> QED BY <1>5, <1>6, <1>7, <1>8 DEF MInv

LEMMA MOpenStudy ==
  ASSUME MInv, NEW i \in 1 .. Len(history), M!OpenStudy(i)
  PROVE  MInv' /\ Grows /\ KeepsRows
<1>1. /\ stage = "NONE" /\ stage' = "STUDY" /\ base' = i
      /\ UNCHANGED <<history, file, h0, metric, cand, exps, live, verified, admitted>>
  BY DEF M!OpenStudy, M!repo
<1>2. Grows /\ KeepsRows
  BY <1>1 DEF MInv, MTypes, Grows, KeepsRows
<1>3. base = 0 /\ h0 = NoBaseline /\ admitted = Unset /\ exps = << >> /\ metric = NoMetric
  BY <1>1 DEF MInv, Stages
<1>4. Verdict' /\ M!StartingPointIsOfTheStudy' /\ Admittance' /\ Earning'
  BY <1>1, <1>3 DEF Verdict, M!StartingPointIsOfTheStudy, Admittance, Earning
<1>5. Baselines'
  BY <1>1 DEF MInv, Baselines, Sound
<1>6. MTypes' /\ Stages'
  BY <1>1, <1>3 DEF MInv, MTypes, Stages
<1> QED BY <1>2, <1>4, <1>5, <1>6 DEF MInv

LEMMA MRecordObservedBaseline ==
  ASSUME MInv, M!RecordObservedBaseline
  PROVE  MInv' /\ Grows /\ KeepsRows
<1> DEFINE b == history[base].baseline
<1>1. /\ stage = "STUDY" /\ M!Fresh(base) /\ h0' = b
      /\ UNCHANGED <<history, file, base, metric, stage, cand, exps, live, verified, admitted>>
  BY DEF M!RecordObservedBaseline, M!repo, M!Baseline
<1>2. base \in 1 .. Len(history) /\ history \in Seq(MCommits)
  BY <1>1 DEF MInv, MTypes, Stages
<1>3. b \in MBases /\ Sound(b) /\ history[b.at].code = history[base].code
  <2>1. history[base] \in MCommits
    BY <1>2
  <2> QED BY <1>1, <1>2, <2>1 DEF M!Fresh, MInv, Baselines, MCommits
<1> HIDE DEF b
<1>4. Grows /\ KeepsRows
  BY <1>1 DEF MInv, MTypes, Grows, KeepsRows
<1>5. Verdict' /\ Admittance' /\ Earning'
  BY <1>1 DEF MInv, Stages, Verdict, Admittance, M!Fresh, M!Baseline, Earning
<1>6. M!StartingPointIsOfTheStudy'
  BY <1>1, <1>3 DEF M!StartingPointIsOfTheStudy
<1>7. Baselines'
  BY <1>1, <1>3 DEF MInv, Baselines, Sound
<1>8. MTypes' /\ Stages'
  BY <1>1, <1>2, <1>3 DEF MInv, MTypes, Stages
<1> QED BY <1>4, <1>5, <1>6, <1>7, <1>8 DEF MInv

\* A new row at the end of the experiments.
LEMMA MNewRow ==
  ASSUME MInv, NEW r \in MRows, exps' = Append(exps, r), r.status # "COMPLETED",
         \/ live' = live
         \/ live' = live \cup {Len(exps) + 1} /\ r.status = "RUNNING",
         UNCHANGED <<history, file, base, cand, verified, admitted, h0, metric>>,
         stage' \in {"ACTIVE", "VERIFIED"}, stage' = stage \/ (stage = "STUDY" /\ stage' = "ACTIVE")
  PROVE  MInv' /\ Grows /\ KeepsRows
<1>1. exps \in Seq(MRows) /\ Len(exps) \in Nat /\ DOMAIN exps = 1 .. Len(exps)
  BY DEF MInv, MTypes
<1>2. /\ exps' \in Seq(MRows) /\ Len(exps') = Len(exps) + 1
      /\ DOMAIN exps' = 1 .. Len(exps) + 1 /\ exps'[Len(exps) + 1] = r
      /\ \A i \in 1 .. Len(exps) : exps'[i] = exps[i]
  BY <1>1
<1>3. Grows /\ KeepsRows
  BY <1>1, <1>2 DEF MInv, MTypes, Grows, KeepsRows
<1>4. Verdict' /\ M!StartingPointIsOfTheStudy' /\ Admittance' /\ Earning'
  BY <1>3, MKeeps
<1>5. Baselines'
  BY <1>3, BaselinesStay DEF MInv, MTypes
<1>6. MTypes'
  <2>1. \A i \in DOMAIN exps' : exps'[i].status = "COMPLETED" => exps'[i].seen \in Outcomes
    BY <1>1, <1>2 DEF MInv, MTypes
  <2>2. live' \subseteq DOMAIN exps' /\ \A i \in live' : exps'[i].status = "RUNNING"
    <3>1. live \subseteq DOMAIN exps /\ \A i \in live : exps[i].status = "RUNNING"
      BY DEF MInv, MTypes
    <3> QED BY <1>1, <1>2, <3>1
  <2> QED BY <1>2, <2>1, <2>2 DEF MInv, MTypes
<1>7. Stages'
  BY DEF MInv, Stages
<1> QED BY <1>3, <1>4, <1>5, <1>6, <1>7 DEF MInv

LEMMA MStart ==
  ASSUME MInv, M!Start
  PROVE  MInv' /\ Grows /\ KeepsRows
<1> DEFINE r == M!Row("CREATED", M!Baseline.setup, Unset)
<1>1. /\ stage = "STUDY" /\ stage' = "ACTIVE" /\ M!Fresh(base) /\ exps' = <<r>>
      /\ UNCHANGED <<history, file, base, cand, live, verified, admitted, h0, metric>>
  BY DEF M!Start, M!repo, M!study, M!Preflight
<1>2. exps = << >>
  BY <1>1 DEF MInv, Stages
<1>3. M!Baseline.setup \in Setups
  <2>1. base \in 1 .. Len(history) /\ history \in Seq(MCommits)
    BY <1>1 DEF MInv, MTypes, Stages
  <2>2. history[base] \in MCommits
    BY <2>1
  <2> QED BY <1>1, <2>2 DEF M!Fresh, M!Baseline, MCommits, MBases
<1>4. r \in MRows /\ r.status = "CREATED"
  BY <1>3 DEF M!Row, MRows, MInv, MTypes
<1> HIDE DEF r
<1>5. exps' = Append(exps, r)
  BY <1>1, <1>2
<1> QED BY <1>1, <1>4, <1>5, MNewRow

LEMMA MExperimentBegins ==
  ASSUME MInv, NEW s \in Setups, M!ExperimentBegins(s)
  PROVE  MInv' /\ Grows /\ KeepsRows
<1> DEFINE r == M!Row("RUNNING", s, Unset)
<1>1. /\ stage \in {"ACTIVE", "VERIFIED"} /\ stage' = stage /\ exps' = Append(exps, r)
      /\ live' = live \cup {Len(exps) + 1}
      /\ UNCHANGED <<history, file, base, cand, verified, admitted, h0, metric>>
  BY DEF M!ExperimentBegins, M!repo, M!study
<1>2. r \in MRows /\ r.status = "RUNNING"
  BY DEF M!Row, MRows, MInv, MTypes
<1> HIDE DEF r
<1>3. r.status # "COMPLETED" /\ stage' \in {"ACTIVE", "VERIFIED"}
  BY <1>1, <1>2
<1> QED BY <1>1, <1>2, <1>3, MNewRow

\* Only the command of a live row writes it, and that row runs.
LEMMA MEnds ==
  ASSUME MInv, NEW i, NEW status, NEW o, M!Ends(i, status, o),
         \/ status = "COMPLETED" /\ o \in Outcomes
         \/ status = "FAILED" /\ o = Unset
  PROVE  MInv' /\ Grows /\ KeepsRows
<1> DEFINE r == [exps[i] EXCEPT !.status = status, !.seen = o]
<1>1. /\ i \in live /\ exps' = [exps EXCEPT ![i] = r] /\ live' = live \ {i}
      /\ UNCHANGED <<history, file, base, stage, cand, verified, admitted, h0, metric>>
  BY DEF M!Ends, M!repo, M!study
<1>2. /\ exps \in Seq(MRows) /\ i \in DOMAIN exps /\ exps[i] \in MRows
      /\ exps[i].status = "RUNNING"
  BY <1>1 DEF MInv, MTypes
<1>3. r \in MRows /\ r.status = status /\ r.seen = o
  BY <1>2 DEF MRows
<1> HIDE DEF r
<1>4. /\ exps' \in Seq(MRows) /\ Len(exps') = Len(exps) /\ DOMAIN exps' = DOMAIN exps
      /\ exps'[i] = r /\ \A j \in DOMAIN exps : j # i => exps'[j] = exps[j]
  BY <1>1, <1>2, <1>3
<1>5. Grows /\ KeepsRows
  <2>1. Grows
    BY <1>1 DEF MInv, MTypes, Grows
  <2>2. \A j \in DOMAIN exps : exps[j].status \in {"COMPLETED", "FAILED"} => exps'[j] = exps[j]
    BY <1>2, <1>4
  <2>3. Len(exps) <= Len(exps')
    BY <1>2, <1>4
  <2> QED BY <1>4, <2>1, <2>2, <2>3 DEF KeepsRows
<1>6. Verdict' /\ M!StartingPointIsOfTheStudy' /\ Admittance' /\ Earning'
  BY <1>1, <1>5, MKeeps
<1>7. Baselines'
  BY <1>1, <1>5, BaselinesStay DEF MInv, MTypes
<1>8. MTypes'
  <2>1. \A j \in DOMAIN exps' : exps'[j].status = "COMPLETED" => exps'[j].seen \in Outcomes
    BY <1>3, <1>4 DEF MInv, MTypes
  <2>2. live' \subseteq DOMAIN exps' /\ \A j \in live' : exps'[j].status = "RUNNING"
    BY <1>1, <1>4 DEF MInv, MTypes
  <2> QED BY <1>1, <1>4, <2>1, <2>2 DEF MInv, MTypes
<1>9. Stages'
  <2>1. exps = << >> => FALSE
    BY <1>2
  <2> QED BY <1>1, <2>1 DEF MInv, Stages
<1> QED BY <1>5, <1>6, <1>7, <1>8, <1>9 DEF MInv

\* The matching experiments are rows of the request, so there is a last one.
LEMMA MatchingIs ==
  ASSUME MInv, M!Matching # {}
  PROVE  /\ M!LastOf(M!Matching) \in M!Matching
         /\ \A j \in M!Matching : j <= M!LastOf(M!Matching)
<1>1. M!Matching \subseteq 1 .. Len(exps) /\ Len(exps) \in Nat
  BY DEF MInv, MTypes, M!Matching
<1> HIDE DEF MInv
<1> QED BY <1>1, LastOfIs

\* A check that has read the rows has found the verdict that it will give.
LEMMA MVerifyReads ==
  ASSUME MInv, M!VerifyReads
  PROVE  Watching'
<1> DEFINE n == M!LastOf(M!Matching)
           c == [head |-> cand.head, row |-> n, running |-> live]
<1>1. /\ stage = "ACTIVE" /\ stage' = stage /\ M!Fresh(base) /\ ~ M!Regresses(n)
      /\ M!Matching # {} /\ checking' = c
      /\ UNCHANGED <<history, base, cand, exps, live>>
  BY DEF M!VerifyReads, M!repo, M!study
<1>2. n \in M!Matching /\ \A j \in M!Matching : j <= n
  <2>1. M!Matching # {}
    BY ZenonT(20) DEF M!VerifyReads
  <2> QED BY <2>1, MatchingIs
<1>3. /\ n \in DOMAIN exps /\ exps[n].status = "COMPLETED" /\ exps[n].head = cand.head
      /\ exps[n].setup.profile = M!Baseline.setup.profile
      /\ exps[n].setup.inputs = M!Baseline.setup.inputs
  BY <1>2 DEF M!Matching, M!Matches
<1>4. /\ exps[n].setup.contract = M!Baseline.setup.contract
      /\ M!NoWorse(M!Baseline.seen, exps[n].seen)
  BY <1>1 DEF M!Regresses
<1>5. M!Baseline.setup \in Setups /\ exps[n].setup \in Setups
  <2>1. base \in 1 .. Len(history) /\ history \in Seq(MCommits) /\ exps \in Seq(MRows)
    BY <1>1 DEF MInv, MTypes, Stages
  <2>2. history[base] \in MCommits /\ exps[n] \in MRows
    BY <2>1, <1>3
  <2> QED BY <1>1, <2>2 DEF M!Fresh, M!Baseline, MCommits, MBases, MRows
<1>6. exps[n].setup = M!Baseline.setup
  BY <1>3, <1>4, <1>5, MeasurementAssumption
<1>7. M!Baseline' = M!Baseline /\ M!Fresh(base)'
  BY <1>1 DEF M!Baseline, M!Fresh
<1>8. DOMAIN exps \subseteq Nat /\ live \subseteq DOMAIN exps
  BY DEF MInv, MTypes
<1>9. ASSUME NEW i \in DOMAIN exps, i > n, exps[i].status = "COMPLETED",
             exps[i].head = cand.head, exps[i].setup = M!Baseline.setup
      PROVE  FALSE
  <2>1. i \in M!Matching
    BY <1>9 DEF M!Matching, M!Matches
  <2> HIDE DEF n
  <2> QED BY <1>2, <1>3, <1>8, <1>9, <2>1
<1> HIDE DEF n
<1>10. c.head = cand.head /\ c.row = n /\ c.running = live
  OBVIOUS
<1> HIDE DEF c
<1>11. \A i \in DOMAIN exps' : ~ Later(i)'
  BY <1>1, <1>7, <1>9, <1>10 DEF Later
<1> QED BY <1>1, <1>3, <1>4, <1>6, <1>7, <1>8, <1>10, <1>11 DEF Watching

LEMMA MVerifyAccepts ==
  ASSUME MInv, Watching, M!VerifyAccepts
  PROVE  MInv' /\ Grows /\ KeepsRows
<1>1. /\ stage' = "VERIFIED" /\ checking # M!NoCheck
      /\ verified' = [head |-> checking.head, row |-> checking.row]
      /\ UNCHANGED <<history, file, base, cand, exps, live, admitted, h0, metric>>
  BY DEF M!VerifyAccepts, M!VerifyEnds, M!Unwatched, M!repo, M!study
<1>2. /\ stage = "ACTIVE" /\ checking.row \in DOMAIN exps
      /\ exps[checking.row].status = "COMPLETED" /\ exps[checking.row].head = checking.head
      /\ exps[checking.row].setup = M!Baseline.setup
      /\ M!Fresh(base) /\ M!NoWorse(M!Baseline.seen, exps[checking.row].seen)
  BY <1>1 DEF Watching
<1>3. verified'.head = checking.head /\ verified'.row = checking.row
  BY <1>1
<1>7. Grows /\ KeepsRows
  BY <1>1 DEF MInv, MTypes, Grows, KeepsRows
<1>8. base # 0 /\ M!Baseline' = M!Baseline /\ M!Fresh(base)'
  BY <1>1, <1>2, <1>7, BaseStays DEF MInv, Stages
<1>9. Verdict'
  BY <1>1, <1>2, <1>3, <1>8 DEF Verdict
<1>10. M!StartingPointIsOfTheStudy' /\ Admittance' /\ Earning'
  <2>1. metric' = NoMetric
    BY <1>1, <1>2 DEF MInv, Stages
  <2>2. M!StartingPointIsOfTheStudy'
    BY <1>1 DEF MInv, M!StartingPointIsOfTheStudy
  <2>3. Admittance'
    BY <1>1, <1>8 DEF MInv, Admittance
  <2> QED BY <2>1, <2>2, <2>3 DEF Earning
<1>11. Baselines'
  BY <1>1, <1>7, BaselinesStay DEF MInv, MTypes
<1>12. MTypes' /\ Stages'
  BY <1>1, <1>2 DEF MInv, MTypes, Stages
<1> QED BY <1>7, <1>9, <1>10, <1>11, <1>12 DEF MInv

LEMMA MAdmit ==
  ASSUME MInv, NEW o \in Outcomes, M!Admit(o)
  PROVE  MInv' /\ Grows /\ KeepsRows
<1>1. /\ stage = "VERIFIED" /\ M!Fresh(base) /\ M!NoWorse(M!Baseline.seen, o)
      /\ admitted' = o
      /\ UNCHANGED <<history, file, base, stage, cand, exps, live, verified, h0, metric>>
  BY DEF M!Admit, M!repo, M!study
<1>2. Grows /\ KeepsRows
  BY <1>1 DEF MInv, MTypes, Grows, KeepsRows
<1>3. Verdict' /\ M!StartingPointIsOfTheStudy' /\ Earning'
  BY <1>1, <1>2, MKeeps
<1>4. base # 0 /\ M!Baseline' = M!Baseline /\ M!Fresh(base)'
  BY <1>1, <1>2, BaseStays DEF MInv, Stages
<1>5. Admittance'
  BY <1>1, <1>4 DEF Admittance
<1>6. Baselines'
  BY <1>1, <1>2, BaselinesStay DEF MInv, MTypes
<1>7. MTypes' /\ Stages'
  BY <1>1, <1>4 DEF MInv, MTypes, Stages
<1> QED BY <1>2, <1>3, <1>5, <1>6, <1>7 DEF MInv

LEMMA MRecordObservedCandidate ==
  ASSUME MInv, M!RecordObservedCandidate
  PROVE  MInv' /\ Grows /\ KeepsRows
<1> DEFINE earned == {i \in DOMAIN exps : M!Earns(exps[i])}
           n == M!LastOf(earned)
<1>1. /\ stage = "INTEGRATED" /\ earned # {}
      /\ metric' = [head |-> verified.head, row |-> n]
      /\ UNCHANGED <<history, file, base, stage, cand, exps, live, verified, h0, admitted>>
  BY DEF M!RecordObservedCandidate, M!repo
<1>2. n \in DOMAIN exps /\ M!Earns(exps[n])
  <2>1. earned \subseteq 1 .. Len(exps) /\ Len(exps) \in Nat
    BY DEF MInv, MTypes
  <2>2. n \in earned
    <3> HIDE DEF earned
    <3> QED BY <1>1, <2>1, LastOfIs
  <2> QED BY <2>2
<1> HIDE DEF n, earned
<1>3. Grows /\ KeepsRows
  BY <1>1 DEF MInv, MTypes, Grows, KeepsRows
<1>4. Verdict' /\ M!StartingPointIsOfTheStudy' /\ Admittance'
  BY <1>1, <1>3, MKeeps
<1>5. Earning'
  BY <1>1, <1>2 DEF Earning, M!MetricWasEarned, M!Earns
<1>6. Baselines'
  BY <1>1, <1>3, BaselinesStay DEF MInv, MTypes
<1>7. MTypes' /\ Stages'
  BY <1>1 DEF MInv, MTypes, Stages
<1> QED BY <1>3, <1>4, <1>5, <1>6, <1>7 DEF MInv

LEMMA MRowsStep == MAll /\ [M!Next]_(M!mvars) => MInv' /\ Grows /\ KeepsRows
<1> SUFFICES ASSUME MInv, Watching, [M!Next]_(M!mvars) PROVE MInv' /\ Grows /\ KeepsRows
  BY DEF MAll
<1>1. cand \in [head : Nat, edits : {0, 1}]
  BY DEF MInv, MTypes
<1>2. CASE M!Control
  <2>1. CASE \E c \in Codes, with \in BOOLEAN : M!CommitTrusted(c, with)
    BY <2>1, MCommitTrusted
  <2>2. CASE \E c \in {s.contract : s \in Setups} : M!Reconfigure(c)
    BY <1>1, <2>2, MCalm DEF M!Reconfigure, M!study
  <2>3. CASE \E s \in Setups, o \in Outcomes : M!CaptureBaseline(s, o)
    BY <2>3, MCaptureBaseline
  <2> QED BY <1>2, <2>1, <2>2, <2>3 DEF M!Control
<1>3. CASE M!Experiment
  <2>1. CASE \E s \in Setups : M!ExperimentBegins(s)
    BY <2>1, MExperimentBegins
  <2>2. CASE \E i \in live, o \in Outcomes : M!ExperimentCompletes(i, o)
    BY <2>2, MEnds DEF M!ExperimentCompletes
  <2>3. CASE \E i \in live : M!ExperimentFails(i)
    BY <2>3, MEnds DEF M!ExperimentFails
  <2>4. CASE \E i \in live : M!ExperimentDies(i)
    BY <1>1, <2>4, MCalm DEF M!ExperimentDies, M!repo, M!study
  <2>5. CASE M!LeaseTimesOut
    BY <1>1, <2>5, MCalm DEF M!LeaseTimesOut, M!repo, M!study
  <2> QED BY <1>3, <2>1, <2>2, <2>3, <2>4, <2>5 DEF M!Experiment
<1>4. CASE M!Request
  <2>1. CASE \E i \in 1 .. Len(history) : M!OpenStudy(i)
    BY <2>1, MOpenStudy
  <2>2. CASE M!Edit
    <3>1. cand' \in [head : Nat, edits : {0, 1}]
      BY <1>1, <2>2 DEF M!Edit
    <3> QED BY <2>2, <3>1, MCalm DEF M!Edit, M!repo, M!study
  <2>3. CASE M!CommitCandidate
    <3>1. cand' \in [head : Nat, edits : {0, 1}]
      BY <1>1, <2>3 DEF M!CommitCandidate
    <3> QED BY <2>3, <3>1, MCalm DEF M!CommitCandidate, M!repo, M!study
  <2>4. CASE M!Integrate
    BY <1>1, <2>4, MCalm DEF M!Integrate, M!repo, M!study
  <2>5. CASE M!Reopen
    BY <1>1, <2>5, MCalm DEF M!Reopen, M!repo, M!study
  <2>6. CASE M!VerifyReads \/ M!VerifyFails
    BY <1>1, <2>6, MCalm DEF M!VerifyReads, M!VerifyFails, M!VerifyEnds, M!repo, M!study
  <2> QED
    BY <1>4, <2>1, <2>2, <2>3, <2>4, <2>5, <2>6, MRecordObservedBaseline, MStart,
       MVerifyAccepts, MAdmit, MRecordObservedCandidate DEF M!Request, M!Tip
<1>5. CASE UNCHANGED M!mvars
  BY <1>1, <1>5, MCalm DEF M!mvars, M!repo, M!study
<1> QED BY <1>2, <1>3, <1>4, <1>5 DEF M!Next

\* What a step may change while a check is under way before and after it.
LEMMA MWhileWatched ==
  ASSUME MAll, M!Next, checking # M!NoCheck, checking' # M!NoCheck
  PROVE  /\ checking' = checking /\ stage' = stage /\ base' = base
         /\ cand'.head = cand.head /\ live' \subseteq live
         /\ exps' \in Seq(MRows) /\ DOMAIN exps' = DOMAIN exps
         /\ \A i \in DOMAIN exps : exps'[i] # exps[i] =>
              i \in live /\ exps[i].status = "RUNNING"
<1>1. stage = "ACTIVE"
  BY DEF MAll, Watching
<1>2. ~ M!Unwatched /\ ~ M!VerifyEnds
  BY DEF M!Unwatched, M!VerifyEnds
<1>3. cand \in [head : Nat, edits : {0, 1}] /\ exps \in Seq(MRows)
  BY DEF MAll, MInv, MTypes
<1>4. CASE M!Control
  BY <1>3, <1>4 DEF M!Control, M!CommitTrusted, M!Reconfigure, M!CaptureBaseline, M!study
<1>5. CASE M!Edit
  BY <1>3, <1>5 DEF M!Edit, M!repo, M!study
<1>6. CASE M!LeaseTimesOut \/ \E i \in live : M!ExperimentDies(i)
  BY <1>3, <1>6 DEF M!LeaseTimesOut, M!ExperimentDies, M!repo, M!study
<1>7. ASSUME NEW i \in live, NEW status \in {"COMPLETED", "FAILED"},
             NEW o \in Outcomes \cup {Unset}, M!Ends(i, status, o)
      PROVE  /\ checking' = checking /\ stage' = stage /\ base' = base
             /\ cand'.head = cand.head /\ live' \subseteq live
             /\ exps' \in Seq(MRows) /\ DOMAIN exps' = DOMAIN exps
             /\ \A k \in DOMAIN exps : exps'[k] # exps[k] =>
                  k \in live /\ exps[k].status = "RUNNING"
  <2> DEFINE r == [exps[i] EXCEPT !.status = status, !.seen = o]
  <2>1. /\ exps' = [exps EXCEPT ![i] = r] /\ live' = live \ {i}
        /\ UNCHANGED <<base, stage, cand, checking>>
    BY <1>7 DEF M!Ends, M!repo, M!study
  <2>2. i \in DOMAIN exps /\ exps[i] \in MRows /\ exps[i].status = "RUNNING"
    BY <1>3 DEF MAll, MInv, MTypes
  <2>3. r \in MRows
    BY <2>2 DEF MRows
  <2> HIDE DEF r
  <2>4. /\ exps' \in Seq(MRows) /\ DOMAIN exps' = DOMAIN exps
        /\ \A k \in DOMAIN exps : k # i => exps'[k] = exps[k]
    BY <1>3, <2>1, <2>2, <2>3
  <2> QED BY <2>1, <2>2, <2>4
<1>8. CASE \E i \in live : (\E o \in Outcomes : M!ExperimentCompletes(i, o)) \/ M!ExperimentFails(i)
  BY <1>7, <1>8 DEF M!ExperimentCompletes, M!ExperimentFails
<1>9. ~ \E s \in Setups : M!ExperimentBegins(s)
  BY <1>2 DEF M!ExperimentBegins, M!MayMeasure
<1>10. M!Request => M!Edit
  BY <1>1, <1>2, SMTT(30) DEF M!Request, M!OpenStudy, M!RecordObservedBaseline, M!Start, M!CommitCandidate,
     M!VerifyReads, M!VerifyAccepts, M!VerifyFails, M!Admit, M!Integrate, M!Reopen,
     M!RecordObservedCandidate
<1> QED BY <1>4, <1>5, <1>6, <1>8, <1>9, <1>10 DEF M!Next, M!Experiment

LEMMA MBegins ==
  ASSUME MAll, M!Next, checking = M!NoCheck, checking' # M!NoCheck
  PROVE  M!VerifyReads
BY DEF M!Next, M!Control, M!CommitTrusted, M!Reconfigure, M!CaptureBaseline, M!Experiment,
   M!ExperimentBegins, M!ExperimentCompletes, M!ExperimentFails, M!Ends, M!ExperimentDies,
   M!LeaseTimesOut, M!Request, M!OpenStudy, M!RecordObservedBaseline, M!Start, M!Edit,
   M!CommitCandidate, M!VerifyAccepts, M!VerifyFails, M!VerifyEnds, M!Admit, M!Integrate,
   M!Reopen, M!RecordObservedCandidate

LEMMA MWatchStep == MAll /\ [M!Next]_(M!mvars) => Watching'
<1> SUFFICES ASSUME MAll, [M!Next]_(M!mvars), checking' # M!NoCheck PROVE Watching'
  BY DEF Watching, M!NoCheck
<1>1. Grows /\ KeepsRows
  BY MRowsStep
<1>2. CASE UNCHANGED M!mvars
  BY <1>2 DEF M!mvars, M!repo, M!study, MAll, Watching, Later, M!Fresh, M!Baseline
<1>3. CASE M!Next /\ checking = M!NoCheck
  BY <1>3, MBegins, MVerifyReads DEF MAll
<1>4. CASE M!Next /\ checking # M!NoCheck
  <2>1. /\ checking' = checking /\ stage' = stage /\ base' = base
        /\ cand'.head = cand.head /\ live' \subseteq live
        /\ exps' \in Seq(MRows) /\ DOMAIN exps' = DOMAIN exps
        /\ \A i \in DOMAIN exps : exps'[i] # exps[i] =>
             i \in live /\ exps[i].status = "RUNNING"
    BY <1>4, MWhileWatched
  <2>2. /\ stage = "ACTIVE" /\ cand.head = checking.head
        /\ checking.row \in DOMAIN exps
        /\ exps[checking.row].status = "COMPLETED" /\ exps[checking.row].head = checking.head
        /\ exps[checking.row].setup = M!Baseline.setup
        /\ M!Fresh(base) /\ M!NoWorse(M!Baseline.seen, exps[checking.row].seen)
        /\ checking.running \subseteq DOMAIN exps /\ live \subseteq checking.running
        /\ \A i \in DOMAIN exps : Later(i) => i \in checking.running
    BY <1>4 DEF MAll, Watching
  <2>3. base # 0 /\ M!Baseline' = M!Baseline /\ M!Fresh(base)'
    BY <1>1, <2>1, <2>2, BaseStays DEF MAll, MInv, Stages
  <2>4. exps'[checking.row] = exps[checking.row]
    BY <2>1, <2>2
  <2>5. ASSUME NEW i \in DOMAIN exps, Later(i)' PROVE i \in checking.running
    <3>1. CASE exps'[i] = exps[i]
      BY <2>1, <2>2, <2>3, <2>5, <3>1 DEF Later
    <3>2. CASE exps'[i] # exps[i]
      BY <2>1, <2>2, <3>2
    <3> QED BY <3>1, <3>2
  <2> QED BY <2>1, <2>2, <2>3, <2>4, <2>5 DEF Watching
<1> QED BY <1>2, <1>3, <1>4

LEMMA MStep == MAll /\ [M!Next]_(M!mvars) => MAll' /\ Grows /\ KeepsRows
BY MRowsStep, MWatchStep DEF MAll

\* Only a check decides, and no row speaks against it but one that was running
\* when it read them.
LEMMA MDecides ==
  ASSUME MAll, [M!Next]_(M!mvars), verified' # verified,
         NEW i \in DOMAIN exps, i > verified'.row, exps[i].status = "COMPLETED",
         exps[i].head = verified'.head, exps[i].setup = M!Baseline.setup
  PROVE  i \in checking.running
<1>1. M!VerifyAccepts
  BY DEF M!Next, M!Control, M!CommitTrusted, M!Reconfigure, M!CaptureBaseline, M!Experiment,
     M!ExperimentBegins, M!ExperimentCompletes, M!ExperimentFails, M!Ends, M!ExperimentDies,
     M!LeaseTimesOut, M!Request, M!OpenStudy, M!RecordObservedBaseline, M!Start, M!Edit,
     M!CommitCandidate, M!VerifyReads, M!VerifyFails, M!Admit, M!Integrate, M!Reopen,
     M!RecordObservedCandidate, M!mvars
<1>2. /\ checking # M!NoCheck /\ verified' = [head |-> checking.head, row |-> checking.row]
  BY <1>1 DEF M!VerifyAccepts, M!VerifyEnds, M!Unwatched
<1>3. verified'.head = checking.head /\ verified'.row = checking.row
  BY <1>2
<1>4. Later(i)
  BY <1>3 DEF Later
<1>5. Later(i) => i \in checking.running
  BY <1>2 DEF MAll, Watching
<1> QED BY <1>4, <1>5

LEMMA MSafe == MInv => VerdictsRestOnMeasurements
<1> SUFFICES ASSUME MInv PROVE VerdictsRestOnMeasurements
  OBVIOUS
<1>1. base # 0 => base \in 1 .. Len(history) /\ history[base] \in MCommits
  BY DEF MInv, MTypes
<1>2. base # 0 /\ M!Fresh(base) => M!Baseline.seen \in Outcomes
  BY <1>1 DEF M!Fresh, M!Baseline, MCommits, MBases
<1>3. \A i \in DOMAIN exps : exps[i].status = "COMPLETED" => exps[i].seen \in Outcomes
  BY DEF MInv, MTypes
<1>4. stage \in {"VERIFIED", "INTEGRATED"} => base # 0
  BY DEF MInv, Stages
<1>5. M!VerifiedHeldItsBaseline
  <2> SUFFICES ASSUME stage \in {"VERIFIED", "INTEGRATED"}
      PROVE LET e == exps[verified.row] IN
            /\ e.status = "COMPLETED" /\ e.head = verified.head
            /\ e.setup = M!Baseline.setup
            /\ history[M!Baseline.at].code = history[base].code
            /\ e.seen.passes >= M!Baseline.seen.passes
            /\ admitted # Unset => admitted.passes >= M!Baseline.seen.passes
    BY DEF M!VerifiedHeldItsBaseline
  <2>1. /\ exps[verified.row].seen \in Outcomes /\ M!Baseline.seen \in Outcomes
        /\ M!NoWorse(M!Baseline.seen, exps[verified.row].seen)
        /\ verified.row \in DOMAIN exps /\ exps[verified.row].status = "COMPLETED"
        /\ exps[verified.row].head = verified.head
        /\ exps[verified.row].setup = M!Baseline.setup
        /\ M!Fresh(base)
    BY <1>2, <1>3, <1>4 DEF MInv, Verdict
  <2>2. exps[verified.row].seen.passes >= M!Baseline.seen.passes
    BY <2>1, NoWorsePasses
  <2>3. admitted # Unset => admitted.passes >= M!Baseline.seen.passes
    BY <2>1, NoWorsePasses DEF MInv, MTypes, Admittance
  <2>4. history[M!Baseline.at].code = history[base].code
    BY <2>1 DEF M!Fresh, M!Baseline
  <2> QED BY <2>1, <2>2, <2>3, <2>4
<1>6. M!BetterIsAccepted
  <2> SUFFICES ASSUME stage \in {"VERIFIED", "INTEGRATED"}, NEW best \in Outcomes,
                      best.passes >= exps[verified.row].seen.passes,
                      best.lost <= exps[verified.row].seen.lost,
                      best.time <= exps[verified.row].seen.time
      PROVE M!NoWorse(M!Baseline.seen, best)
    BY DEF M!BetterIsAccepted
  <2>1. /\ exps[verified.row].seen \in Outcomes /\ M!Baseline.seen \in Outcomes
        /\ M!NoWorse(M!Baseline.seen, exps[verified.row].seen)
    BY <1>2, <1>3, <1>4 DEF MInv, Verdict
  <2> QED BY <2>1, BetterIsNoWorse
<1>7. M!BaselinesAreMeasured
  BY DEF MInv, Baselines, Sound, M!BaselinesAreMeasured
<1>8. M!MetricWasEarned /\ M!StartingPointIsOfTheStudy
  BY DEF MInv, Earning, M!MetricWasEarned
<1> QED BY <1>5, <1>6, <1>7, <1>8 DEF VerdictsRestOnMeasurements

(* In every reachable state a request that was verified, admitted or       *)
(* integrated has a completed run of that very commit with the contract    *)
(* and inputs of a baseline of the code it is based on, which passed as    *)
(* many commands; no timeout became a baseline, no better run is refused,  *)
(* and both study metrics come from measured runs of the code they are     *)
(* about (verify, compare_baseline, capture_baseline).                     *)
THEOREM VerdictsStayMeasured == Spec => []VerdictsRestOnMeasurements
<1>1. Init => MAll
  BY MInit DEF Init
<1>2. MAll /\ [Next]_vars => MAll'
  BY MStep, Steps
<1>3. MAll => VerdictsRestOnMeasurements
  BY MSafe DEF MAll
<1> QED BY <1>1, <1>2, <1>3, PTL DEF Spec

(* An experiment that ended keeps its verdict, whichever commands overlap. *)
(* A verification is decided by the last matching run that had completed   *)
(* when it read the rows; one that completed until it passed was running   *)
(* at that moment, for none begins while a check is active, even if the    *)
(* check has lost its lease (update_experiment, verify).                   *)
THEOREM MeasurementDecisionsStay == Spec => M!VerdictsAreFinal /\ M!LastRunDecides
<1> DEFINE Final == \A i \in DOMAIN exps :
                      exps[i].status \in {"COMPLETED", "FAILED"} => exps'[i] = exps[i]
           Last == verified' # verified =>
                     \A i \in DOMAIN exps :
                       /\ i > verified'.row
                       /\ exps[i].status = "COMPLETED"
                       /\ exps[i].head = verified'.head /\ exps[i].setup = M!Baseline.setup
                       => i \in checking.running
<1>1. Init => MAll
  BY MInit DEF Init
<1>2. MAll /\ [Next]_vars => MAll'
  BY MStep, Steps
<1>3. MAll /\ [Next]_vars => [Final]_(M!mvars)
  BY MStep, Steps DEF KeepsRows
<1>4. MAll /\ [Next]_vars => [Last]_(M!mvars)
  BY MDecides, Steps
<1> QED BY <1>1, <1>2, <1>3, <1>4, PTL DEF Spec, M!VerdictsAreFinal, M!LastRunDecides

-----------------------------------------------------------------------------
(* CodexBroker.  CodexBrokerProofs proves it for a broker by itself; here  *)
(* its facts are instantiated for the one among the services.              *)

BP == INSTANCE CodexBrokerProofs WITH MaxCalls <- MaxBrokerCalls

LEMMA SameBroker ==
  /\ B!Init <=> BP!Init
  /\ B!Next <=> BP!Next
  /\ B!BrokerIsStrict <=> BP!BrokerIsStrict
<1> USE DEF B!Deserted, BP!Deserted, B!Answers, BP!Answers, B!talk, BP!talk,
            B!cbvars, BP!cbvars
<1>1. B!Init <=> BP!Init
  BY DEF B!Init, BP!Init, B!Plans, BP!Plans
<1>2. B!Harness <=> BP!Harness
  <2>1. (B!Refuse <=> BP!Refuse) /\ (B!Begin <=> BP!Begin) /\ (B!OpenFails <=> BP!OpenFails)
    BY DEF B!Refuse, BP!Refuse, B!Begin, BP!Begin, B!OpenFails, BP!OpenFails,
           B!Refused, BP!Refused
  <2>2. (B!Close <=> BP!Close) /\ (B!Join <=> BP!Join) /\ (B!JoinExpires <=> BP!JoinExpires)
        /\ (B!Verdict <=> BP!Verdict)
    BY DEF B!Close, BP!Close, B!Join, BP!Join, B!JoinExpires, BP!JoinExpires,
           B!Verdict, BP!Verdict, B!Final, BP!Final
  <2> QED BY <2>1, <2>2 DEF B!Harness, BP!Harness
<1>3. B!Thread <=> BP!Thread
  BY DEF B!Thread, BP!Thread, B!Accept, BP!Accept, B!Handle, BP!Handle, B!InTurn, BP!InTurn,
         B!BackendReturns, BP!BackendReturns, B!ThreadStops, BP!ThreadStops
<1>4. B!Command <=> BP!Command
  BY DEF B!Command, BP!Command, B!CommandExits, BP!CommandExits, B!CommandTimesOut,
         BP!CommandTimesOut, B!Leaves, BP!Leaves, B!GiveUp, BP!GiveUp, B!Connect, BP!Connect
<1>5. B!BrokerIsStrict <=> BP!BrokerIsStrict
  BY DEF B!BrokerIsStrict, BP!BrokerIsStrict, B!PassedUsedTheWholeSequence,
         BP!PassedUsedTheWholeSequence, B!CallsAreInOrder, BP!CallsAreInOrder,
         B!SandboxIsThere, BP!SandboxIsThere, B!Ran, BP!Ran
<1> QED BY <1>1, <1>2, <1>3, <1>4, <1>5 DEF B!Next, BP!Next

LEMMA BrokerSteps == ASSUME [Next]_vars PROVE [BP!Next]_(BP!cbvars)
<1>1. [B!Next]_(B!cbvars)
  BY DEF Next, vars, broker, B!cbvars
<1> QED BY <1>1, SameBroker DEF B!cbvars, BP!cbvars

LEMMA BrokerConstants == BP!ConstantsFit
BY BrokerAssumption DEF BP!ConstantsFit, BP!Calls

LEMMA BrokerInvariance == Spec => [](BP!IInv /\ BP!SandboxIsThere)
<1>1. Init => BP!IInv /\ BP!SandboxIsThere
  BY BrokerConstants, SameBroker, BP!InitIInv DEF Init, BP!Init, BP!SandboxIsThere, BP!Ran
<1>2. BP!IInv /\ BP!SandboxIsThere /\ [Next]_vars => (BP!IInv /\ BP!SandboxIsThere)'
  BY BrokerConstants, BrokerSteps, BP!NextIInv, BP!SandboxNext
<1> QED BY <1>1, <1>2, PTL DEF Spec

(* Calls are let through in the prescribed order, a command passes only    *)
(* with all of them, and none that requires a sandbox runs without, also   *)
(* in the composition of the services (completion_error, _run_command).    *)
THEOREM ServicesBrokerStaysStrict == Spec => []BrokerIsStrict
<1>1. BP!IInv /\ BP!SandboxIsThere => BrokerIsStrict
  BY SameBroker DEF BP!IInv, BP!BrokerIsStrict, BrokerIsStrict
<1> QED BY <1>1, BrokerInvariance, PTL

LEMMA VerdictOfBrokerIsLast == Spec => B!NothingAfterTheVerdict
<1>1. ASSUME BP!IInv, [Next]_vars, phase = "next", results # << >>
      PROVE  accepted' = accepted
  <2>1. [BP!Next]_(BP!cbvars)
    BY <1>1, BrokerSteps
  <2>2. ~ BP!Handle
    BY <1>1 DEF BP!IInv, BP!LeftAlone, BP!Handle
  <2> QED BY <1>1, <2>1, <2>2
          DEF BP!Next, BP!Harness, BP!Thread, BP!Command, BP!Refuse, BP!Begin,
              BP!OpenFails, BP!Close, BP!Join, BP!JoinExpires, BP!Verdict, BP!Accept,
              BP!BackendReturns, BP!ThreadStops, BP!CommandExits, BP!CommandTimesOut,
              BP!Leaves, BP!GiveUp, BP!Connect, BP!talk, BP!cbvars
<1>2. BP!IInv /\ [Next]_vars =>
        [phase = "next" /\ results # << >> => accepted' = accepted]_(B!cbvars)
  BY <1>1
<1> QED BY <1>2, BrokerInvariance, PTL DEF Spec, B!NothingAfterTheVerdict

-----------------------------------------------------------------------------
(* Evaluation.  Each command keeps count of the cases it has done, and     *)
(* what happened in a case is written down by one command only.            *)

ESeen   == [oracle : {"passed", "failed", "error"}, shows : SUBSET E!Shown]
ELocals == [row : Nat, cases : SUBSET Nat, reports : Seq(E!Stages), seen : ESeen]

InCase  == {"execute", "oracle", "observe", "handled", "report", "last_report"}
Working == {"cases"} \cup InCase

Rejects == DOMAIN E!Rows \ E!Accepted

ETypes ==
  /\ dataset \in Datasets
  /\ reported \in [E!Names -> [run : Procs, stage : E!Stages] \cup {Unset}]
  /\ observed \in [E!Names -> [run : Procs, seen : ESeen] \cup {Unset}]
  /\ eloc \in [Procs -> ELocals]
  /\ epc \in [Procs -> {"new", "parse", "diagnose", "ended"} \cup Working]
  /\ used \in BOOLEAN
  /\ \A p \in Procs : epc[p] \in {"parse", "diagnose"} \cup Working =>
       eloc[p].cases \subseteq E!Accepted

Whats == E!Shown \cup {"passed", "failed", "error", "raised"}

NoFacts(p, i) == \A w \in Whats : <<<<p, E!Rows[i].id>>, w>> \notin facts

\* What the command knows of its case is what happened in it.
Seen(p, what) ==
  \A w \in Whats : <<<<p, E!Case(p).id>>, w>> \in facts <=> w \in what

CaseIs(p) ==
  /\ epc[p] \in InCase => eloc[p].cases # {}
  /\ epc[p] = "execute" => Seen(p, {}) /\ eloc[p].seen = E!Blank
  /\ epc[p] = "oracle" => Seen(p, eloc[p].seen.shows) /\ eloc[p].seen.oracle = "error"
  /\ epc[p] \in {"observe", "report"} =>
       Seen(p, eloc[p].seen.shows \cup {eloc[p].seen.oracle})
  /\ epc[p] \in {"handled", "last_report"} =>
       /\ eloc[p].seen.oracle = "error"
       /\ <<<<p, E!Case(p).id>>, "raised">> \in facts

Untouched(p) ==
  /\ epc[p] = "new" => \A i \in DOMAIN E!Rows : NoFacts(p, i)
  /\ epc[p] = "parse" => \A i \in E!Accepted : NoFacts(p, i)
  /\ epc[p] \in Working => \A i \in eloc[p].cases :
       epc[p] = "cases" \/ i # E!Current(p) => NoFacts(p, i)

Passed(p) == {k \in DOMAIN eloc[p].reports : eloc[p].reports[k] = "none"}

Counted(p) ==
  /\ epc[p] = "parse" =>
       /\ eloc[p].row \in 1 .. Len(E!Rows) + 1
       /\ eloc[p].cases = {i \in E!Accepted : i < eloc[p].row}
       /\ Len(eloc[p].reports) = Cardinality({i \in Rejects : i < eloc[p].row})
       /\ Passed(p) = {}
  /\ epc[p] \in {"diagnose"} \cup Working =>
       /\ eloc[p].cases \subseteq E!Selected
       /\ Len(eloc[p].reports) = Cardinality(Rejects) + Cardinality(E!Selected \ eloc[p].cases)
       /\ Cardinality(Passed(p)) =
            Cardinality({i \in E!Selected \ eloc[p].cases : E!Earned(p, i)})
  /\ epc[p] = "diagnose" => eloc[p].cases = {}

\* A report that says pass is about a case that its command has done.
PassStands(n) ==
  reported[n] # Unset /\ reported[n].stage = "none" =>
    LET p == reported[n].run IN
    \E i \in E!Accepted : /\ E!Rows[i].id = n /\ E!Earned(p, i)
                          /\ i \notin eloc[p].cases /\ epc[p] \notin {"new", "parse"}

PassesStand == \A n \in E!Names : PassStands(n)

SummaryStands ==
  summary # Unset =>
    summary.run \in Procs /\ epc[summary.run] \in {"diagnose", "ended"} /\ E!SummaryIsTrue

ELive(p) == epc[p] \notin {"new", "ended"}

Owns(p) == \A n \in E!Names : reported[n] # Unset => reported[n].run = p

\* The directory, as long as commands do not overlap.
OneCommand ==
  ~ E!Fault("overlap") =>
    /\ \A p, q \in Procs : ELive(p) /\ ELive(q) => p = q
    /\ \A p \in Procs : ELive(p) => Owns(p)
    /\ diagnosis # Unset => used /\ \A p \in Procs : ~ ELive(p)
    /\ \A p \in Procs : epc[p] = "diagnose" => summary # Unset /\ summary.run = p
    /\ E!OneRunPerDirectory

InUse ==
  /\ ~ used => \A n \in E!Names : reported[n] = Unset
  /\ \A p \in Procs : epc[p] \in {"diagnose"} \cup Working => used

Done(p) == IF epc[p] = "parse" THEN {} ELSE E!Selected \ eloc[p].cases

Listed(p, n) ==
  \/ \E i \in Done(p) : n = E!Rows[i].id
  \/ \E i \in Rejects : n = SchemaErrors[i] /\ (epc[p] = "parse" => i < eloc[p].row)

\* The reports that are there, and what they say.
Lists(p) ==
  /\ \A n \in E!Names : reported[n] # Unset <=> Listed(p, n)
  /\ \A i \in Done(p) : reported[E!Rows[i].id].stage = "none" <=> E!Earned(p, i)
  /\ \A i \in Rejects : reported[SchemaErrors[i]] # Unset =>
       reported[SchemaErrors[i]].stage # "none"

Observed(p) ==
  epc[p] \in {"report", "last_report"} =>
    observed[E!Case(p).id] = [run |-> p, seen |-> eloc[p].seen]

Directory ==
  ~ E!Fault("overlap") /\ ~ E!NamesClash =>
    \A p \in Procs : (ELive(p) => Lists(p)) /\ Observed(p)

\* A command that is new has its locals as they start.
Fresh(p) == epc[p] = "new" =>
  eloc[p] = [row |-> 1, cases |-> {}, reports |-> << >>, seen |-> E!Blank]

EInv == /\ ETypes /\ InUse /\ PassesStand /\ SummaryStands /\ OneCommand /\ Directory
        /\ \A p \in Procs : CaseIs(p) /\ Untouched(p) /\ Counted(p) /\ Fresh(p)
        /\ E!DiagnosisIsComplete /\ E!RescoreAgrees

LEMMA SameCardinality == \A T : E!Cardinality(T) = Cardinality(T)
BY DEF E!Cardinality, Cardinality, E!IsFiniteSet, IsFiniteSet

LEMMA ESame ==
  ASSUME dataset' = dataset
  PROVE  /\ E!Rows' = E!Rows /\ E!Accepted' = E!Accepted /\ E!Selected' = E!Selected
         /\ Rejects' = Rejects /\ E!Names' = E!Names
         /\ (E!Fault("overlap"))' <=> E!Fault("overlap")
         /\ E!NamesClash' <=> E!NamesClash
<1>1. E!Rows' = E!Rows
  BY DEF E!Rows
<1>2. E!Accepted' = E!Accepted
  BY <1>1 DEF E!Accepted, E!Rejected
<1>3. E!Selected' = E!Selected
  BY <1>1, <1>2 DEF E!Selected
<1>4. Rejects' = Rejects /\ E!Names' = E!Names
  BY <1>1, <1>2 DEF Rejects, E!Names
<1>5. (E!Fault("overlap"))' <=> E!Fault("overlap")
  BY DEF E!Fault
<1>6. E!NamesClash' <=> E!NamesClash
  BY <1>1, <1>2 DEF E!NamesClash
<1> QED BY <1>1, <1>2, <1>3, <1>4, <1>5, <1>6

LEMMA SmallestExists ==
  ASSUME NEW T \in SUBSET Nat, T # {}
  PROVE  E!First(T) \in T
<1>1. PICK k \in T : \A y \in T : ~ (<<y, k>> \in OpToRel(<, Nat))
  BY NatLessThanWellFounded, WFMin
<1>2. \A y \in T : ~ (y < k)
  BY <1>1 DEF OpToRel
<1>3. \A y \in T : k <= y
  BY <1>2
<1> QED BY <1>3 DEF E!First

\* The rows of the dataset, and that accepted ones have names of their own.
LEMMA RowsAre ==
  ASSUME ETypes
  PROVE  /\ Len(E!Rows) \in Nat /\ DOMAIN E!Rows = 1 .. Len(E!Rows)
         /\ E!Accepted \subseteq DOMAIN E!Rows /\ E!Selected \subseteq E!Accepted
         /\ Rejects \subseteq DOMAIN E!Rows /\ Rejects \cap E!Accepted = {}
         /\ DOMAIN E!Rows \subseteq Nat
         /\ \A i \in DOMAIN E!Rows : E!Rows[i].id \in E!Names /\ SchemaErrors[i] \in E!Names
         /\ \A i, j \in E!Accepted : E!Rows[i].id = E!Rows[j].id => i = j
         /\ \A i, j \in DOMAIN E!Rows : SchemaErrors[i] = SchemaErrors[j] => i = j
<1>1. /\ Len(E!Rows) \in Nat /\ DOMAIN E!Rows = 1 .. Len(E!Rows)
      /\ \A i, j \in DOMAIN E!Rows : SchemaErrors[i] = SchemaErrors[j] => i = j
  BY EvaluationAssumption DEF ETypes, E!Rows
<1>2. /\ E!Accepted \subseteq DOMAIN E!Rows /\ E!Selected \subseteq E!Accepted
      /\ Rejects \subseteq DOMAIN E!Rows /\ Rejects \cap E!Accepted = {}
  BY DEF E!Accepted, E!Selected, Rejects
<1>3. \A i \in DOMAIN E!Rows : E!Rows[i].id \in E!Names /\ SchemaErrors[i] \in E!Names
  BY DEF E!Names
<1>4. \A i, j \in E!Accepted : E!Rows[i].id = E!Rows[j].id => i = j
  BY <1>1 DEF E!Accepted, E!Rejected
<1> QED BY <1>1, <1>2, <1>3, <1>4

LEMMA RowsAreFinite ==
  ASSUME ETypes, NEW T, T \subseteq DOMAIN E!Rows
  PROVE  IsFiniteSet(T) /\ Cardinality(T) \in Nat
<1>1. IsFiniteSet(DOMAIN E!Rows)
  BY RowsAre, FS_Interval
<1> QED BY <1>1, FS_Subset, FS_CardinalityType

\* A step of one command: what the others know and did stays as it was, and
\* so does what this one has done.
ETurn(p) ==
  /\ dataset' = dataset
  /\ \A q \in Procs \ {p} :
       /\ epc'[q] = epc[q] /\ eloc'[q] = eloc[q]
       /\ \A n, w : <<<<q, n>>, w>> \in facts' <=> <<<<q, n>>, w>> \in facts
  /\ epc[p] \notin {"new", "parse"} =>
       /\ epc'[p] \notin {"new", "parse"} /\ eloc'[p].cases \subseteq eloc[p].cases
       /\ \A i \in E!Accepted \ eloc[p].cases : \A w :
            <<<<p, E!Rows[i].id>>, w>> \in facts' <=> <<<<p, E!Rows[i].id>>, w>> \in facts
  /\ epc[p] \in {"diagnose", "ended"} =>
       /\ epc'[p] \in {"diagnose", "ended"}
       /\ \A n, w : <<<<p, n>>, w>> \in facts' <=> <<<<p, n>>, w>> \in facts

LEMMA EarnedStays ==
  ASSUME dataset' = dataset, NEW p, NEW i,
         \A w : <<<<p, E!Rows[i].id>>, w>> \in facts' <=> <<<<p, E!Rows[i].id>>, w>> \in facts
  PROVE  (E!Earned(p, i))' <=> E!Earned(p, i)
BY DEF E!Earned, E!Happens, E!Rows

LEMMA OthersStay ==
  ASSUME ETypes, NEW q \in Procs, dataset' = dataset, epc'[q] = epc[q], eloc'[q] = eloc[q],
         \A n, w : <<<<q, n>>, w>> \in facts' <=> <<<<q, n>>, w>> \in facts,
         CaseIs(q), Untouched(q), Counted(q), Fresh(q)
  PROVE  CaseIs(q)' /\ Untouched(q)' /\ Counted(q)' /\ Fresh(q)'
<1>1. /\ E!Rows' = E!Rows /\ E!Accepted' = E!Accepted /\ E!Selected' = E!Selected
      /\ Rejects' = Rejects
  BY ESame
<1>2. /\ epc'[q] = epc[q] /\ eloc'[q] = eloc[q]
      /\ \A n, w : <<<<q, n>>, w>> \in facts' <=> <<<<q, n>>, w>> \in facts
  OBVIOUS
<1>3. E!Current(q)' = E!Current(q) /\ E!Case(q)' = E!Case(q)
  BY <1>1, <1>2 DEF E!Case, E!Current
<1>4. CaseIs(q)' /\ Untouched(q)'
  BY <1>1, <1>2, <1>3 DEF CaseIs, Untouched, Seen, NoFacts, E!Blank
<1>5. \A i : (E!Earned(q, i))' <=> E!Earned(q, i)
  BY <1>2, EarnedStays
<1>6. {i \in E!Selected \ eloc[q].cases : E!Earned(q, i)}'
        = {i \in E!Selected \ eloc[q].cases : E!Earned(q, i)}
  BY <1>1, <1>2, <1>5
<1>7. Passed(q)' = Passed(q)
  BY <1>2 DEF Passed
<1>8. Counted(q)'
  <2> DEFINE U == {i \in E!Selected \ eloc[q].cases : E!Earned(q, i)}
  <2>1. U' = U
    BY <1>6
  <2> HIDE DEF U
  <2> QED BY <1>1, <1>2, <1>7, <2>1 DEF Counted, U
<1> QED BY <1>2, <1>4, <1>8 DEF Fresh, E!Blank

\* Reports that say pass, and the summary, stand on what is done.
LEMMA DoneStays ==
  ASSUME ETypes, PassesStand, SummaryStands, NEW p \in Procs, ETurn(p)
  PROVE  /\ \A n \in E!Names : reported'[n] = reported[n] => PassStands(n)'
         /\ summary' = summary => SummaryStands'
<1>1. /\ E!Rows' = E!Rows /\ E!Accepted' = E!Accepted /\ E!Selected' = E!Selected
      /\ E!Names' = E!Names
  BY ESame DEF ETurn
<1>2. ASSUME NEW n \in E!Names, reported'[n] = reported[n] PROVE PassStands(n)'
  <2> SUFFICES ASSUME reported[n] # Unset, reported[n].stage = "none"
      PROVE \E i \in E!Accepted :
              \A q \in Procs : q = reported[n].run =>
                /\ E!Rows[i].id = n /\ (E!Earned(q, i))'
                /\ i \notin eloc'[q].cases /\ epc'[q] \notin {"new", "parse"}
    <3>1. reported[n] # Unset => reported[n].run \in Procs
      BY DEF ETypes
    <3> QED BY <1>1, <1>2, <3>1 DEF PassStands
  <2>0. PICK q \in Procs : q = reported[n].run
    BY DEF ETypes
  <2>1. PICK i \in E!Accepted : /\ E!Rows[i].id = n /\ E!Earned(q, i)
                                /\ i \notin eloc[q].cases /\ epc[q] \notin {"new", "parse"}
    BY <2>0 DEF PassesStand, PassStands
  <2>3. /\ i \notin eloc'[q].cases /\ epc'[q] \notin {"new", "parse"}
        /\ \A w : <<<<q, E!Rows[i].id>>, w>> \in facts' <=> <<<<q, E!Rows[i].id>>, w>> \in facts
    BY <2>1 DEF ETurn
  <2>4. (E!Earned(q, i))'
    BY <2>1, <2>3, EarnedStays DEF ETurn
  <2> QED BY <2>0, <2>1, <2>3, <2>4
<1>3. ASSUME summary' = summary PROVE SummaryStands'
  <2> SUFFICES ASSUME summary # Unset PROVE SummaryStands'
    BY <1>3 DEF SummaryStands
  <2>0. PICK q \in Procs : q = summary.run
    BY DEF SummaryStands
  <2>1. epc[q] \in {"diagnose", "ended"} /\ E!SummaryIsTrue
    BY <2>0 DEF SummaryStands
  <2>2. /\ epc'[q] \in {"diagnose", "ended"}
        /\ \A n, w : <<<<q, n>>, w>> \in facts' <=> <<<<q, n>>, w>> \in facts
    BY <2>1 DEF ETurn
  <2>3. \A i : (E!Earned(q, i))' <=> E!Earned(q, i)
    BY <2>2, EarnedStays DEF ETurn
  <2>4. {i \in E!Selected : E!Earned(q, i)}' = {i \in E!Selected : E!Earned(q, i)}
    BY <1>1, <1>3, <2>3
  <2>5. E!Rows' = E!Rows /\ q = summary'.run
    BY <1>1, <1>3, <2>0
  <2>6. E!SummaryIsTrue'
    <3> DEFINE T == {i \in E!Selected : E!Earned(q, i)}
    <3>1. T' = T
      BY <2>4
    <3>4. T = {i \in E!Selected : E!Earned(summary.run, i)}
      BY <2>0
    <3>5. T' = {i \in E!Selected : E!Earned(summary.run, i)}'
      BY <1>1, <1>3, <2>0 DEF E!Earned, E!Happens
    <3> HIDE DEF T
    <3>2. summary # Unset =>
            /\ summary.count = Cardinality(DOMAIN E!Rows \ E!Accepted) + Cardinality(E!Selected)
            /\ summary.passed = Cardinality(T)
      BY <2>1, <3>4, SameCardinality DEF E!SummaryIsTrue
    <3>3. E!SummaryIsTrue' <=> (summary # Unset =>
            /\ summary.count = Cardinality(DOMAIN E!Rows \ E!Accepted) + Cardinality(E!Selected)
            /\ summary.passed = Cardinality(T'))
      BY <1>1, <1>3, <2>5, <3>5, SameCardinality DEF E!SummaryIsTrue
    <3> QED BY <3>1, <3>2, <3>3
  <2> QED BY <1>3, <2>0, <2>1, <2>2, <2>6 DEF SummaryStands
<1> QED BY <1>2, <1>3

\* What a command writes down is about its own case.
LEMMA OwnCase ==
  ASSUME EInv, NEW p \in Procs, epc[p] \in Working, eloc[p].cases # {}
  PROVE  /\ E!Current(p) \in eloc[p].cases /\ E!Current(p) \in E!Accepted
         /\ E!Current(p) \in DOMAIN E!Rows /\ E!Case(p) = E!Rows[E!Current(p)]
         /\ \A i \in E!Accepted \ {E!Current(p)} : E!Rows[i].id # E!Case(p).id
<1>1. eloc[p].cases \subseteq E!Accepted
  BY DEF EInv, ETypes
<1>2. eloc[p].cases \in SUBSET Nat
  BY <1>1, RowsAre DEF EInv
<1>3. E!Current(p) \in eloc[p].cases
  BY <1>2, SmallestExists DEF E!Current
<1>4. E!Case(p) = E!Rows[E!Current(p)]
  BY DEF E!Case
<1> QED BY <1>1, <1>3, <1>4, RowsAre DEF EInv

LEMMA Writes ==
  ASSUME EInv, NEW p \in Procs, epc[p] \in InCase, NEW what, E!Happened(p, what)
  PROVE  /\ \A q \in Procs \ {p} : \A n, w :
              <<<<q, n>>, w>> \in facts' <=> <<<<q, n>>, w>> \in facts
         /\ \A i \in E!Accepted \ {E!Current(p)} : \A w :
              <<<<p, E!Rows[i].id>>, w>> \in facts' <=> <<<<p, E!Rows[i].id>>, w>> \in facts
         /\ \A w : <<<<p, E!Case(p).id>>, w>> \in facts'
                     <=> <<<<p, E!Case(p).id>>, w>> \in facts \/ w \in what
<1>1. eloc[p].cases # {} /\ epc[p] \in Working
  BY DEF EInv, CaseIs, Working
<1>2. \A i \in E!Accepted \ {E!Current(p)} : E!Rows[i].id # E!Case(p).id
  BY <1>1, OwnCase
<1>3. facts' = facts \cup ({<<p, E!Case(p).id>>} \X what)
  BY DEF E!Happened
<1> QED BY <1>2, <1>3

\* The stage of a report is none exactly if its case earned it.
LEMMA StageIsEarned ==
  ASSUME EInv, NEW p \in Procs, epc[p] \in {"report", "last_report"}
  PROVE  /\ E!Stage(E!Case(p), eloc[p].seen) \in E!Stages
         /\ E!Stage(E!Case(p), eloc[p].seen) = "none" <=> E!Earned(p, E!Current(p))
<1> DEFINE s == eloc[p].seen
           r == E!Case(p)
<1>1. s.oracle \in {"passed", "failed", "error"} /\ s.shows \subseteq E!Shown
  BY DEF EInv, ETypes, ELocals, ESeen
<1>2. E!Stage(r, s) \in E!Stages
  BY DEF E!Stage, E!Stages
<1>3. E!Stage(r, s) = "none" <=> /\ s.oracle = "passed"
                                 /\ "verified" \in s.shows /\ "gate" \in s.shows
                                 /\ r.patch => "generated" \in s.shows
  BY <1>1 DEF E!Stage
<1>4. E!Earned(p, E!Current(p)) <=>
        /\ \A w \in {"verified", "gate", "passed"} : <<<<p, r.id>>, w>> \in facts
        /\ r.patch => <<<<p, r.id>>, "generated">> \in facts
        /\ <<<<p, r.id>>, "raised">> \notin facts
  BY DEF E!Earned, E!Happens, E!Case
<1>5. CASE epc[p] = "report"
  <2>1. \A w \in Whats : <<<<p, r.id>>, w>> \in facts <=> w \in s.shows \cup {s.oracle}
    BY <1>5 DEF EInv, CaseIs, Seen
  <2> HIDE DEF s, r
  <2> QED BY <1>1, <1>2, <1>3, <1>4, <2>1 DEF Whats, E!Shown, s, r
<1>6. CASE epc[p] = "last_report"
  <2>1. s.oracle = "error" /\ <<<<p, r.id>>, "raised">> \in facts
    BY <1>6 DEF EInv, CaseIs
  <2> QED BY <1>2, <1>3, <1>4, <2>1
<1> QED BY <1>5, <1>6

\* The count of a command whose cases and reports stay stays.
LEMMA CountStays ==
  ASSUME EInv, NEW p \in Procs, ETurn(p), epc[p] \in Working, epc'[p] \in Working,
         eloc'[p].cases = eloc[p].cases, eloc'[p].reports = eloc[p].reports
  PROVE  Counted(p)'
<1>1. /\ E!Rows' = E!Rows /\ E!Accepted' = E!Accepted /\ E!Selected' = E!Selected
      /\ Rejects' = Rejects
  BY ESame DEF ETurn
<1>2. Passed(p)' = Passed(p)
  BY DEF Passed
<1>3. \A i \in E!Selected \ eloc[p].cases : (E!Earned(p, i))' <=> E!Earned(p, i)
  BY EarnedStays, RowsAre DEF ETurn, Working, InCase, EInv
<1>4. {i \in E!Selected \ eloc[p].cases : E!Earned(p, i)}'
        = {i \in E!Selected \ eloc[p].cases : E!Earned(p, i)}
  BY <1>1, <1>3
<1> DEFINE T == {i \in E!Selected \ eloc[p].cases : E!Earned(p, i)}
<1>5. /\ eloc[p].cases \subseteq E!Selected
      /\ Len(eloc[p].reports) = Cardinality(Rejects) + Cardinality(E!Selected \ eloc[p].cases)
      /\ Cardinality(Passed(p)) = Cardinality(T)
  BY DEF EInv, Counted
<1>6. T' = T
  BY <1>4
<1> HIDE DEF T
<1>7. /\ epc'[p] \notin {"parse", "diagnose"}
  BY DEF Working, InCase
<1> QED BY <1>1, <1>2, <1>5, <1>6, <1>7 DEF Counted, T

\* What a step of a command has to show for the command itself.
EKept(p) == ETypes' /\ ETurn(p) /\ CaseIs(p)' /\ Untouched(p)' /\ Counted(p)' /\ Fresh(p)'

LEMMA EBegins ==
  ASSUME EInv, NEW p \in Procs, E!Begins(p)
  PROVE  EKept(p)
<1>1. /\ E!Rows' = E!Rows /\ E!Accepted' = E!Accepted /\ E!Selected' = E!Selected
      /\ Rejects' = Rejects /\ E!Names' = E!Names /\ dataset' = dataset
  BY ESame DEF E!Begins
<1>2. /\ epc' = [epc EXCEPT ![p] = IF used THEN "ended" ELSE "parse"]
      /\ reported' = reported /\ observed' = observed /\ eloc' = eloc
      /\ used' = used /\ facts' = facts /\ epc[p] = "new"
  BY DEF E!Begins, E!Goto, E!files
<1>3. epc'[p] \in {"ended", "parse"} /\ \A q \in Procs \ {p} : epc'[q] = epc[q]
  BY <1>2 DEF EInv, ETypes
<1>4. eloc[p] = [row |-> 1, cases |-> {}, reports |-> << >>, seen |-> E!Blank]
  BY <1>2 DEF EInv, Fresh
<1>5. ETypes'
  BY <1>1, <1>2, <1>3, <1>4 DEF EInv, ETypes, Working, InCase
<1>6. ETurn(p)
  BY <1>1, <1>2, <1>3 DEF ETurn
<1>7. CaseIs(p)' /\ Untouched(p)'
  BY <1>1, <1>2, <1>3, RowsAre DEF EInv, CaseIs, Untouched, NoFacts, InCase, Working
<1>8. Counted(p)'
  <2> DEFINE T == {i \in E!Accepted : i < eloc[p].row}
             R == {i \in Rejects : i < eloc[p].row}
  <2>1. T = {} /\ R = {} /\ T' = T /\ R' = R
    BY <1>1, <1>2, <1>4, RowsAre DEF EInv
  <2>2. Passed(p)' = {}
    BY <1>2, <1>4 DEF Passed
  <2>3. /\ Len(eloc[p].reports) = 0 /\ Cardinality({}) = 0 /\ eloc[p].cases = {}
        /\ eloc[p].row \in 1 .. Len(E!Rows) + 1
    BY <1>4, FS_EmptySet, RowsAre DEF EInv
  <2>4. epc'[p] \notin {"diagnose"} \cup Working
    BY <1>3 DEF Working, InCase
  <2> HIDE DEF T, R
  <2>5. T' = eloc'[p].cases /\ Len(eloc'[p].reports) = Cardinality(R')
    BY <1>2, <2>1, <2>3
  <2> QED BY <1>1, <1>2, <2>2, <2>3, <2>4, <2>5 DEF Counted, T, R
<1> QED BY <1>3, <1>5, <1>6, <1>7, <1>8 DEF EKept, Fresh

LEMMA EOpenCase ==
  ASSUME EInv, NEW p \in Procs, E!OpenCase(p)
  PROVE  EKept(p) /\ E!Current(p)' = E!Current(p)
<1>1. /\ E!Rows' = E!Rows /\ E!Accepted' = E!Accepted /\ E!Names' = E!Names /\ dataset' = dataset
  BY ESame DEF E!OpenCase
<1>2. /\ epc' = [epc EXCEPT ![p] = "execute"] /\ epc[p] = "cases" /\ eloc[p].cases # {}
      /\ eloc' = [eloc EXCEPT ![p].seen = E!Blank]
      /\ reported' = reported /\ observed' = observed /\ used' = used /\ facts' = facts
  BY DEF E!OpenCase, E!Goto, E!files
<1>3. epc'[p] = "execute" /\ \A q \in Procs \ {p} : epc'[q] = epc[q] /\ eloc'[q] = eloc[q]
  BY <1>2 DEF EInv, ETypes
<1>4. eloc'[p] = [eloc[p] EXCEPT !.seen = E!Blank] /\ E!Blank \in ESeen
  BY <1>2 DEF EInv, ETypes, E!Blank, ESeen
<1>5. ETypes'
  <2>1. eloc \in [Procs -> ELocals] /\ eloc[p] \in ELocals
    BY DEF EInv, ETypes
  <2>2. eloc'[p] \in ELocals /\ eloc'[p].cases = eloc[p].cases
    BY <1>4, <2>1 DEF ELocals
  <2>3. eloc' = [eloc EXCEPT ![p] = eloc'[p]]
    BY <1>2, <2>1
  <2>4. eloc' \in [Procs -> ELocals]
    BY <2>1, <2>2, <2>3
  <2>5. epc' \in [Procs -> {"new", "parse", "diagnose", "ended"} \cup Working]
    BY <1>2 DEF EInv, ETypes, Working, InCase
  <2>6. ASSUME NEW q \in Procs, epc'[q] \in {"parse", "diagnose"} \cup Working
        PROVE  eloc'[q].cases \subseteq E!Accepted
    BY <1>2, <1>3, <2>2, <2>6 DEF EInv, ETypes, Working
  <2> QED BY <1>1, <1>2, <2>4, <2>5, <2>6 DEF EInv, ETypes
<1>6. /\ eloc'[p].cases = eloc[p].cases /\ eloc'[p].reports = eloc[p].reports
      /\ eloc'[p].seen = E!Blank
  BY <1>4 DEF EInv, ETypes, ELocals
<1>7. ETurn(p)
  BY <1>1, <1>2, <1>3, <1>6 DEF ETurn
<1>8. E!Current(p)' = E!Current(p) /\ E!Case(p)' = E!Case(p)
  BY <1>1, <1>6 DEF E!Case, E!Current
<1>9. NoFacts(p, E!Current(p))
  BY <1>2, OwnCase DEF EInv, Untouched, Working
<1>10. CaseIs(p)'
  BY <1>2, <1>3, <1>6, <1>8, <1>9 DEF CaseIs, Seen, NoFacts, E!Case, E!Blank
<1>11. Untouched(p)'
  BY <1>1, <1>2, <1>3, <1>6, <1>8 DEF EInv, Untouched, NoFacts, Working
<1>12. Counted(p)'
  BY <1>2, <1>3, <1>6, <1>7, CountStays DEF Working, InCase
<1> QED BY <1>3, <1>5, <1>7, <1>8, <1>10, <1>11, <1>12 DEF EKept, Fresh

\* The steps inside a case write down what happens in it.
LEMMA EInside ==
  ASSUME EInv, NEW p \in Procs, epc[p] \in InCase, NEW what, E!Happened(p, what),
         dataset' = dataset, reported' = reported, observed' = observed, used' = used,
         NEW label \in InCase \ {"execute", "report", "last_report"}, NEW seen \in ESeen,
         epc' = [epc EXCEPT ![p] = label],
         eloc' = [eloc EXCEPT ![p] = [eloc[p] EXCEPT !.seen = seen]],
         \/ /\ label = "oracle" /\ epc[p] = "execute"
            /\ what = seen.shows /\ seen.oracle = "error"
         \/ /\ label = "observe" /\ epc[p] = "oracle"
            /\ what = {seen.oracle} /\ seen.shows = eloc[p].seen.shows
         \/ /\ label = "handled" /\ what = {"raised"} /\ seen.oracle = "error"
  PROVE  EKept(p) /\ E!Current(p)' = E!Current(p)
<1>1. /\ E!Rows' = E!Rows /\ E!Accepted' = E!Accepted /\ E!Names' = E!Names
  BY ESame
<1>2. epc'[p] = label /\ \A q \in Procs \ {p} : epc'[q] = epc[q] /\ eloc'[q] = eloc[q]
  BY DEF EInv, ETypes
<1>3. /\ eloc'[p].cases = eloc[p].cases /\ eloc'[p].reports = eloc[p].reports
      /\ eloc'[p].seen = seen
  BY DEF EInv, ETypes, ELocals
<1>4. ETypes'
  <2>1. eloc' \in [Procs -> ELocals]
    BY DEF EInv, ETypes, ELocals
  <2>2. epc' \in [Procs -> {"new", "parse", "diagnose", "ended"} \cup Working]
    BY DEF EInv, ETypes, Working
  <2>3. eloc[p].cases \subseteq E!Accepted
    BY DEF EInv, ETypes, Working
  <2> QED BY <1>1, <1>2, <1>3, <2>1, <2>2, <2>3 DEF EInv, ETypes
<1>5. /\ eloc[p].cases # {} /\ epc[p] \in Working
      /\ epc[p] \notin {"new", "parse", "cases", "diagnose", "ended"}
      /\ label \notin {"new", "parse", "cases", "diagnose", "ended"}
      /\ label \in Working
  BY DEF EInv, CaseIs, Working, InCase
<1>6. /\ \A q \in Procs \ {p} : \A n, w :
           <<<<q, n>>, w>> \in facts' <=> <<<<q, n>>, w>> \in facts
      /\ \A i \in E!Accepted \ {E!Current(p)} : \A w :
           <<<<p, E!Rows[i].id>>, w>> \in facts' <=> <<<<p, E!Rows[i].id>>, w>> \in facts
      /\ \A w : <<<<p, E!Case(p).id>>, w>> \in facts'
                  <=> <<<<p, E!Case(p).id>>, w>> \in facts \/ w \in what
  BY Writes
<1>7. E!Current(p) \in eloc[p].cases
  BY <1>5, OwnCase
<1>8. ETurn(p)
  BY <1>2, <1>3, <1>5, <1>6, <1>7 DEF ETurn
<1>9. E!Current(p)' = E!Current(p) /\ E!Case(p)' = E!Case(p)
  BY <1>1, <1>3 DEF E!Case, E!Current
<1>10. CaseIs(p)'
  <2>1. CASE label = "oracle"
    BY <2>1, <1>2, <1>3, <1>5, <1>6, <1>9 DEF EInv, CaseIs, Seen
  <2>2. CASE label = "observe"
    BY <2>2, <1>2, <1>3, <1>5, <1>6, <1>9 DEF EInv, CaseIs, Seen
  <2>3. CASE label = "handled"
    BY <2>3, <1>2, <1>3, <1>5, <1>6, <1>9 DEF CaseIs
  <2> QED BY <2>1, <2>2, <2>3 DEF InCase
<1>11. Untouched(p)'
  <2>1. eloc[p].cases \subseteq E!Accepted
    BY <1>5 DEF EInv, ETypes
  <2>2. \A i \in eloc[p].cases : i # E!Current(p) => NoFacts(p, i)
    BY <1>5 DEF EInv, Untouched
  <2>3. \A i \in eloc[p].cases : i # E!Current(p) => NoFacts(p, i)'
    BY <1>1, <1>6, <2>1, <2>2 DEF NoFacts
  <2> QED BY <1>2, <1>3, <1>5, <1>9, <2>3 DEF Untouched
<1>12. Counted(p)'
  BY <1>2, <1>3, <1>5, <1>8, CountStays
<1> QED BY <1>2, <1>5, <1>4, <1>8, <1>9, <1>10, <1>11, <1>12 DEF EKept, Fresh

LEMMA LocalsAre ==
  ASSUME NEW l \in ELocals
  PROVE  /\ \A r \in Nat, c \in SUBSET Nat : [l EXCEPT !.row = r, !.cases = c] \in ELocals
         /\ \A r \in Nat, t \in Seq(E!Stages) :
              [l EXCEPT !.row = r, !.reports = t] \in ELocals
         /\ \A c \in SUBSET Nat, t \in Seq(E!Stages) :
              [l EXCEPT !.reports = t, !.cases = c] \in ELocals
         /\ \A c \in SUBSET Nat : [l EXCEPT !.cases = c] \in ELocals
BY DEF ELocals

LEMMA EExecute ==
  ASSUME EInv, NEW p \in Procs, NEW shows \in SUBSET E!Shown, E!Execute(p, shows)
  PROVE  EKept(p) /\ E!Current(p)' = E!Current(p)
<1> DEFINE seen == [eloc[p].seen EXCEPT !.shows = shows]
<1>1. eloc[p] \in ELocals /\ epc[p] = "execute"
  BY DEF EInv, ETypes, E!Execute
<1>2. eloc[p].seen = E!Blank
  BY <1>1 DEF EInv, CaseIs
<1>3. seen \in ESeen /\ seen.shows = shows /\ seen.oracle = "error"
  BY <1>2 DEF ESeen, E!Blank
<1>4. eloc' = [eloc EXCEPT ![p] = [eloc[p] EXCEPT !.seen = seen]]
  BY DEF E!Execute
<1>5. /\ E!Happened(p, shows) /\ epc' = [epc EXCEPT ![p] = "oracle"] /\ dataset' = dataset
      /\ reported' = reported /\ observed' = observed /\ used' = used
  BY DEF E!Execute, E!Goto, E!files
<1> HIDE DEF seen
<1> QED BY <1>1, <1>3, <1>4, <1>5, EInside DEF InCase

LEMMA EJudge ==
  ASSUME EInv, NEW p \in Procs, NEW status \in {"passed", "failed", "error"},
         E!Judge(p, status)
  PROVE  EKept(p) /\ E!Current(p)' = E!Current(p)
<1> DEFINE seen == [eloc[p].seen EXCEPT !.oracle = status]
           what == {status}
<1>1. eloc[p] \in ELocals /\ epc[p] = "oracle"
  BY DEF EInv, ETypes, E!Judge
<1>2. seen \in ESeen /\ seen.oracle = status /\ seen.shows = eloc[p].seen.shows
  BY <1>1 DEF ELocals, ESeen
<1>3. eloc' = [eloc EXCEPT ![p] = [eloc[p] EXCEPT !.seen = seen]]
  BY DEF E!Judge
<1>4. /\ epc' = [epc EXCEPT ![p] = "observe"] /\ dataset' = dataset
      /\ reported' = reported /\ observed' = observed /\ used' = used
  BY DEF E!Judge, E!Goto, E!files
<1>5. E!Happened(p, what)
  BY DEF E!Judge
<1>6. what = {seen.oracle}
  BY <1>2
<1>7. "observe" \in InCase \ {"execute", "report", "last_report"} /\ epc[p] \in InCase
  BY <1>1 DEF InCase
<1> HIDE DEF seen, what
<1> QED BY <1>1, <1>2, <1>3, <1>4, <1>5, <1>6, <1>7, EInside

LEMMA ECaseRaises ==
  ASSUME EInv, NEW p \in Procs, E!CaseRaises(p)
  PROVE  EKept(p) /\ E!Current(p)' = E!Current(p)
<1> DEFINE seen == E!Spoiled(eloc[p].seen)
<1>1. eloc[p] \in ELocals /\ epc[p] \in InCase
  BY DEF EInv, ETypes, E!CaseRaises, InCase
<1>2. seen \in ESeen /\ seen.oracle = "error"
  BY <1>1 DEF ELocals, ESeen, E!Spoiled
<1>3. eloc' = [eloc EXCEPT ![p] = [eloc[p] EXCEPT !.seen = seen]]
  BY DEF E!CaseRaises
<1>4. /\ E!Happened(p, {"raised"}) /\ epc' = [epc EXCEPT ![p] = "handled"]
      /\ dataset' = dataset
      /\ reported' = reported /\ observed' = observed /\ used' = used
  BY DEF E!CaseRaises, E!Goto, E!files
<1> DEFINE what == {"raised"}
<1>5. what = {"raised"} /\ E!Happened(p, what)
  BY <1>4
<1>6. "handled" \in InCase \ {"execute", "report", "last_report"}
  BY DEF InCase
<1> HIDE DEF seen, what
<1> QED BY <1>1, <1>2, <1>3, <1>4, <1>5, <1>6, EInside

LEMMA EDies ==
  ASSUME EInv, NEW p \in Procs, E!Dies(p)
  PROVE  EKept(p)
<1>1. E!Rows' = E!Rows /\ E!Accepted' = E!Accepted /\ E!Names' = E!Names /\ dataset' = dataset
  BY ESame DEF E!Dies
<1>2. /\ epc' = [epc EXCEPT ![p] = "ended"] /\ epc[p] \notin {"new", "ended"}
      /\ reported' = reported /\ observed' = observed /\ eloc' = eloc
      /\ used' = used /\ facts' = facts
  BY DEF E!Dies, E!Goto, E!files
<1>3. epc'[p] = "ended" /\ \A q \in Procs \ {p} : epc'[q] = epc[q]
  BY <1>2 DEF EInv, ETypes
<1>4. ETypes'
  BY <1>1, <1>2, <1>3 DEF EInv, ETypes, Working, InCase
<1>5. ETurn(p)
  BY <1>1, <1>2, <1>3 DEF ETurn
<1> QED BY <1>3, <1>4, <1>5
    DEF EKept, CaseIs, Untouched, Counted, Fresh, InCase, Working

LEMMA EObserve ==
  ASSUME EInv, NEW p \in Procs, E!Observe(p)
  PROVE  EKept(p) /\ E!Current(p)' = E!Current(p)
<1>1. E!Rows' = E!Rows /\ E!Accepted' = E!Accepted /\ E!Names' = E!Names /\ dataset' = dataset
  BY ESame DEF E!Observe
<1>2. /\ epc' = [epc EXCEPT ![p] = IF epc[p] = "observe" THEN "report" ELSE "last_report"]
      /\ epc[p] \in {"observe", "handled"}
      /\ observed' = [observed EXCEPT ![E!Case(p).id] = [run |-> p, seen |-> eloc[p].seen]]
      /\ reported' = reported /\ eloc' = eloc /\ used' = used /\ facts' = facts
  BY DEF E!Observe, E!Goto
<1>3. /\ epc'[p] = (IF epc[p] = "observe" THEN "report" ELSE "last_report")
      /\ \A q \in Procs \ {p} : epc'[q] = epc[q]
  BY <1>2 DEF EInv, ETypes
<1>4. epc[p] \in Working /\ epc'[p] \in Working /\ epc'[p] \in InCase /\ epc[p] \in InCase
  BY <1>2, <1>3 DEF Working, InCase
<1>5. ETypes'
  <2>1. observed' \in [E!Names -> [run : Procs, seen : ESeen] \cup {Unset}]
    BY <1>2 DEF EInv, ETypes, ELocals
  <2>2. epc' \in [Procs -> {"new", "parse", "diagnose", "ended"} \cup Working]
    BY <1>2, <1>4 DEF EInv, ETypes, Working, InCase
  <2> QED BY <1>1, <1>2, <1>3, <1>4, <2>1, <2>2 DEF EInv, ETypes
<1>6. ETurn(p)
  BY <1>1, <1>2, <1>3 DEF ETurn
<1>7. E!Current(p)' = E!Current(p) /\ E!Case(p)' = E!Case(p)
  BY <1>1, <1>2 DEF E!Case, E!Current
<1>8. CaseIs(p)'
  <2>1. CASE epc[p] = "observe"
    BY <2>1, <1>2, <1>3, <1>4, <1>7 DEF EInv, CaseIs, Seen
  <2>2. CASE epc[p] = "handled"
    BY <2>2, <1>2, <1>3, <1>4, <1>7 DEF EInv, CaseIs, Seen
  <2> QED BY <1>2, <2>1, <2>2
<1>9. Untouched(p)'
  BY <1>1, <1>2, <1>3, <1>4, <1>7 DEF EInv, Untouched, NoFacts
<1>10. Counted(p)'
  BY <1>2, <1>4, <1>6, CountStays
<1> QED BY <1>3, <1>5, <1>6, <1>7, <1>8, <1>9, <1>10 DEF EKept, Fresh

LEMMA EParseRow ==
  ASSUME EInv, NEW p \in Procs, E!ParseRow(p)
  PROVE  EKept(p)
<1> DEFINE i == eloc[p].row
<1>1. /\ E!Rows' = E!Rows /\ E!Accepted' = E!Accepted /\ E!Selected' = E!Selected
      /\ Rejects' = Rejects /\ E!Names' = E!Names /\ dataset' = dataset
  BY ESame DEF E!ParseRow
<1>2. /\ epc[p] = "parse" /\ i <= Len(E!Rows) /\ epc' = epc /\ facts' = facts
      /\ observed' = observed
  BY DEF E!ParseRow
<1>3. /\ eloc[p] \in ELocals /\ i \in 1 .. Len(E!Rows) /\ i \in DOMAIN E!Rows /\ i \in Nat
      /\ eloc[p].cases = {j \in E!Accepted : j < i}
      /\ Len(eloc[p].reports) = Cardinality({j \in Rejects : j < i})
      /\ Passed(p) = {}
  <2>1. eloc[p] \in ELocals
    BY DEF EInv, ETypes
  <2>2. /\ i \in 1 .. Len(E!Rows) + 1 /\ eloc[p].cases = {j \in E!Accepted : j < i}
        /\ Len(eloc[p].reports) = Cardinality({j \in Rejects : j < i})
        /\ Passed(p) = {}
    BY <1>2 DEF EInv, Counted
  <2>3. Len(E!Rows) \in Nat /\ DOMAIN E!Rows = 1 .. Len(E!Rows)
    BY RowsAre DEF EInv
  <2> QED BY <1>2, <2>1, <2>2, <2>3
<1>4. i \in Rejects <=> E!Rejected(i)
  BY <1>3 DEF Rejects, E!Accepted
<1>5. CASE E!Rejected(i)
  <2>1. /\ used' = TRUE
        /\ reported' = [reported EXCEPT ![SchemaErrors[i]] =
                          [run |-> p, stage |-> "case_schema"]]
        /\ eloc' = [eloc EXCEPT ![p] = [eloc[p] EXCEPT !.row = i + 1,
                      !.reports = Append(@, "case_schema")]]
    BY <1>5 DEF E!ParseRow, E!Reports
  <2>2. /\ eloc'[p].row = i + 1 /\ eloc'[p].cases = eloc[p].cases
        /\ eloc'[p].reports = Append(eloc[p].reports, "case_schema")
        /\ \A q \in Procs \ {p} : eloc'[q] = eloc[q]
    BY <1>3, <2>1 DEF EInv, ETypes, ELocals
  <2>3. ETypes'
    <3>1. "case_schema" \in E!Stages
      BY DEF E!Stages
    <3>2. Append(eloc[p].reports, "case_schema") \in Seq(E!Stages)
      BY <1>3, <3>1 DEF ELocals
    <3>3. eloc' \in [Procs -> ELocals]
      <4> DEFINE r == [eloc[p] EXCEPT !.row = i + 1, !.reports = Append(@, "case_schema")]
      <4>1. i + 1 \in Nat
        BY <1>3
      <4>2. r \in ELocals
        BY <1>3, <3>2, <4>1, LocalsAre
      <4>3. eloc' = [eloc EXCEPT ![p] = r]
        BY <2>1
      <4> HIDE DEF r
      <4> QED BY <4>2, <4>3 DEF EInv, ETypes
    <3>4. SchemaErrors[i] \in E!Names
      BY <1>3, RowsAre DEF EInv
    <3>5. reported' \in [E!Names -> [run : Procs, stage : E!Stages] \cup {Unset}]
      BY <2>1, <3>1, <3>4 DEF EInv, ETypes
    <3> QED BY <1>1, <1>2, <2>1, <2>2, <3>3, <3>5 DEF EInv, ETypes
  <2>4. ETurn(p)
    BY <1>1, <1>2, <2>2 DEF ETurn
  <2>5. CaseIs(p)' /\ Untouched(p)' /\ Fresh(p)'
    BY <1>1, <1>2 DEF EInv, CaseIs, Untouched, NoFacts, InCase, Working, Fresh
  <2>6. Counted(p)'
    <3> DEFINE T(k) == {j \in Rejects : j < k}
    <3>1. T(i + 1) = T(i) \cup {i} /\ i \notin T(i) /\ IsFiniteSet(T(i))
      BY <1>3, <1>4, <1>5, RowsAre, RowsAreFinite DEF EInv
    <3>2. Cardinality(T(i + 1)) = Cardinality(T(i)) + 1
      BY <3>1, FS_AddElement
    <3>3. Len(eloc'[p].reports) = Len(eloc[p].reports) + 1
      BY <1>3, <2>2 DEF ELocals
    <3>4. eloc'[p].cases = {j \in E!Accepted : j < i + 1}
      BY <1>3, <1>4, <1>5, <2>2, RowsAre DEF EInv
    <3>5. Passed(p)' = {}
      BY <1>3, <2>2, <3>3 DEF Passed, ELocals
    <3>6. {j \in Rejects : j < eloc[p].row}' = T(i + 1)
      BY <1>1, <2>2
    <3>7. {j \in E!Accepted : j < eloc[p].row}' = eloc'[p].cases
      BY <1>1, <2>2, <3>4
    <3>8. eloc'[p].row \in 1 .. Len(E!Rows) + 1
      BY <1>3, <2>2, RowsAre DEF EInv
    <3>9. Len(eloc'[p].reports) = Cardinality({j \in Rejects : j < eloc[p].row}')
      BY <1>3, <3>2, <3>3, <3>6
    <3>10. epc'[p] \notin {"diagnose"} \cup Working
      BY <1>2 DEF Working, InCase
    <3> QED BY <1>1, <3>5, <3>7, <3>8, <3>9, <3>10 DEF Counted
  <2> QED BY <2>3, <2>4, <2>5, <2>6 DEF EKept
<1>6. CASE ~ E!Rejected(i)
  <2>1. /\ used' = used /\ reported' = reported
        /\ eloc' = [eloc EXCEPT ![p] = [eloc[p] EXCEPT !.row = i + 1, !.cases = eloc[p].cases \cup {i}]]
    BY <1>6 DEF E!ParseRow
  <2>2. /\ eloc'[p].row = i + 1 /\ eloc'[p].cases = eloc[p].cases \cup {i}
        /\ eloc'[p].reports = eloc[p].reports
        /\ \A q \in Procs \ {p} : eloc'[q] = eloc[q]
    BY <1>3, <2>1 DEF EInv, ETypes, ELocals
  <2>3. i \in E!Accepted
    BY <1>3, <1>6 DEF E!Accepted
  <2>4. ETypes'
    <3>1. eloc' \in [Procs -> ELocals]
      <4> DEFINE r == [eloc[p] EXCEPT !.row = i + 1, !.cases = eloc[p].cases \cup {i}]
      <4>1. i + 1 \in Nat /\ eloc[p].cases \cup {i} \in SUBSET Nat
        BY <1>3 DEF ELocals
      <4>2. r \in ELocals
        BY <1>3, <4>1, LocalsAre
      <4>3. eloc' = [eloc EXCEPT ![p] = r]
        BY <2>1
      <4> HIDE DEF r
      <4> QED BY <4>2, <4>3 DEF EInv, ETypes
    <3> QED BY <1>1, <1>2, <2>1, <2>2, <2>3, <3>1 DEF EInv, ETypes
  <2>5. ETurn(p)
    BY <1>1, <1>2, <2>2 DEF ETurn
  <2>6. CaseIs(p)' /\ Untouched(p)' /\ Fresh(p)'
    BY <1>1, <1>2 DEF EInv, CaseIs, Untouched, NoFacts, InCase, Working, Fresh
  <2>7. Counted(p)'
    <3>1. {j \in Rejects : j < i + 1} = {j \in Rejects : j < i}
      BY <1>3, <1>4, <1>6, RowsAre DEF EInv
    <3>2. eloc'[p].cases = {j \in E!Accepted : j < i + 1}
      BY <1>3, <2>2, <2>3, RowsAre DEF EInv
    <3>3. Passed(p)' = {}
      BY <1>3, <2>2 DEF Passed
    <3>4. {j \in Rejects : j < eloc[p].row}' = {j \in Rejects : j < i}
      BY <1>1, <2>2, <3>1
    <3>5. {j \in E!Accepted : j < eloc[p].row}' = eloc'[p].cases
      BY <1>1, <2>2, <3>2
    <3>6. eloc'[p].row \in 1 .. Len(E!Rows) + 1
      BY <1>3, <2>2, RowsAre DEF EInv
    <3>7. Len(eloc'[p].reports) = Cardinality({j \in Rejects : j < eloc[p].row}')
      BY <1>3, <2>2, <3>4
    <3>8. epc'[p] \notin {"diagnose"} \cup Working
      BY <1>2 DEF Working, InCase
    <3> QED BY <1>1, <3>3, <3>5, <3>6, <3>7, <3>8 DEF Counted
  <2> QED BY <2>4, <2>5, <2>6, <2>7 DEF EKept
<1> QED BY <1>5, <1>6

LEMMA ESelect ==
  ASSUME EInv, NEW p \in Procs, E!Select(p)
  PROVE  EKept(p) /\ eloc'[p].cases = E!Selected
<1>1. /\ E!Rows' = E!Rows /\ E!Accepted' = E!Accepted /\ E!Selected' = E!Selected
      /\ Rejects' = Rejects /\ E!Names' = E!Names /\ dataset' = dataset
  BY ESame DEF E!Select
<1>2. /\ epc[p] = "parse" /\ eloc[p].row > Len(E!Rows) /\ facts' = facts
      /\ observed' = observed /\ reported' = reported
      /\ eloc' = [eloc EXCEPT ![p] = [eloc[p] EXCEPT !.cases = eloc[p].cases \cap E!Selected]]
  BY DEF E!Select
<1>3. \/ epc' = [epc EXCEPT ![p] = "ended"] /\ used' = used
      \/ epc' = [epc EXCEPT ![p] = "cases"] /\ used' = TRUE
  BY DEF E!Select, E!Goto
<1>4. /\ epc'[p] \in {"ended", "cases"}
      /\ \A q \in Procs \ {p} : epc'[q] = epc[q] /\ eloc'[q] = eloc[q]
  BY <1>2, <1>3 DEF EInv, ETypes
<1>5. /\ eloc'[p].cases = eloc[p].cases \cap E!Selected
      /\ eloc'[p].reports = eloc[p].reports /\ eloc[p] \in ELocals
  BY <1>2 DEF EInv, ETypes, ELocals
<1>6. /\ eloc[p].row \in 1 .. Len(E!Rows) + 1
      /\ eloc[p].cases = {i \in E!Accepted : i < eloc[p].row}
      /\ Len(eloc[p].reports) = Cardinality({i \in Rejects : i < eloc[p].row})
      /\ Passed(p) = {}
  BY <1>2 DEF EInv, Counted
<1>7. /\ Len(E!Rows) \in Nat /\ DOMAIN E!Rows = 1 .. Len(E!Rows)
      /\ E!Accepted \subseteq DOMAIN E!Rows /\ E!Selected \subseteq E!Accepted
      /\ Rejects \subseteq DOMAIN E!Rows
  BY RowsAre DEF EInv
<1>8. eloc[p].row = Len(E!Rows) + 1
  BY <1>2, <1>6, <1>7
<1>9. /\ {i \in E!Accepted : i < eloc[p].row} = E!Accepted
      /\ {i \in Rejects : i < eloc[p].row} = Rejects
  BY <1>7, <1>8
<1>10. eloc'[p].cases = E!Selected
  BY <1>5, <1>6, <1>7, <1>9
<1>11. ETypes'
  <2>1. eloc' \in [Procs -> ELocals]
    <3>1. eloc[p].cases \cap E!Selected \in SUBSET Nat
      BY <1>5 DEF ELocals
    <3>2. [eloc[p] EXCEPT !.cases = eloc[p].cases \cap E!Selected] \in ELocals
      BY <1>5, <3>1, LocalsAre
    <3> QED BY <1>2, <3>2 DEF EInv, ETypes
  <2>2. epc' \in [Procs -> {"new", "parse", "diagnose", "ended"} \cup Working] /\ used' \in BOOLEAN
    BY <1>3 DEF EInv, ETypes, Working
  <2> QED BY <1>1, <1>2, <1>4, <1>7, <1>10, <2>1, <2>2 DEF EInv, ETypes
<1>12. ETurn(p)
  BY <1>1, <1>2, <1>4 DEF ETurn
<1>13. CaseIs(p)' /\ Fresh(p)'
  BY <1>4 DEF CaseIs, Fresh, InCase
<1>14. Untouched(p)'
  <2>1. \A i \in E!Accepted : NoFacts(p, i)
    BY <1>2 DEF EInv, Untouched
  <2>2. \A i \in E!Accepted : NoFacts(p, i)'
    BY <1>1, <1>2, <2>1 DEF NoFacts
  <2> QED BY <1>4, <1>7, <1>10, <2>2 DEF Untouched
<1>15. Counted(p)'
  <2> DEFINE T == {i \in E!Selected \ eloc[p].cases : E!Earned(p, i)}
             D == E!Selected \ eloc[p].cases
  <2>1. T' = {} /\ D' = {}
    BY <1>1, <1>10
  <2>2. Passed(p)' = {}
    BY <1>5, <1>6 DEF Passed
  <2>3. Cardinality({}) = 0 /\ Cardinality(Rejects) \in Nat
    BY <1>7, FS_EmptySet, RowsAreFinite DEF EInv
  <2>4. Len(eloc'[p].reports) = Cardinality(Rejects)
    BY <1>5, <1>6, <1>9
  <2>5. Cardinality(Passed(p)') = Cardinality(T')
    BY <2>1, <2>2
  <2>6. eloc'[p].cases \subseteq E!Selected'
    BY <1>1, <1>10
  <2> HIDE DEF T, D
  <2>7. Len(eloc'[p].reports) = Cardinality(Rejects') + Cardinality(D')
    BY <1>1, <2>1, <2>3, <2>4
  <2> QED BY <1>4, <2>5, <2>6, <2>7 DEF Counted, T, D
<1> QED BY <1>10, <1>11, <1>12, <1>13, <1>14, <1>15 DEF EKept

LEMMA ESummarise ==
  ASSUME EInv, NEW p \in Procs, E!Summarise(p)
  PROVE  EKept(p)
<1>1. E!Rows' = E!Rows /\ E!Accepted' = E!Accepted /\ E!Names' = E!Names /\ dataset' = dataset
  BY ESame DEF E!Summarise
<1>2. /\ epc' = [epc EXCEPT ![p] = "diagnose"] /\ epc[p] = "cases" /\ eloc[p].cases = {}
      /\ reported' = reported /\ observed' = observed /\ eloc' = eloc
      /\ used' = used /\ facts' = facts
  BY DEF E!Summarise, E!Goto
<1>3. epc'[p] = "diagnose" /\ \A q \in Procs \ {p} : epc'[q] = epc[q]
  BY <1>2 DEF EInv, ETypes
<1>4. ETypes'
  BY <1>1, <1>2, <1>3 DEF EInv, ETypes, Working, InCase
<1>5. ETurn(p)
  BY <1>1, <1>2, <1>3 DEF ETurn
<1>6. Counted(p)'
  <2>1. /\ E!Selected' = E!Selected /\ Rejects' = Rejects /\ Passed(p)' = Passed(p)
    BY <1>2, <1>5, ESame DEF ETurn, Passed
  <2>2. \A i : (E!Earned(p, i))' <=> E!Earned(p, i)
    BY <1>2, <1>5, EarnedStays DEF ETurn
  <2> DEFINE T == {i \in E!Selected \ eloc[p].cases : E!Earned(p, i)}
  <2>3. T' = T
    BY <1>2, <2>1, <2>2
  <2>4. /\ eloc[p].cases \subseteq E!Selected
        /\ Len(eloc[p].reports) = Cardinality(Rejects) + Cardinality(E!Selected \ eloc[p].cases)
        /\ Cardinality(Passed(p)) = Cardinality(T)
    BY <1>2 DEF EInv, Counted, Working
  <2> HIDE DEF T
  <2> QED BY <1>2, <1>3, <2>1, <2>3, <2>4 DEF Counted, T
<1> QED BY <1>3, <1>4, <1>5, <1>6 DEF EKept, CaseIs, Untouched, Fresh, InCase, Working

LEMMA EDiagnose ==
  ASSUME EInv, NEW p \in Procs, E!Diagnose(p)
  PROVE  EKept(p)
<1>1. E!Rows' = E!Rows /\ E!Accepted' = E!Accepted /\ E!Names' = E!Names /\ dataset' = dataset
  BY ESame DEF E!Diagnose
<1>2. /\ epc' = [epc EXCEPT ![p] = "ended"] /\ epc[p] = "diagnose"
      /\ reported' = reported /\ observed' = observed /\ eloc' = eloc
      /\ used' = used /\ facts' = facts
  BY DEF E!Diagnose, E!Goto
<1>3. epc'[p] = "ended" /\ \A q \in Procs \ {p} : epc'[q] = epc[q]
  BY <1>2 DEF EInv, ETypes
<1>4. ETypes'
  BY <1>1, <1>2, <1>3 DEF EInv, ETypes, Working, InCase
<1>5. ETurn(p)
  BY <1>1, <1>2, <1>3 DEF ETurn
<1> QED BY <1>3, <1>4, <1>5
    DEF EKept, CaseIs, Untouched, Counted, Fresh, InCase, Working

\* A report is of one more case, and counts as passed if the case earned it.
LEMMA EWriteReport ==
  ASSUME EInv, NEW p \in Procs, E!WriteReport(p)
  PROVE  EKept(p) /\ eloc'[p].cases = eloc[p].cases \ {E!Current(p)}
<1> DEFINE i == E!Current(p)
           mark == E!Stage(E!Case(p), eloc[p].seen)
<1>1. /\ E!Rows' = E!Rows /\ E!Accepted' = E!Accepted /\ E!Selected' = E!Selected
      /\ Rejects' = Rejects /\ E!Names' = E!Names /\ dataset' = dataset
  BY ESame DEF E!WriteReport
<1>2. /\ epc[p] \in {"report", "last_report"} /\ epc' = [epc EXCEPT ![p] = "cases"]
      /\ reported' = [reported EXCEPT ![E!Case(p).id] = [run |-> p, stage |-> mark]]
      /\ eloc' = [eloc EXCEPT ![p] = [eloc[p] EXCEPT
                    !.reports = Append(eloc[p].reports, mark),
                    !.cases = eloc[p].cases \ {E!Current(p)}]]
      /\ observed' = observed /\ used' = used /\ facts' = facts
  BY DEF E!WriteReport, E!Goto, E!Reports
<1>3. mark \in E!Stages /\ (mark = "none" <=> E!Earned(p, i))
  BY <1>2, StageIsEarned
<1> HIDE DEF mark
<1>4. epc'[p] = "cases" /\ \A q \in Procs \ {p} : epc'[q] = epc[q] /\ eloc'[q] = eloc[q]
  BY <1>2 DEF EInv, ETypes
<1>5. /\ eloc'[p].cases = eloc[p].cases \ {i} /\ eloc[p] \in ELocals
      /\ eloc'[p].reports = Append(eloc[p].reports, mark)
  BY <1>2 DEF EInv, ETypes, ELocals
<1>6. epc[p] \in Working /\ eloc[p].cases # {}
  BY <1>2 DEF EInv, CaseIs, Working, InCase
<1>7. i \in eloc[p].cases /\ i \in E!Accepted /\ i \in DOMAIN E!Rows /\ E!Case(p) = E!Rows[i]
  BY <1>6, OwnCase
<1> HIDE DEF i
<1>8. ETypes'
  <2>1. eloc' \in [Procs -> ELocals]
    <3>1. eloc[p].cases \ {E!Current(p)} \in SUBSET Nat
      BY <1>5 DEF ELocals
    <3>2. Append(eloc[p].reports, mark) \in Seq(E!Stages)
      BY <1>3, <1>5 DEF ELocals
    <3> DEFINE r == [eloc[p] EXCEPT !.reports = Append(eloc[p].reports, mark),
                                    !.cases = eloc[p].cases \ {E!Current(p)}]
    <3>3. r \in ELocals
      BY <1>5, <3>1, <3>2, LocalsAre
    <3>4. eloc' = [eloc EXCEPT ![p] = r]
      BY <1>2
    <3> HIDE DEF r
    <3> QED BY <3>3, <3>4 DEF EInv, ETypes
  <2>2. E!Case(p).id \in E!Names
    BY <1>7, RowsAre DEF EInv
  <2>3. reported' \in [E!Names -> [run : Procs, stage : E!Stages] \cup {Unset}]
    BY <1>2, <1>3, <2>2 DEF EInv, ETypes
  <2>4. epc' \in [Procs -> {"new", "parse", "diagnose", "ended"} \cup Working]
    BY <1>2 DEF EInv, ETypes, Working
  <2> QED BY <1>1, <1>2, <1>4, <1>5, <1>6, <2>1, <2>3, <2>4 DEF EInv, ETypes
<1>9. ETurn(p)
  BY <1>1, <1>2, <1>4, <1>5 DEF ETurn
<1>10. CaseIs(p)' /\ Fresh(p)'
  BY <1>4 DEF CaseIs, Fresh, InCase
<1>11. Untouched(p)'
  <2>1. \A j \in eloc[p].cases : j # i => NoFacts(p, j)
    BY <1>2, <1>6 DEF EInv, Untouched, i
  <2>2. \A j \in eloc[p].cases : j # i => NoFacts(p, j)'
    BY <1>1, <1>2, <2>1 DEF NoFacts
  <2> QED BY <1>4, <1>5, <2>2 DEF Untouched
<1>12. Counted(p)'
  <2> DEFINE T == {j \in E!Selected \ eloc[p].cases : E!Earned(p, j)}
             D == E!Selected \ eloc[p].cases
  <2>1. /\ eloc[p].cases \subseteq E!Selected
        /\ Len(eloc[p].reports) = Cardinality(Rejects) + Cardinality(D)
        /\ Cardinality(Passed(p)) = Cardinality(T)
    BY <1>6 DEF EInv, Counted
  <2>2. D' = D \cup {i} /\ i \notin D /\ i \notin T
    BY <1>1, <1>5, <1>7, <2>1
  <2>3. /\ IsFiniteSet(D) /\ IsFiniteSet(T) /\ Cardinality(D) \in Nat /\ Cardinality(T) \in Nat
        /\ Cardinality(Rejects) \in Nat
    BY RowsAre, RowsAreFinite DEF EInv
  <2>4. Cardinality(D') = Cardinality(D) + 1
    BY <2>2, <2>3, FS_AddElement
  <2>5. /\ Len(eloc[p].reports) \in Nat
        /\ Len(eloc'[p].reports) = Len(eloc[p].reports) + 1
        /\ DOMAIN eloc[p].reports = 1 .. Len(eloc[p].reports)
        /\ DOMAIN eloc'[p].reports = 1 .. Len(eloc[p].reports) + 1
        /\ \A k \in 1 .. Len(eloc[p].reports) : eloc'[p].reports[k] = eloc[p].reports[k]
        /\ eloc'[p].reports[Len(eloc[p].reports) + 1] = mark
    BY <1>3, <1>5 DEF ELocals
  <2>6. \A j : (E!Earned(p, j))' <=> E!Earned(p, j)
    BY <1>2, EarnedStays DEF E!WriteReport
  <2>7. Cardinality(Passed(p)') = Cardinality(T')
    <3>1. CASE E!Earned(p, i)
      <4>1. T' = T \cup {i}
        BY <1>1, <2>2, <2>6, <3>1
      <4>2. Passed(p)' = Passed(p) \cup {Len(eloc[p].reports) + 1}
        BY <1>3, <2>5, <3>1 DEF Passed
      <4>3. Len(eloc[p].reports) + 1 \notin Passed(p) /\ IsFiniteSet(Passed(p))
        <5>1. Passed(p) \subseteq 1 .. Len(eloc[p].reports)
          BY <2>5 DEF Passed
        <5>2. IsFiniteSet(1 .. Len(eloc[p].reports))
          <6>1. 1 \in Int /\ Len(eloc[p].reports) \in Int
            BY <2>5
          <6> QED BY <6>1, FS_Interval
        <5> QED BY <2>5, <5>1, <5>2, FS_Subset
      <4>4. Cardinality(T') = Cardinality(T) + 1
        BY <2>2, <2>3, <4>1, FS_AddElement
      <4>5. Cardinality(Passed(p)') = Cardinality(Passed(p)) + 1
        BY <4>2, <4>3, FS_AddElement
      <4> QED BY <2>1, <4>4, <4>5
    <3>2. CASE ~ E!Earned(p, i)
      <4>1. T' = T
        BY <1>1, <2>2, <2>6, <3>2
      <4>2. Passed(p)' = Passed(p)
        <5>1. mark # "none"
          BY <1>3, <3>2
        <5>2. PICK n \in Nat : n = Len(eloc[p].reports)
          BY <2>5
        <5>3. ASSUME NEW k \in 1 .. n PROVE k \in Passed(p)' <=> k \in Passed(p)
          <6>1. eloc'[p].reports[k] = eloc[p].reports[k]
            BY <2>5, <5>2
          <6>2. k \in DOMAIN eloc'[p].reports /\ k \in DOMAIN eloc[p].reports
            BY <2>5, <5>2
          <6> QED BY <6>1, <6>2 DEF Passed
        <5>4. n + 1 \notin Passed(p)'
          BY <2>5, <5>1, <5>2 DEF Passed
        <5>5. Passed(p)' \subseteq 1 .. n + 1 /\ Passed(p) \subseteq 1 .. n
          BY <2>5, <5>2 DEF Passed
        <5> QED BY <5>3, <5>4, <5>5
      <4> QED BY <2>1, <4>1, <4>2
    <3> QED BY <3>1, <3>2
  <2>8. eloc'[p].cases \subseteq E!Selected'
    BY <1>1, <1>5, <2>1
  <2>9. Len(eloc'[p].reports) = Cardinality(Rejects') + Cardinality(D')
    BY <1>1, <2>1, <2>3, <2>4, <2>5
  <2> HIDE DEF T, D
  <2> QED BY <1>4, <2>7, <2>8, <2>9 DEF Counted, T, D
<1> QED BY <1>5, <1>8, <1>9, <1>10, <1>11, <1>12 DEF EKept, i

\* While commands do not overlap, one that is at work is alone.
LEMMA EAlone ==
  ASSUME EInv, NEW p \in Procs, ETurn(p), ~ E!Fault("overlap"), ELive(p) \/ E!Vacant(p)
  PROVE  \A q \in Procs \ {p} : ~ ELive(q) /\ ~ ELive(q)'
<1>1. \A q \in Procs \ {p} : ~ ELive(q)
  BY DEF EInv, OneCommand, E!Vacant, E!Fault, ELive
<1> QED BY <1>1 DEF ETurn, ELive

\* What a step has to show for the directory, and with that the invariant.
ESettled(p) ==
  /\ InUse' /\ PassesStand' /\ SummaryStands'
  /\ E!DiagnosisIsComplete' /\ E!RescoreAgrees'
  /\ ~ E!Fault("overlap") =>
       /\ \A q \in Procs \ {p} : ~ ELive(q) /\ ~ ELive(q)'
       /\ ELive(p)' => Owns(p)'
       /\ diagnosis' # Unset => used' /\ ~ ELive(p)'
       /\ epc'[p] = "diagnose" => summary' # Unset /\ summary'.run = p
       /\ E!OneRunPerDirectory'
       /\ ~ E!NamesClash => (ELive(p)' => Lists(p)') /\ Observed(p)'

LEMMA EStays ==
  ASSUME EInv, NEW p \in Procs, EKept(p), ESettled(p)
  PROVE  EInv'
<1>1. (E!Fault("overlap"))' <=> E!Fault("overlap")
  BY ESame DEF EKept, ETurn
<1>2. E!NamesClash' <=> E!NamesClash
  BY ESame DEF EKept, ETurn
<1>3. \A q \in Procs : CaseIs(q)' /\ Untouched(q)' /\ Counted(q)' /\ Fresh(q)'
  <2>1. \A q \in Procs \ {p} : CaseIs(q)' /\ Untouched(q)' /\ Counted(q)' /\ Fresh(q)'
    BY OthersStay DEF EInv, EKept, ETurn
  <2> QED BY <2>1 DEF EKept
<1>4. OneCommand'
  <2> SUFFICES ASSUME ~ E!Fault("overlap") PROVE OneCommand'
    BY <1>1 DEF OneCommand
  <2>1. \A q \in Procs \ {p} : ~ ELive(q)' /\ epc'[q] # "diagnose"
    BY DEF ESettled, ELive
  <2> QED BY <2>1 DEF ESettled, OneCommand
<1>5. Directory'
  <2> SUFFICES ASSUME ~ E!Fault("overlap"), ~ E!NamesClash PROVE Directory'
    BY <1>1, <1>2 DEF Directory
  <2>1. \A q \in Procs \ {p} : ~ ELive(q)' /\ Observed(q)'
    BY DEF ESettled, ELive, Observed
  <2> QED BY <2>1 DEF ESettled, Directory
<1> QED BY <1>3, <1>4, <1>5 DEF EInv, EKept, ESettled

\* What a step owes to the agreement of the rescored cases, case by case.
LEMMA RescoreTurns ==
  ASSUME dataset' = dataset,
         ASSUME ~ E!Fault("overlap"), ~ E!NamesClash, NEW j \in E!Accepted,
                observed'[E!Rows[j].id] # Unset, reported'[E!Rows[j].id] # Unset
         PROVE  reported'[E!Rows[j].id].stage =
                  E!Stage(E!Rows[j], observed'[E!Rows[j].id].seen)
  PROVE  E!RescoreAgrees'
<1>1. /\ E!Rows' = E!Rows /\ E!Accepted' = E!Accepted
      /\ (E!Fault("overlap"))' <=> E!Fault("overlap")
      /\ E!NamesClash' <=> E!NamesClash
  BY ESame
<1> QED BY <1>1 DEF E!RescoreAgrees, E!Stage

\* The agreement as it was, of a case the step leaves alone.
LEMMA RescoreStays ==
  ASSUME EInv, ~ E!Fault("overlap"), ~ E!NamesClash, NEW j \in E!Accepted,
         observed'[E!Rows[j].id] = observed[E!Rows[j].id],
         reported'[E!Rows[j].id] = reported[E!Rows[j].id],
         observed'[E!Rows[j].id] # Unset, reported'[E!Rows[j].id] # Unset
  PROVE  reported'[E!Rows[j].id].stage =
           E!Stage(E!Rows[j], observed'[E!Rows[j].id].seen)
<1>1. reported[E!Rows[j].id].stage = E!Stage(E!Rows[j], observed[E!Rows[j].id].seen)
  BY DEF EInv, E!RescoreAgrees
<1> QED BY <1>1

\* What holds of the files stays, where they stay.
LEMMA FilesStay ==
  ASSUME EInv, NEW p \in Procs, ETurn(p), reported' = reported
  PROVE  /\ PassesStand' /\ (Owns(p) => Owns(p)')
         /\ summary' = summary => SummaryStands'
         /\ summary' = summary /\ diagnosis' = diagnosis => E!DiagnosisIsComplete'
         /\ observed' = observed => E!RescoreAgrees'
         /\ E!OneRunPerDirectory <=> E!OneRunPerDirectory'
<1>1. /\ E!Rows' = E!Rows /\ E!Accepted' = E!Accepted /\ E!Names' = E!Names
      /\ (E!Fault("overlap"))' <=> E!Fault("overlap")
      /\ E!NamesClash' <=> E!NamesClash
  BY ESame DEF ETurn
<1>2. PassesStand' /\ (summary' = summary => SummaryStands')
  BY <1>1, DoneStays DEF EInv, PassesStand
<1>3. Owns(p) => Owns(p)'
  BY <1>1 DEF Owns
<1>4. E!OneRunPerDirectory <=> E!OneRunPerDirectory'
  BY <1>1 DEF E!OneRunPerDirectory
<1>5. summary' = summary /\ diagnosis' = diagnosis => E!DiagnosisIsComplete'
  BY <1>1 DEF EInv, E!DiagnosisIsComplete
<1>6. observed' = observed => E!RescoreAgrees'
  BY RescoreTurns, RescoreStays DEF ETurn
<1> QED BY <1>2, <1>3, <1>4, <1>5, <1>6

\* A step inside the cases that leaves the reports as they are.
LEMMA ListsStay ==
  ASSUME EInv, NEW p \in Procs, ETurn(p), reported' = reported, Lists(p),
         epc[p] \in Working, epc'[p] \in Working \cup {"diagnose"},
         eloc'[p].cases = eloc[p].cases
  PROVE  Lists(p)'
<1>1. /\ E!Rows' = E!Rows /\ E!Selected' = E!Selected /\ E!Names' = E!Names
      /\ Rejects' = Rejects
  BY ESame DEF ETurn
<1>2. epc[p] \notin {"new", "parse"} /\ epc'[p] # "parse"
  BY DEF Working, InCase
<1>3. Done(p)' = Done(p) /\ Done(p) = E!Selected \ eloc[p].cases
  BY <1>1, <1>2 DEF Done
<1>4. \A n : Listed(p, n)' <=> Listed(p, n)
  BY <1>1, <1>2, <1>3 DEF Listed
<1>5. \A i \in Done(p) : (E!Earned(p, i))' <=> E!Earned(p, i)
  BY <1>2, <1>3, EarnedStays, RowsAre DEF ETurn, EInv
<1> QED BY <1>1, <1>3, <1>4, <1>5 DEF Lists

\* Steps that touch no file.
LEMMA EQuiet ==
  ASSUME EInv, NEW p \in Procs, EKept(p), reported' = reported, observed' = observed,
         used' = used, summary' = summary, diagnosis' = diagnosis,
         epc[p] \in Working, epc'[p] \in Working \ {"report", "last_report"},
         eloc'[p].cases = eloc[p].cases
  PROVE  EInv'
<1>1. E!Names' = E!Names /\ ETurn(p)
  BY ESame DEF EKept, ETurn
<1>2. /\ PassesStand' /\ SummaryStands' /\ E!DiagnosisIsComplete' /\ E!RescoreAgrees'
      /\ (Owns(p) => Owns(p)') /\ (E!OneRunPerDirectory <=> E!OneRunPerDirectory')
  BY <1>1, FilesStay
<1>3. InUse'
  <2>1. \A q \in Procs \ {p} : epc'[q] = epc[q]
    BY <1>1 DEF ETurn
  <2>2. epc'[p] \in Working => epc[p] \in Working
    OBVIOUS
  <2> QED BY <1>1, <2>1, <2>2 DEF EInv, InUse
<1>4. ELive(p) /\ ELive(p)' /\ epc'[p] # "diagnose" /\ Observed(p)'
  BY DEF ELive, Working, InCase, Observed
<1>5. ASSUME ~ E!Fault("overlap")
      PROVE  /\ \A q \in Procs \ {p} : ~ ELive(q) /\ ~ ELive(q)'
             /\ Owns(p)' /\ diagnosis' = Unset /\ E!OneRunPerDirectory'
             /\ ~ E!NamesClash => Lists(p)'
  <2>1. \A q \in Procs \ {p} : ~ ELive(q) /\ ~ ELive(q)'
    BY <1>1, <1>4, <1>5, EAlone
  <2>2. Owns(p) /\ diagnosis = Unset /\ E!OneRunPerDirectory
    BY <1>4, <1>5 DEF EInv, OneCommand
  <2>3. ~ E!NamesClash => Lists(p)
    BY <1>4, <1>5 DEF EInv, Directory
  <2>4. ~ E!NamesClash => Lists(p)'
    BY <1>1, <2>3, ListsStay
  <2> QED BY <1>2, <2>1, <2>2, <2>4
<1>6. ESettled(p)
  BY <1>2, <1>3, <1>4, <1>5 DEF ESettled
<1> QED BY <1>6, EStays

LEMMA EInsideKeeps ==
  ASSUME EInv, NEW p \in Procs,
         \/ E!OpenCase(p) \/ E!CaseRaises(p)
         \/ \E shows \in SUBSET E!Shown : E!Execute(p, shows)
         \/ \E status \in {"passed", "failed", "error"} : E!Judge(p, status)
  PROVE  EInv'
<1>1. EKept(p)
  BY EOpenCase, ECaseRaises, EExecute, EJudge
<1>2. /\ reported' = reported /\ observed' = observed
      /\ used' = used /\ summary' = summary /\ diagnosis' = diagnosis
  BY DEF E!OpenCase, E!CaseRaises, E!Execute, E!Judge, E!files
<1>3. epc[p] \in Working
  BY DEF E!OpenCase, E!CaseRaises, E!Execute, E!Judge, Working, InCase
<1>4. epc'[p] \in Working \ {"report", "last_report"}
  <2>1. epc'[p] \in {"execute", "handled", "oracle", "observe"}
    BY DEF EInv, ETypes, E!OpenCase, E!CaseRaises, E!Execute, E!Judge, E!Goto
  <2> QED BY <2>1 DEF Working, InCase
<1>5. eloc'[p].cases = eloc[p].cases
  <2>1. eloc[p] \in ELocals
    BY DEF EInv, ETypes
  <2>2. CASE E!OpenCase(p)
    BY <2>1, <2>2 DEF EInv, ETypes, ELocals, E!OpenCase
  <2>3. CASE E!CaseRaises(p)
    BY <2>1, <2>3 DEF EInv, ETypes, ELocals, E!CaseRaises
  <2>4. CASE \E shows \in SUBSET E!Shown : E!Execute(p, shows)
    BY <2>1, <2>4 DEF EInv, ETypes, ELocals, E!Execute
  <2>5. CASE \E status \in {"passed", "failed", "error"} : E!Judge(p, status)
    BY <2>1, <2>5 DEF EInv, ETypes, ELocals, E!Judge
  <2> QED BY <2>2, <2>3, <2>4, <2>5
<1> QED BY <1>1, <1>2, <1>3, <1>4, <1>5, EQuiet

LEMMA EBeginsKeeps ==
  ASSUME EInv, NEW p \in Procs, E!Begins(p)
  PROVE  EInv'
<1>1. EKept(p) /\ ETurn(p)
  BY EBegins DEF EKept
<1>2. /\ reported' = reported /\ observed' = observed /\ eloc' = eloc
      /\ used' = used /\ summary' = summary /\ diagnosis' = diagnosis
      /\ E!Vacant(p)
  BY DEF E!Begins, E!files
<1>3. /\ epc'[p] \in {"ended", "parse"} /\ (epc'[p] = "parse" => ~ used)
      /\ \A q \in Procs \ {p} : epc'[q] = epc[q]
  BY DEF EInv, ETypes, E!Begins, E!Goto
<1>4. E!Names' = E!Names /\ Rejects' = Rejects /\ E!Rows' = E!Rows
  BY <1>1, ESame DEF ETurn
<1>5. /\ PassesStand' /\ SummaryStands' /\ E!DiagnosisIsComplete' /\ E!RescoreAgrees'
      /\ (E!OneRunPerDirectory <=> E!OneRunPerDirectory')
  BY <1>1, <1>2, FilesStay
<1>6. InUse'
  BY <1>2, <1>3, <1>4 DEF EInv, InUse, Working, InCase
<1>7. ASSUME ~ E!Fault("overlap")
      PROVE  /\ \A q \in Procs \ {p} : ~ ELive(q) /\ ~ ELive(q)'
             /\ ELive(p)' => Owns(p)' /\ diagnosis' = Unset /\ Lists(p)'
             /\ E!OneRunPerDirectory'
  <2>1. \A q \in Procs \ {p} : ~ ELive(q) /\ ~ ELive(q)'
    BY <1>1, <1>2, <1>7, EAlone
  <2>2. E!OneRunPerDirectory' /\ (diagnosis # Unset => used)
    BY <1>5, <1>7 DEF EInv, OneCommand
  <2>3. ASSUME ELive(p)' PROVE Owns(p)' /\ diagnosis' = Unset /\ Lists(p)'
    <3>1. epc'[p] = "parse" /\ ~ used
      BY <1>3, <2>3 DEF ELive
    <3>2. \A n \in E!Names : reported'[n] = Unset
      BY <1>2, <3>1 DEF EInv, InUse
    <3>3. eloc'[p].row \in 1 .. Len(E!Rows) + 1 /\ eloc'[p].row = 1
      <4>1. epc[p] = "new"
        BY DEF E!Begins
      <4> QED BY <1>2, <4>1, RowsAre DEF EInv, Fresh
    <3>4. \A n : ~ Listed(p, n)'
      BY <1>4, <3>1, <3>3, RowsAre DEF Listed, Done, EInv
    <3>5. Done(p)' = {}
      BY <3>1 DEF Done
    <3>6. Lists(p)'
      BY <1>4, <3>2, <3>4, <3>5, RowsAre DEF Lists, EInv
    <3> QED BY <1>2, <1>4, <2>2, <3>1, <3>2, <3>6 DEF Owns
  <2> QED BY <2>1, <2>2, <2>3
<1>8. ASSUME ~ E!Fault("overlap")
      PROVE  diagnosis' # Unset => used' /\ ~ ELive(p)'
  <2>1. diagnosis # Unset => used
    BY <1>8 DEF EInv, OneCommand
  <2> QED BY <1>2, <2>1, <1>7, <1>8
<1>9. Observed(p)' /\ epc'[p] # "diagnose"
  BY <1>3 DEF Observed
<1>10. ESettled(p)
  BY <1>5, <1>6, <1>7, <1>8, <1>9 DEF ESettled
<1> QED BY <1>1, <1>10, EStays

LEMMA EDiesKeeps ==
  ASSUME EInv, NEW p \in Procs, E!Dies(p)
  PROVE  EInv'
<1>1. EKept(p) /\ ETurn(p)
  BY EDies DEF EKept
<1>2. /\ reported' = reported /\ observed' = observed
      /\ used' = used /\ summary' = summary /\ diagnosis' = diagnosis
      /\ ELive(p)
  BY DEF E!Dies, E!files, ELive
<1>3. epc'[p] = "ended" /\ \A q \in Procs \ {p} : epc'[q] = epc[q]
  BY DEF EInv, ETypes, E!Dies, E!Goto
<1>4. /\ PassesStand' /\ SummaryStands' /\ E!DiagnosisIsComplete' /\ E!RescoreAgrees'
      /\ (E!OneRunPerDirectory <=> E!OneRunPerDirectory')
  BY <1>1, <1>2, FilesStay
<1>5. InUse'
  <2>1. E!Names' = E!Names
    BY <1>1, ESame DEF ETurn
  <2> QED BY <1>2, <1>3, <2>1 DEF EInv, InUse, Working, InCase
<1>6. ASSUME ~ E!Fault("overlap")
      PROVE  /\ \A q \in Procs \ {p} : ~ ELive(q) /\ ~ ELive(q)'
             /\ diagnosis' = Unset /\ E!OneRunPerDirectory'
  <2>1. \A q \in Procs \ {p} : ~ ELive(q) /\ ~ ELive(q)'
    BY <1>1, <1>2, <1>6, EAlone
  <2> QED BY <1>2, <1>4, <1>6, <2>1 DEF EInv, OneCommand
<1>7. ~ ELive(p)' /\ Observed(p)' /\ epc'[p] # "diagnose"
  BY <1>3 DEF ELive, Observed
<1>8. ESettled(p)
  BY <1>4, <1>5, <1>6, <1>7 DEF ESettled
<1> QED BY <1>1, <1>8, EStays

LEMMA ESelectKeeps ==
  ASSUME EInv, NEW p \in Procs, E!Select(p)
  PROVE  EInv'
<1>1. EKept(p) /\ ETurn(p) /\ eloc'[p].cases = E!Selected
  BY ESelect DEF EKept
<1>2. /\ reported' = reported /\ observed' = observed /\ epc[p] = "parse"
      /\ summary' = summary /\ diagnosis' = diagnosis /\ ELive(p)
  BY DEF E!Select, ELive
<1>3. /\ epc'[p] \in {"ended", "cases"} /\ \A q \in Procs \ {p} : epc'[q] = epc[q]
      /\ (epc'[p] = "cases" => used') /\ (used => used')
  BY DEF EInv, ETypes, E!Select, E!Goto
<1>4. /\ E!Names' = E!Names /\ Rejects' = Rejects /\ E!Rows' = E!Rows
      /\ E!Selected' = E!Selected
  BY <1>1, ESame DEF ETurn
<1>5. /\ PassesStand' /\ SummaryStands' /\ E!DiagnosisIsComplete' /\ E!RescoreAgrees'
      /\ (Owns(p) => Owns(p)') /\ (E!OneRunPerDirectory <=> E!OneRunPerDirectory')
  BY <1>1, <1>2, FilesStay
<1>6. InUse'
  BY <1>2, <1>3, <1>4 DEF EInv, InUse, ETypes, Working, InCase
<1>7. Lists(p) /\ epc'[p] = "cases" => Lists(p)'
  <2> SUFFICES ASSUME Lists(p), epc'[p] = "cases" PROVE Lists(p)'
    OBVIOUS
  <2>1. Done(p)' = {} /\ Done(p) = {}
    BY <1>1, <1>2, <1>4 DEF Done
  <2>2. \A i \in Rejects : i < eloc[p].row
    <3>1. eloc[p].row \in Nat /\ eloc[p].row > Len(E!Rows)
      BY DEF EInv, ETypes, ELocals, E!Select
    <3> QED BY <3>1, RowsAre DEF EInv
  <2>3. \A n : Listed(p, n)' <=> Listed(p, n)
    BY <1>2, <1>4, <2>1, <2>2 DEF Listed
  <2> QED BY <1>2, <1>4, <2>1, <2>3 DEF Lists
<1>8. ASSUME ~ E!Fault("overlap")
      PROVE  /\ \A q \in Procs \ {p} : ~ ELive(q) /\ ~ ELive(q)'
             /\ diagnosis' = Unset /\ E!OneRunPerDirectory' /\ Owns(p)'
             /\ ~ E!NamesClash => Lists(p)
  <2>1. \A q \in Procs \ {p} : ~ ELive(q) /\ ~ ELive(q)'
    BY <1>1, <1>2, <1>8, EAlone
  <2> QED BY <1>2, <1>5, <1>8, <2>1 DEF EInv, OneCommand, Directory
<1>9. Observed(p)' /\ epc'[p] # "diagnose" /\ (ELive(p)' => epc'[p] = "cases")
  BY <1>3 DEF ELive, Observed
<1>10. ESettled(p)
  BY <1>5, <1>6, <1>7, <1>8, <1>9 DEF ESettled
<1> QED BY <1>1, <1>10, EStays

\* One new report: the other ones stay, and so does what they stand for.
LEMMA OneReport ==
  ASSUME EInv, NEW p \in Procs, ETurn(p), ELive(p), NEW m \in E!Names,
         NEW mark \in E!Stages,
         reported' = [reported EXCEPT ![m] = [run |-> p, stage |-> mark]],
         summary' = summary, diagnosis' = diagnosis
  PROVE  /\ reported'[m] = [run |-> p, stage |-> mark] /\ reported'[m] # Unset
         /\ \A n \in E!Names \ {m} : reported'[n] = reported[n]
         /\ PassStands(m)' => PassesStand'
         /\ SummaryStands' /\ E!DiagnosisIsComplete'
         /\ ~ E!Fault("overlap") =>
              /\ \A q \in Procs \ {p} : ~ ELive(q) /\ ~ ELive(q)'
              /\ Owns(p)' /\ E!OneRunPerDirectory' /\ diagnosis' = Unset
<1>1. E!Names' = E!Names /\ ((E!Fault("overlap"))' <=> E!Fault("overlap"))
      /\ (E!NamesClash' <=> E!NamesClash)
  BY ESame DEF ETurn
<1>2. [run |-> p, stage |-> mark] # Unset
  BY EvaluationAssumption
<1>3. /\ reported'[m] = [run |-> p, stage |-> mark]
      /\ \A n \in E!Names \ {m} : reported'[n] = reported[n]
  BY DEF EInv, ETypes
<1>4. PassStands(m)' => PassesStand'
  <2>1. \A n \in E!Names \ {m} : PassStands(n)'
    BY <1>3, DoneStays DEF EInv
  <2> QED BY <1>1, <2>1 DEF PassesStand
<1>5. SummaryStands' /\ E!DiagnosisIsComplete'
  <2>1. SummaryStands'
    BY DoneStays DEF EInv
  <2> QED BY <1>1, <2>1 DEF EInv, E!DiagnosisIsComplete
<1>6. ASSUME ~ E!Fault("overlap")
      PROVE  /\ \A q \in Procs \ {p} : ~ ELive(q) /\ ~ ELive(q)'
             /\ Owns(p)' /\ E!OneRunPerDirectory' /\ diagnosis' = Unset
  <2>1. \A q \in Procs \ {p} : ~ ELive(q) /\ ~ ELive(q)'
    BY <1>6, EAlone
  <2>2. Owns(p) /\ diagnosis = Unset
    BY <1>6 DEF EInv, OneCommand
  <2>3. Owns(p)'
    BY <1>1, <1>3, <2>2 DEF Owns
  <2>4. E!OneRunPerDirectory'
    BY <2>3 DEF Owns, E!OneRunPerDirectory
  <2> QED BY <2>1, <2>2, <2>3, <2>4
<1> QED BY <1>2, <1>3, <1>4, <1>5, <1>6

\* Without a clash no schema error is written where a case is.
LEMMA NoClash ==
  ASSUME ETypes, ~ E!NamesClash, NEW i \in E!Accepted, NEW j \in Rejects
  PROVE  E!Rows[i].id # SchemaErrors[j]
BY RowsAre DEF E!NamesClash, Rejects

LEMMA EParseRowKeeps ==
  ASSUME EInv, NEW p \in Procs, E!ParseRow(p)
  PROVE  EInv'
<1>0. PICK i \in Nat : i = eloc[p].row
  BY DEF EInv, ETypes, ELocals
<1>1. EKept(p) /\ ETurn(p)
  BY EParseRow DEF EKept
<1>2. /\ epc[p] = "parse" /\ epc'[p] = "parse" /\ i <= Len(E!Rows) /\ epc' = epc
      /\ observed' = observed /\ summary' = summary /\ diagnosis' = diagnosis
      /\ ELive(p) /\ Observed(p)'
  BY <1>0 DEF E!ParseRow, ELive, Observed
<1>3. i \in DOMAIN E!Rows
  <2>1. eloc[p].row \in 1 .. Len(E!Rows) + 1
    BY <1>2 DEF EInv, Counted
  <2>2. Len(E!Rows) \in Nat /\ DOMAIN E!Rows = 1 .. Len(E!Rows)
    BY RowsAre DEF EInv
  <2> QED BY <1>0, <1>2, <2>1, <2>2
<1>4. /\ E!Names' = E!Names /\ Rejects' = Rejects /\ E!Rows' = E!Rows
      /\ E!Accepted' = E!Accepted
      /\ (E!Fault("overlap"))' <=> E!Fault("overlap")
      /\ E!NamesClash' <=> E!NamesClash
  BY <1>1, ESame DEF ETurn
<1>5. i \in Rejects <=> E!Rejected(i)
  BY <1>3 DEF Rejects, E!Accepted
<1>6. Done(p) = {} /\ Done(p)' = {}
  BY <1>2 DEF Done
<1>7. eloc'[p].row = i + 1
  BY <1>0 DEF EInv, ETypes, ELocals, E!ParseRow
<1>8. \A n : Listed(p, n)' <=> Listed(p, n) \/ (i \in Rejects /\ n = SchemaErrors[i])
  BY <1>0, <1>2, <1>3, <1>4, <1>6, <1>7, RowsAre DEF Listed, EInv
<1>9. \A n \in E!Names : Listed(p, n) => \E j \in Rejects : n = SchemaErrors[j] /\ j < i
  BY <1>0, <1>2, <1>6 DEF Listed
<1>10. CASE E!Rejected(i)
  <2> DEFINE m == SchemaErrors[i]
  <2>1. used' /\ reported' = [reported EXCEPT ![m] = [run |-> p, stage |-> "case_schema"]]
    BY <1>0, <1>10 DEF E!ParseRow, E!Reports
  <2>2. m \in E!Names /\ "case_schema" \in E!Stages
    BY <1>3, RowsAre DEF EInv, E!Stages
  <2>3. /\ reported'[m] = [run |-> p, stage |-> "case_schema"] /\ reported'[m] # Unset
        /\ \A n \in E!Names \ {m} : reported'[n] = reported[n]
        /\ PassStands(m)' => PassesStand'
        /\ SummaryStands' /\ E!DiagnosisIsComplete'
        /\ ~ E!Fault("overlap") =>
             /\ \A q \in Procs \ {p} : ~ ELive(q) /\ ~ ELive(q)'
             /\ Owns(p)' /\ E!OneRunPerDirectory' /\ diagnosis' = Unset
    BY <1>1, <1>2, <2>1, <2>2, OneReport
  <2>4. PassStands(m)'
    BY <2>3 DEF PassStands
  <2>5. ASSUME ~ E!Fault("overlap"), ~ E!NamesClash PROVE Lists(p)'
    <3>1. Lists(p)
      BY <1>2, <2>5 DEF EInv, Directory
    <3>2. \A n \in E!Names : reported'[n] # Unset <=> Listed(p, n)'
      BY <1>5, <1>8, <1>10, <2>3, <3>1 DEF Lists
    <3>3. \A j \in Rejects : SchemaErrors[j] \in E!Names
      BY RowsAre DEF EInv
    <3>4. \A j \in Rejects : reported'[SchemaErrors[j]] # Unset =>
            reported'[SchemaErrors[j]].stage # "none"
      BY <2>3, <3>1, <3>3 DEF Lists
    <3> QED BY <1>4, <1>6, <3>2, <3>4 DEF Lists
  <2>6. E!RescoreAgrees'
    <3>1. \A j \in E!Accepted : ~ E!NamesClash => E!Rows[j].id \in E!Names \ {m}
      BY <1>5, <1>10, NoClash, RowsAre DEF EInv
    <3>2. ASSUME ~ E!Fault("overlap"), ~ E!NamesClash, NEW j \in E!Accepted,
                 observed'[E!Rows[j].id] # Unset, reported'[E!Rows[j].id] # Unset
          PROVE  reported'[E!Rows[j].id].stage =
                   E!Stage(E!Rows[j], observed'[E!Rows[j].id].seen)
      <4>1. E!Rows[j].id \in E!Names \ {m}
        BY <3>1, <3>2
      <4>2. /\ observed'[E!Rows[j].id] = observed[E!Rows[j].id]
            /\ reported'[E!Rows[j].id] = reported[E!Rows[j].id]
        BY <1>2, <2>3, <4>1
      <4> QED BY <3>2, <4>2, RescoreStays
    <3> QED BY <1>1, <3>2, RescoreTurns DEF ETurn
  <2>7. InUse'
    BY <2>1 DEF InUse
  <2>8. epc'[p] # "diagnose"
    BY <1>2
  <2>9. ESettled(p)
    BY <1>2, <2>3, <2>4, <2>5, <2>6, <2>7, <2>8 DEF ESettled
  <2> QED BY <1>1, <2>9, EStays
<1>11. CASE ~ E!Rejected(i)
  <2>1. used' = used /\ reported' = reported
    BY <1>0, <1>11 DEF E!ParseRow
  <2>2. /\ PassesStand' /\ SummaryStands' /\ E!DiagnosisIsComplete' /\ E!RescoreAgrees'
        /\ (Owns(p) => Owns(p)') /\ (E!OneRunPerDirectory <=> E!OneRunPerDirectory')
    BY <1>1, <1>2, <2>1, FilesStay
  <2>3. InUse'
    BY <1>2, <1>4, <2>1 DEF EInv, InUse
  <2>4. Lists(p) => Lists(p)'
    BY <1>4, <1>5, <1>6, <1>8, <1>11, <2>1 DEF Lists
  <2>5. ASSUME ~ E!Fault("overlap")
        PROVE  /\ \A q \in Procs \ {p} : ~ ELive(q) /\ ~ ELive(q)'
               /\ diagnosis' = Unset /\ E!OneRunPerDirectory' /\ Owns(p)'
               /\ ~ E!NamesClash => Lists(p)'
    <3>1. \A q \in Procs \ {p} : ~ ELive(q) /\ ~ ELive(q)'
      BY <1>1, <1>2, <2>5, EAlone
    <3> QED BY <1>2, <2>2, <2>4, <2>5, <3>1 DEF EInv, OneCommand, Directory
  <2>6. epc'[p] # "diagnose"
    BY <1>2
  <2>7. ESettled(p)
    BY <1>2, <2>2, <2>3, <2>5, <2>6 DEF ESettled
  <2> QED BY <1>1, <2>7, EStays
<1> QED BY <1>10, <1>11

LEMMA EObserveKeeps ==
  ASSUME EInv, NEW p \in Procs, E!Observe(p)
  PROVE  EInv'
<1>1. EKept(p) /\ ETurn(p) /\ E!Current(p)' = E!Current(p)
  BY EObserve DEF EKept
<1>2. /\ epc[p] \in {"observe", "handled"} /\ reported' = reported /\ used' = used
      /\ observed' = [observed EXCEPT ![E!Case(p).id] = [run |-> p, seen |-> eloc[p].seen]]
      /\ summary' = summary /\ diagnosis' = diagnosis /\ eloc' = eloc /\ ELive(p)
  BY DEF E!Observe, ELive
<1>3. epc'[p] \in {"report", "last_report"} /\ \A q \in Procs \ {p} : epc'[q] = epc[q]
  BY DEF EInv, ETypes, E!Observe, E!Goto
<1>4. /\ E!Names' = E!Names /\ E!Rows' = E!Rows /\ E!Accepted' = E!Accepted
      /\ (E!Fault("overlap"))' <=> E!Fault("overlap")
      /\ E!NamesClash' <=> E!NamesClash
      /\ E!Case(p)' = E!Case(p)
  BY <1>1, ESame DEF ETurn, E!Case
<1>5. epc[p] \in Working /\ eloc[p].cases # {} /\ epc'[p] \in Working
  BY <1>2, <1>3 DEF EInv, CaseIs, Working, InCase
<1>6. /\ E!Current(p) \in eloc[p].cases /\ E!Current(p) \in E!Accepted
      /\ E!Case(p) = E!Rows[E!Current(p)] /\ E!Case(p).id \in E!Names
      /\ \A i \in E!Accepted \ {E!Current(p)} : E!Rows[i].id # E!Case(p).id
  BY <1>5, OwnCase, RowsAre DEF EInv
<1>7. /\ PassesStand' /\ SummaryStands' /\ E!DiagnosisIsComplete'
      /\ (Owns(p) => Owns(p)') /\ (E!OneRunPerDirectory <=> E!OneRunPerDirectory')
  BY <1>1, <1>2, FilesStay
<1>8. InUse'
  BY <1>2, <1>3, <1>4, <1>5 DEF EInv, InUse
<1>9. Observed(p)'
  <2>1. observed'[E!Case(p).id] = [run |-> p, seen |-> eloc[p].seen]
    BY <1>2, <1>6 DEF EInv, ETypes
  <2>2. (E!Case(p).id)' = E!Case(p).id
    BY <1>4
  <2> QED BY <1>2, <2>1, <2>2 DEF Observed
<1>10. ASSUME ~ E!Fault("overlap"), ~ E!NamesClash
       PROVE  Lists(p) /\ reported[E!Case(p).id] = Unset
  <2>1. Lists(p)
    BY <1>2, <1>10 DEF EInv, Directory
  <2>2. epc[p] # "parse" /\ Done(p) = E!Selected \ eloc[p].cases
    BY <1>2 DEF Done
  <2>3. \A i \in Done(p) : E!Rows[i].id # E!Case(p).id
    BY <1>6, <2>2, RowsAre DEF EInv
  <2>4. \A j \in Rejects : SchemaErrors[j] # E!Case(p).id
    BY <1>6, <1>10, NoClash DEF EInv
  <2>5. ~ Listed(p, E!Case(p).id)
    BY <2>3, <2>4 DEF Listed
  <2> QED BY <1>6, <2>1, <2>5 DEF Lists
<1>11. E!RescoreAgrees'
  <2>1. \A n \in E!Names \ {E!Case(p).id} : observed'[n] = observed[n]
    BY <1>2 DEF EInv, ETypes
  <2>2. \A i \in E!Accepted : E!Rows[i].id \in E!Names
    BY RowsAre DEF EInv
  <2> SUFFICES ASSUME ~ E!Fault("overlap"), ~ E!NamesClash, NEW j \in E!Accepted,
                      observed'[E!Rows[j].id] # Unset, reported'[E!Rows[j].id] # Unset
      PROVE reported'[E!Rows[j].id].stage = E!Stage(E!Rows[j], observed'[E!Rows[j].id].seen)
    BY <1>1, RescoreTurns DEF ETurn
  <2>3. E!Rows[j].id # E!Case(p).id
    BY <1>2, <1>10
  <2>4. /\ observed'[E!Rows[j].id] = observed[E!Rows[j].id]
        /\ reported'[E!Rows[j].id] = reported[E!Rows[j].id]
    BY <1>2, <2>1, <2>2, <2>3
  <2> QED BY <2>4, RescoreStays
<1>12. ASSUME ~ E!Fault("overlap")
       PROVE  /\ \A q \in Procs \ {p} : ~ ELive(q) /\ ~ ELive(q)'
              /\ diagnosis' = Unset /\ E!OneRunPerDirectory' /\ Owns(p)'
              /\ ~ E!NamesClash => Lists(p)'
  <2>1. \A q \in Procs \ {p} : ~ ELive(q) /\ ~ ELive(q)'
    BY <1>1, <1>2, <1>12, EAlone
  <2>2. ~ E!NamesClash => Lists(p)'
    BY <1>1, <1>2, <1>5, <1>10, <1>12, ListsStay
  <2> QED BY <1>2, <1>7, <1>12, <2>1, <2>2 DEF EInv, OneCommand
<1>13. epc'[p] # "diagnose"
  BY <1>3
<1>14. ESettled(p)
  BY <1>7, <1>8, <1>9, <1>11, <1>12, <1>13 DEF ESettled
<1> QED BY <1>1, <1>14, EStays

LEMMA EWriteReportKeeps ==
  ASSUME EInv, NEW p \in Procs, E!WriteReport(p)
  PROVE  EInv'
<1>0. /\ epc[p] \in {"report", "last_report"} /\ epc[p] \in Working /\ eloc[p].cases # {}
  BY DEF EInv, CaseIs, Working, InCase, E!WriteReport
<1>a. PICK i \in E!Accepted : i = E!Current(p)
  BY <1>0, OwnCase
<1>b. PICK m \in E!Names : m = E!Case(p).id
  BY <1>0, OwnCase, RowsAre DEF EInv
<1>c. PICK mark \in E!Stages : mark = E!Stage(E!Case(p), eloc[p].seen)
  BY <1>0, StageIsEarned
<1>1. EKept(p) /\ ETurn(p) /\ eloc'[p].cases = eloc[p].cases \ {i}
  BY <1>a, EWriteReport DEF EKept
<1>2. /\ epc[p] \in {"report", "last_report"} /\ used' = used /\ observed' = observed
      /\ reported' = [reported EXCEPT ![m] = [run |-> p, stage |-> mark]]
      /\ summary' = summary /\ diagnosis' = diagnosis /\ facts' = facts /\ ELive(p)
  BY <1>b, <1>c DEF E!WriteReport, E!Reports, ELive
<1>3. mark \in E!Stages /\ (mark = "none" <=> E!Earned(p, i))
  BY <1>a, <1>c, <1>2, StageIsEarned
<1>4. epc'[p] = "cases" /\ \A q \in Procs \ {p} : epc'[q] = epc[q]
  BY DEF EInv, ETypes, E!WriteReport, E!Goto
<1>5. /\ E!Names' = E!Names /\ E!Rows' = E!Rows /\ E!Accepted' = E!Accepted
      /\ E!Selected' = E!Selected /\ Rejects' = Rejects
      /\ (E!Fault("overlap"))' <=> E!Fault("overlap")
      /\ E!NamesClash' <=> E!NamesClash
  BY <1>1, ESame DEF ETurn
<1>6. epc[p] \in Working /\ eloc[p].cases # {} /\ epc'[p] \in Working
  BY <1>2, <1>4 DEF EInv, CaseIs, Working, InCase
<1>7. /\ i \in eloc[p].cases /\ i \in E!Accepted /\ eloc[p].cases \subseteq E!Selected
      /\ E!Case(p) = E!Rows[i] /\ m \in E!Names /\ m = E!Rows[i].id
      /\ \A j \in E!Accepted \ {i} : E!Rows[j].id # m
  BY <1>a, <1>b, <1>6, OwnCase, RowsAre DEF EInv, Counted
<1>8. \A j : (E!Earned(p, j))' <=> E!Earned(p, j)
  BY <1>2, EarnedStays DEF E!WriteReport
<1>9. ~ E!Fault("overlap") /\ ~ E!NamesClash =>
        observed[m] = [run |-> p, seen |-> eloc[p].seen]
  BY <1>b, <1>2 DEF EInv, Directory, Observed
<1>10. mark = E!Stage(E!Rows[i], eloc[p].seen)
  BY <1>7, <1>c
<1>11. /\ reported'[m] = [run |-> p, stage |-> mark] /\ reported'[m] # Unset
       /\ \A n \in E!Names \ {m} : reported'[n] = reported[n]
       /\ PassStands(m)' => PassesStand'
       /\ SummaryStands' /\ E!DiagnosisIsComplete'
       /\ ~ E!Fault("overlap") =>
            /\ \A q \in Procs \ {p} : ~ ELive(q) /\ ~ ELive(q)'
            /\ Owns(p)' /\ E!OneRunPerDirectory' /\ diagnosis' = Unset
  <2>1. m \in E!Names /\ mark \in E!Stages
    OBVIOUS
  <2>2. /\ ETurn(p) /\ ELive(p) /\ summary' = summary /\ diagnosis' = diagnosis
        /\ reported' = [reported EXCEPT ![m] = [run |-> p, stage |-> mark]]
    BY <1>1, <1>2
  <2> QED BY ONLY EInv, p \in Procs, <2>1, <2>2, OneReport
<1>12. PassStands(m)'
  <2>1. \A q : q = p => ((E!Earned(q, i))' <=> (E!Earned(p, i))')
    OBVIOUS
  <2>2. /\ reported'[m].run = p /\ reported'[m].stage = mark
        /\ i \notin eloc'[p].cases /\ epc'[p] \notin {"new", "parse"}
    BY <1>1, <1>4, <1>11
  <2> QED BY <1>3, <1>5, <1>7, <1>8, <2>1, <2>2 DEF PassStands
<1>13. InUse'
  <2>1. used
    BY <1>6 DEF EInv, InUse
  <2> QED BY <1>2, <2>1 DEF InUse
<1>14. ASSUME ~ E!Fault("overlap"), ~ E!NamesClash PROVE Lists(p)'
  <2>1. Lists(p)
    BY <1>2, <1>14 DEF EInv, Directory
  <2>2. Done(p) = E!Selected \ eloc[p].cases /\ Done(p)' = Done(p) \cup {i} /\ i \notin Done(p)
    BY <1>1, <1>2, <1>4, <1>5, <1>7 DEF Done
  <2>3. \A n : Listed(p, n)' <=> Listed(p, n) \/ n = m
    BY <1>2, <1>4, <1>5, <1>7, <2>2 DEF Listed
  <2>4. \A n \in E!Names : reported'[n] # Unset <=> Listed(p, n)'
    BY <1>11, <2>1, <2>3 DEF Lists
  <2>5. \A j \in Done(p)' : reported'[E!Rows[j].id].stage = "none" <=> (E!Earned(p, j))'
    <3>1. reported'[E!Rows[i].id].stage = "none" <=> (E!Earned(p, i))'
      BY <1>3, <1>7, <1>8, <1>11
    <3>2. ASSUME NEW j \in Done(p)
          PROVE  reported'[E!Rows[j].id].stage = "none" <=> (E!Earned(p, j))'
      <4>1. E!Rows[j].id \in E!Names \ {m}
        BY <1>7, <2>2, RowsAre DEF EInv
      <4>2. reported[E!Rows[j].id].stage = "none" <=> E!Earned(p, j)
        BY <2>1 DEF Lists
      <4> QED BY <1>8, <1>11, <4>1, <4>2
    <3> QED BY <2>2, <3>1, <3>2
  <2>6. \A j \in Rejects : SchemaErrors[j] \in E!Names \ {m}
    BY <1>7, <1>14, NoClash, RowsAre DEF EInv
  <2>7. \A j \in Rejects : reported'[SchemaErrors[j]] # Unset =>
          reported'[SchemaErrors[j]].stage # "none"
    BY <1>11, <2>1, <2>6 DEF Lists
  <2> QED BY <1>5, <2>4, <2>5, <2>7 DEF Lists
<1>15. E!RescoreAgrees'
  <2> SUFFICES ASSUME ~ E!Fault("overlap"), ~ E!NamesClash, NEW j \in E!Accepted,
                      observed'[E!Rows[j].id] # Unset, reported'[E!Rows[j].id] # Unset
      PROVE reported'[E!Rows[j].id].stage = E!Stage(E!Rows[j], observed'[E!Rows[j].id].seen)
    BY <1>1, RescoreTurns DEF ETurn
  <2>1. CASE j = i
    <3>1. reported'[E!Rows[i].id].stage = mark /\ observed'[E!Rows[i].id].seen = eloc[p].seen
      BY <1>2, <1>7, <1>9, <1>11
    <3> QED BY <1>10, <2>1, <3>1
  <2>2. CASE j # i
    <3>1. E!Rows[j].id \in E!Names \ {m}
      BY <1>7, <2>2, RowsAre DEF EInv
    <3>2. /\ observed'[E!Rows[j].id] = observed[E!Rows[j].id]
          /\ reported'[E!Rows[j].id] = reported[E!Rows[j].id]
      BY <1>2, <1>11, <3>1
    <3> QED BY <3>2, RescoreStays
  <2> QED BY <2>1, <2>2
<1>16. Observed(p)' /\ epc'[p] # "diagnose"
  BY <1>4 DEF Observed
<1>17. ESettled(p)
  BY <1>11, <1>12, <1>13, <1>14, <1>15, <1>16 DEF ESettled
<1> QED BY <1>1, <1>17, EStays

LEMMA ESummariseKeeps ==
  ASSUME EInv, NEW p \in Procs, E!Summarise(p)
  PROVE  EInv'
<1> DEFINE G == {i \in E!Selected : E!Earned(p, i)}
<1>1. EKept(p) /\ ETurn(p)
  BY ESummarise DEF EKept
<1>2. /\ epc[p] = "cases" /\ eloc[p].cases = {} /\ eloc' = eloc /\ facts' = facts
      /\ reported' = reported /\ observed' = observed /\ used' = used
      /\ diagnosis' = diagnosis /\ ELive(p)
      /\ summary' = [run |-> p, count |-> Len(eloc[p].reports),
                     passed |-> E!Cardinality(Passed(p))]
  BY DEF E!Summarise, ELive, Passed
<1>3. epc'[p] = "diagnose" /\ \A q \in Procs \ {p} : epc'[q] = epc[q]
  BY DEF EInv, ETypes, E!Summarise, E!Goto
<1>4. /\ E!Names' = E!Names /\ E!Rows' = E!Rows /\ E!Accepted' = E!Accepted
      /\ E!Selected' = E!Selected /\ Rejects' = Rejects
      /\ (E!Fault("overlap"))' <=> E!Fault("overlap")
  BY <1>1, ESame DEF ETurn
<1>5. /\ Len(eloc[p].reports) = Cardinality(Rejects) + Cardinality(E!Selected)
      /\ Cardinality(Passed(p)) = Cardinality(G)
  <2>1. E!Selected \ eloc[p].cases = E!Selected /\ epc[p] \in Working
    BY <1>2 DEF Working
  <2>2. {i \in E!Selected \ eloc[p].cases : E!Earned(p, i)} = G
    BY <1>2
  <2> HIDE DEF G
  <2> QED BY <2>1, <2>2 DEF EInv, Counted
<1>6. G' = G
  <2>1. \A i : (E!Earned(p, i))' <=> E!Earned(p, i)
    BY <1>2, EarnedStays DEF E!Summarise
  <2> QED BY <1>4, <2>1
<1>7. /\ summary'.run = p /\ summary'.count = Cardinality(Rejects) + Cardinality(E!Selected)
      /\ summary'.passed = Cardinality(G) /\ summary' # Unset
  <2>1. E!Cardinality(Passed(p)) = Cardinality(G)
    BY <1>5, SameCardinality
  <2> HIDE DEF G
  <2>2. /\ summary'.run = p /\ summary'.count = Cardinality(Rejects) + Cardinality(E!Selected)
        /\ summary'.passed = Cardinality(G)
    BY <1>2, <1>5, <2>1
  <2>3. Len(eloc[p].reports) \in Nat /\ Cardinality(G) \in Nat
    <3>1. eloc[p].reports \in Seq(E!Stages) /\ G \subseteq DOMAIN E!Rows
      BY RowsAre DEF EInv, ETypes, ELocals, G
    <3> QED BY <3>1, RowsAreFinite DEF EInv
  <2>4. summary' \in [run : Procs, count : Nat, passed : Nat]
    BY <1>2, <2>1, <2>3
  <2> QED BY <2>2, <2>4, EvaluationAssumption
<1>8. E!SummaryIsTrue'
  <2> DEFINE T == {i \in E!Selected : E!Earned(summary.run, i)}
  <2>1. T' = G'
    BY <1>4, <1>7 DEF E!Earned, E!Happens
  <2>2. E!SummaryIsTrue' <=> (summary' # Unset =>
          /\ summary'.count = Cardinality(Rejects) + Cardinality(E!Selected)
          /\ summary'.passed = Cardinality(T'))
    BY <1>4, SameCardinality DEF E!SummaryIsTrue, Rejects
  <2> HIDE DEF T, G
  <2> QED BY <1>6, <1>7, <2>1, <2>2
<1>9. SummaryStands'
  BY <1>3, <1>7, <1>8 DEF SummaryStands
<1>10. /\ PassesStand' /\ E!RescoreAgrees'
       /\ (Owns(p) => Owns(p)') /\ (E!OneRunPerDirectory <=> E!OneRunPerDirectory')
  BY <1>1, <1>2, FilesStay
<1>11. InUse'
  <2>1. used
    BY <1>2 DEF EInv, InUse, Working
  <2> QED BY <1>2, <2>1 DEF InUse
<1>12. ASSUME ~ E!Fault("overlap")
       PROVE  /\ \A q \in Procs \ {p} : ~ ELive(q) /\ ~ ELive(q)'
              /\ diagnosis' = Unset /\ E!OneRunPerDirectory' /\ Owns(p)'
              /\ ~ E!NamesClash => Lists(p)'
  <2>1. \A q \in Procs \ {p} : ~ ELive(q) /\ ~ ELive(q)'
    BY <1>1, <1>2, <1>12, EAlone
  <2>2. ~ E!NamesClash => Lists(p)'
    <3>1. epc[p] \in Working /\ epc'[p] \in Working \cup {"diagnose"}
      BY <1>2, <1>3 DEF Working
    <3>2. ~ E!NamesClash => Lists(p)
      BY <1>2, <1>12 DEF EInv, Directory
    <3> QED BY <1>1, <1>2, <3>1, <3>2, ListsStay
  <2> QED BY <1>2, <1>10, <1>12, <2>1, <2>2 DEF EInv, OneCommand
<1>13. E!DiagnosisIsComplete'
  BY <1>4, <1>12 DEF E!DiagnosisIsComplete
<1>14. Observed(p)'
  BY <1>3 DEF Observed
<1>15. ESettled(p)
  BY <1>7, <1>9, <1>10, <1>11, <1>12, <1>13, <1>14 DEF ESettled
<1> QED BY <1>1, <1>15, EStays

\* Sets that a bijection relates have as many elements.
LEMMA BijectionCounts ==
  ASSUME NEW U, IsFiniteSet(U), NEW T, NEW f \in [U -> T],
         \A a, b \in U : f[a] = f[b] => a = b,
         \A t \in T : \E a \in U : f[a] = t
  PROVE  Cardinality(T) = Cardinality(U)
<1>1. f \in Bijection(U, T)
  BY DEF Bijection, Injection, IsInjective, Surjection
<1>2. ExistsBijection(U, T)
  BY <1>1 DEF ExistsBijection
<1> QED BY <1>2, FS_Bijection

\* At the end, the reports that are not passes are those of the unusable rows
\* and of the selected cases that did not earn it.
LEMMA DiagnosisCounts ==
  ASSUME EInv, NEW p \in Procs, epc[p] = "diagnose", Lists(p), ~ E!NamesClash
  PROVE  Cardinality({n \in E!Names : reported[n] # Unset /\ reported[n].stage # "none"})
           = Cardinality(Rejects) + Cardinality(E!Selected)
               - Cardinality({i \in E!Selected : E!Earned(p, i)})
<1> DEFINE D == {n \in E!Names : reported[n] # Unset /\ reported[n].stage # "none"}
           G == {i \in E!Selected : E!Earned(p, i)}
           F == E!Selected \ G
           U == Rejects \cup F
           f == [i \in U |-> IF i \in E!Accepted THEN E!Rows[i].id ELSE SchemaErrors[i]]
<1>1. /\ E!Selected \subseteq E!Accepted /\ E!Accepted \subseteq DOMAIN E!Rows
      /\ Rejects \subseteq DOMAIN E!Rows /\ Rejects \cap E!Accepted = {}
      /\ \A i \in DOMAIN E!Rows : E!Rows[i].id \in E!Names /\ SchemaErrors[i] \in E!Names
      /\ \A i, j \in E!Accepted : E!Rows[i].id = E!Rows[j].id => i = j
      /\ \A i, j \in DOMAIN E!Rows : SchemaErrors[i] = SchemaErrors[j] => i = j
  BY RowsAre DEF EInv
<1>2. Done(p) = E!Selected
  BY DEF EInv, Counted, Done
<1>3. \A n \in E!Names : reported[n] # Unset <=>
        \/ \E i \in E!Selected : n = E!Rows[i].id
        \/ \E i \in Rejects : n = SchemaErrors[i]
  BY <1>2 DEF Lists, Listed
<1>4. /\ \A i \in E!Selected : reported[E!Rows[i].id].stage = "none" <=> i \in G
      /\ \A i \in Rejects : reported[SchemaErrors[i]].stage # "none"
  BY <1>1, <1>2, <1>3 DEF Lists
<1>5. /\ \A i \in F : f[i] = E!Rows[i].id
      /\ \A i \in Rejects : f[i] = SchemaErrors[i]
  BY <1>1
<1>6. \A i \in E!Accepted, j \in Rejects : E!Rows[i].id # SchemaErrors[j]
  BY NoClash DEF EInv
<1>7. G \subseteq E!Selected /\ F \subseteq E!Selected /\ F \cap G = {} /\ F \cup G = E!Selected
      /\ \A i \in E!Selected : i \in F <=> i \notin G
  OBVIOUS
<1>8. f \in [U -> D]
  <2> HIDE DEF G, F
  <2>1. \A i \in U : f[i] \in D
    BY <1>1, <1>3, <1>4, <1>5, <1>7
  <2>2. f = [i \in U |-> f[i]]
    OBVIOUS
  <2> HIDE DEF f, D, U
  <2> QED BY <2>1, <2>2
<1>9. \A a, b \in U : f[a] = f[b] => a = b
  <2> HIDE DEF G, F, f
  <2> QED BY <1>1, <1>5, <1>6, <1>7
<1>10. \A t \in D : \E a \in U : f[a] = t
  <2> HIDE DEF G, F, f
  <2> QED BY <1>1, <1>3, <1>4, <1>5, <1>7
<1>11. /\ IsFiniteSet(Rejects) /\ IsFiniteSet(F) /\ IsFiniteSet(G) /\ IsFiniteSet(E!Selected)
       /\ Cardinality(Rejects) \in Nat /\ Cardinality(F) \in Nat /\ Cardinality(G) \in Nat
  <2> HIDE DEF G, F
  <2>1. F \subseteq DOMAIN E!Rows /\ G \subseteq DOMAIN E!Rows /\ E!Selected \subseteq DOMAIN E!Rows
    BY <1>1, <1>7
  <2> QED BY <1>1, <2>1, RowsAreFinite DEF EInv
<1> HIDE DEF D, G, F, f
<1>12. Rejects \cap F = {} /\ F \cap G = {}
  BY <1>1, <1>7
<1>13. IsFiniteSet(U) /\ Cardinality(U) = Cardinality(Rejects) + Cardinality(F)
  <2>1. Cardinality({}) = 0
    BY FS_EmptySet
  <2>2. IsFiniteSet(U) /\ Cardinality(U) = Cardinality(Rejects) + Cardinality(F) - Cardinality({})
    BY <1>11, <1>12, FS_Union
  <2> QED BY <1>11, <2>1, <2>2
<1>14. Cardinality(E!Selected) = Cardinality(F) + Cardinality(G)
  <2>1. Cardinality({}) = 0
    BY FS_EmptySet
  <2>2. Cardinality(E!Selected) = Cardinality(F) + Cardinality(G) - Cardinality({})
    BY <1>7, <1>11, <1>12, FS_Union
  <2> QED BY <1>11, <2>1, <2>2
<1>15. Cardinality(D) = Cardinality(U)
  <2> HIDE DEF U
  <2> QED BY <1>8, <1>9, <1>10, <1>13, BijectionCounts
<1> HIDE DEF U
<1>16. Cardinality(D) = Cardinality(Rejects) + Cardinality(E!Selected) - Cardinality(G)
  BY <1>11, <1>13, <1>14, <1>15
<1> QED BY <1>16 DEF D, G

LEMMA EDiagnoseKeeps ==
  ASSUME EInv, NEW p \in Procs, E!Diagnose(p)
  PROVE  EInv'
<1>1. EKept(p) /\ ETurn(p)
  BY EDiagnose DEF EKept
<1>2. /\ reported' = reported /\ observed' = observed /\ used' = used
      /\ summary' = summary /\ ELive(p) /\ epc[p] = "diagnose"
      /\ diagnosis' = {n \in E!Names : reported[n] # Unset /\ reported[n].stage # "none"}
  BY DEF E!Diagnose, ELive
<1>3. epc'[p] = "ended" /\ \A q \in Procs \ {p} : epc'[q] = epc[q]
  BY DEF EInv, ETypes, E!Diagnose, E!Goto
<1>4. /\ E!Names' = E!Names /\ (E!Fault("overlap"))' <=> E!Fault("overlap")
  BY <1>1, ESame DEF ETurn
<1>5. E!NamesClash' <=> E!NamesClash
  BY <1>1, ESame DEF ETurn
<1>6. /\ PassesStand' /\ SummaryStands' /\ E!RescoreAgrees'
      /\ (E!OneRunPerDirectory <=> E!OneRunPerDirectory')
  BY <1>1, <1>2, FilesStay
<1>7. used /\ InUse'
  <2>1. used
    BY <1>2 DEF EInv, InUse
  <2> QED BY <1>2, <2>1 DEF InUse
<1>8. ASSUME ~ E!Fault("overlap")
      PROVE  /\ \A q \in Procs \ {p} : ~ ELive(q) /\ ~ ELive(q)'
             /\ E!OneRunPerDirectory' /\ summary # Unset /\ summary.run = p
             /\ ~ E!NamesClash => Lists(p)
  <2>1. \A q \in Procs \ {p} : ~ ELive(q) /\ ~ ELive(q)'
    BY <1>1, <1>2, <1>8, EAlone
  <2> QED BY <1>2, <1>6, <1>8, <2>1 DEF EInv, OneCommand, Directory
<1>9. E!DiagnosisIsComplete'
  <2> SUFFICES ASSUME ~ E!Fault("overlap"), ~ E!NamesClash
      PROVE E!Cardinality(diagnosis') = summary.count - summary.passed
    <3>1. (E!Fault("overlap"))' <=> E!Fault("overlap")
      BY <1>1, ESame DEF ETurn
    <3> QED BY <1>2, <1>5, <3>1 DEF E!DiagnosisIsComplete
  <2> DEFINE T == {i \in E!Selected : E!Earned(summary.run, i)}
             G == {i \in E!Selected : E!Earned(p, i)}
  <2>1. E!SummaryIsTrue
    BY <1>8 DEF EInv, SummaryStands
  <2>2. /\ summary.count = Cardinality(Rejects) + Cardinality(E!Selected)
        /\ summary.passed = Cardinality(T)
    BY <1>8, <2>1, SameCardinality DEF E!SummaryIsTrue, Rejects
  <2>3. T = G
    BY <1>8
  <2>4. Cardinality(diagnosis') = Cardinality(Rejects) + Cardinality(E!Selected) - Cardinality(G)
    BY <1>2, <1>8, DiagnosisCounts
  <2>7. /\ Cardinality(Rejects) \in Nat /\ Cardinality(E!Selected) \in Nat
        /\ Cardinality(G) \in Nat
    <3>1. G \subseteq DOMAIN E!Rows /\ E!Selected \subseteq DOMAIN E!Rows
          /\ Rejects \subseteq DOMAIN E!Rows
      BY RowsAre DEF EInv
    <3> HIDE DEF G
    <3> QED BY <3>1, RowsAreFinite DEF EInv
  <2>5. E!Cardinality(diagnosis') = Cardinality(diagnosis')
    BY SameCardinality
  <2> HIDE DEF T, G
  <2>6. summary.passed = Cardinality(G)
    BY <2>2, <2>3
  <2> QED BY <2>2, <2>4, <2>5, <2>6, <2>7
<1>10. ~ ELive(p)' /\ Observed(p)' /\ epc'[p] # "diagnose"
  BY <1>3 DEF ELive, Observed
<1>11. ESettled(p)
  BY <1>2, <1>6, <1>7, <1>8, <1>9, <1>10 DEF ESettled
<1> QED BY <1>1, <1>11, EStays

LEMMA EInit == E!Init => EInv
<1> SUFFICES ASSUME E!Init PROVE EInv
  OBVIOUS
<1>1. /\ dataset \in Datasets /\ used = FALSE /\ summary = Unset /\ diagnosis = Unset
      /\ facts = {} /\ observed = [n \in E!Names |-> Unset]
      /\ reported = [n \in E!Names |-> Unset] /\ epc = [p \in Procs |-> "new"]
      /\ eloc = [p \in Procs |-> [row |-> 1, cases |-> {}, reports |-> << >>,
                                  seen |-> E!Blank]]
  BY DEF E!Init
<1>2. ETypes
  <2>1. [row |-> 1, cases |-> {}, reports |-> << >>, seen |-> E!Blank] \in ELocals
    BY DEF ELocals, ESeen, E!Blank
  <2> QED BY <1>1, <2>1 DEF ETypes, Working, InCase
<1>3. \A p \in Procs : CaseIs(p) /\ Untouched(p) /\ Counted(p) /\ Fresh(p)
  BY <1>1 DEF CaseIs, Untouched, NoFacts, Counted, Fresh, InCase, Working
<1>4. InUse /\ PassesStand /\ SummaryStands
  BY <1>1 DEF InUse, PassesStand, PassStands, SummaryStands, InCase, Working
<1>5. OneCommand
  BY <1>1 DEF OneCommand, ELive, E!OneRunPerDirectory
<1>6. Directory
  BY <1>1 DEF Directory, ELive, Observed
<1>7. E!DiagnosisIsComplete
  BY <1>1 DEF E!DiagnosisIsComplete
<1>8. E!RescoreAgrees
  BY <1>1, RowsAre, <1>2 DEF E!RescoreAgrees
<1> QED BY <1>2, <1>3, <1>4, <1>5, <1>6, <1>7, <1>8 DEF EInv

LEMMA EStep ==
  ASSUME EInv, [E!Next]_(E!evvars)
  PROVE  EInv'
<1>1. ASSUME NEW p \in Procs,
             \/ E!Begins(p) \/ E!ParseRow(p) \/ E!Select(p) \/ E!OpenCase(p)
             \/ \E shows \in SUBSET E!Shown : ("gate" \in shows => "verified" \in shows)
                                              /\ E!Execute(p, shows)
             \/ \E status \in {"passed", "failed", "error"} : E!Judge(p, status)
             \/ E!CaseRaises(p) \/ E!Observe(p) \/ E!WriteReport(p)
             \/ E!Summarise(p) \/ E!Diagnose(p) \/ E!Dies(p)
      PROVE  EInv'
  BY <1>1, EBeginsKeeps, EParseRowKeeps, ESelectKeeps, EInsideKeeps, EObserveKeeps,
     EWriteReportKeeps, ESummariseKeeps, EDiagnoseKeeps, EDiesKeeps
<1>2. CASE UNCHANGED E!evvars
  <2>1. /\ reported' = reported /\ observed' = observed /\ used' = used
        /\ summary' = summary /\ diagnosis' = diagnosis /\ epc' = epc /\ eloc' = eloc
        /\ facts' = facts /\ dataset' = dataset
    BY <1>2 DEF E!evvars, E!files
  <2>2. /\ E!Rows' = E!Rows /\ E!Accepted' = E!Accepted /\ E!Selected' = E!Selected
        /\ Rejects' = Rejects /\ E!Names' = E!Names
    BY <2>1, ESame
  <2>3. (E!Fault("overlap"))' <=> E!Fault("overlap")
    BY <2>1, ESame
  <2>4. E!NamesClash' <=> E!NamesClash
    BY <2>1, ESame
  <2>5. \A p \in Procs : CaseIs(p)' /\ Untouched(p)' /\ Counted(p)' /\ Fresh(p)'
    BY <2>1, OthersStay DEF EInv
  <2>6. ETypes' /\ InUse'
    BY <2>1, <2>2 DEF EInv, ETypes, InUse
  <2>7. PICK p \in Procs : TRUE
    BY ServicesAssumption
  <2>8. ETurn(p)
    BY <2>1 DEF ETurn
  <2>9. /\ PassesStand' /\ SummaryStands' /\ E!DiagnosisIsComplete' /\ E!RescoreAgrees'
        /\ (E!OneRunPerDirectory <=> E!OneRunPerDirectory')
    BY <2>1, <2>8, FilesStay
  <2>10. OneCommand'
    BY <2>1, <2>2, <2>3, <2>9 DEF EInv, OneCommand, ELive, Owns
  <2>11. Directory'
    <3>1. \A q \in Procs : /\ ELive(q)' <=> ELive(q)
                          /\ Observed(q)' <=> Observed(q)
      BY <2>1, <2>2 DEF ELive, Observed, E!Case, E!Current
    <3>2. \A q \in Procs, i \in Nat : (E!Earned(q, i))' <=> E!Earned(q, i)
      BY <2>1, EarnedStays
    <3>3. \A q \in Procs : Done(q)' = Done(q) /\ Done(q) \subseteq Nat
      BY <2>1, <2>2, RowsAre DEF Done, EInv
    <3>4. \A q \in Procs : \A n : Listed(q, n)' <=> Listed(q, n)
      BY <2>1, <2>2, <3>3 DEF Listed
    <3>5. \A q \in Procs : Lists(q) => Lists(q)'
      BY <2>1, <2>2, <3>2, <3>3, <3>4 DEF Lists
    <3> QED BY <2>3, <2>4, <3>1, <3>5 DEF EInv, Directory
  <2> QED BY <2>5, <2>6, <2>9, <2>10, <2>11 DEF EInv
<1> QED BY <1>1, <1>2 DEF E!Next

(* A case that is reported as passed earned it; the summary counts every   *)
(* selected case and unusable row once; and while commands do not overlap, *)
(* a directory has the reports of one run, the diagnosis misses none, and  *)
(* a directory scored again says the same (run_eval, diagnose_run,         *)
(* score_path).                                                            *)
THEOREM ReportsStayTrue == Spec => []ReportsAreTrue
<1>1. Init => EInv
  BY EInit DEF Init
<1>2. EInv /\ [Next]_vars => EInv'
  BY EStep, Steps
<1>3. EInv => ReportsAreTrue
  <2> SUFFICES ASSUME EInv PROVE ReportsAreTrue
    OBVIOUS
  <2>1. E!PassIsEarned
    BY DEF EInv, PassesStand, PassStands, E!PassIsEarned
  <2>2. E!SummaryIsTrue
    BY DEF EInv, SummaryStands, E!SummaryIsTrue
  <2>3. E!OneRunPerDirectory
    BY DEF EInv, OneCommand, E!OneRunPerDirectory
  <2> QED BY <2>1, <2>2, <2>3 DEF EInv, ReportsAreTrue
<1> QED BY <1>1, <1>2, <1>3, PTL DEF Spec

-----------------------------------------------------------------------------
(* The verdict of an experiment stays, and the last run that had completed *)
(* when a verification read the rows decides it, a later one having been   *)
(* under way by then; a line's branch is there as long as the line, and no *)
(* call is let through after the verdict of its command, whichever         *)
(* commands overlap; and a stop that nobody disturbs leaves no worker      *)
(* (update_experiment, verify, update-ref, __exit__, stop_worker).         *)
THEOREM ServicesDecisionsStay == Spec => DecisionsStay
BY MeasurementDecisionsStay, BranchesStay, VerdictOfBrokerIsLast, StopStandsAlone, PTL
   DEF DecisionsStay

-----------------------------------------------------------------------------
(* The types of the services, as far as they bound what a behaviour does.  *)

\* (OperatorScheduler) What the only driver checks is what the last run left;
\* no patch is checked twice in one mode, and nothing fast after it was full.
NowLeft == O!Left = patch

CheckMade(i) ==
  \E j \in DOMAIN runs : runs[j].status = "COMPLETED" /\ runs[j].patch = checks[i].patch

CheckedOnce(i, j) ==
  i < j /\ checks[i].patch = checks[j].patch =>
    checks[i].mode = "fast" /\ checks[j].mode = "full"

FullIsOfHead(i) ==
  checks[i].mode = "full" /\ checks[i].patch # 0 => head = checks[i].patch

StillDue(d) ==
  /\ opc[d] \in {"verify_fast", "verify_full", "review"} => writer = 0 /\ O!Latest("COMPLETED")
  /\ opc[d] = "verify_fast" => O!Matching = {}
  /\ opc[d] \in {"verify_full", "review"} => O!Checked("PASSED", "fast") /\ patch = head

Sole ==
  O!Alone =>
    /\ NowLeft /\ (writer # 0 => head = 0)
    /\ \A i \in DOMAIN checks : CheckMade(i) /\ FullIsOfHead(i)
    /\ \A i, j \in DOMAIN checks : CheckedOnce(i, j)
    /\ \A d \in O!Driving : StillDue(d)

OMore ==
  /\ ophase \in {"REQUESTED", "ACTIVE", "VERIFIED", "CLOSED"}
  /\ ocalls \in 0 .. MaxCalls
  /\ writer # 0 => writer = Len(runs) /\ runs[writer].status = "RUNNING"
  /\ Sole

LEMMA SoleRests ==
  ASSUME Sole, UNCHANGED <<oregime, runs, writer, checks, patch, head>>,
         O!Alone => \A d \in O!Driving : opc'[d] = opc[d] \/ StillDue(d)'
  PROVE  Sole'
<1>1. NowLeft' = NowLeft
  BY DEF NowLeft, O!Left, O!Completed, O!Newest
<1>2. \A i \in DOMAIN checks : (CheckMade(i) => CheckMade(i)') /\ (FullIsOfHead(i) => FullIsOfHead(i)')
  BY DEF CheckMade, FullIsOfHead
<1>3. \A i, j \in DOMAIN checks : CheckedOnce(i, j) => CheckedOnce(i, j)'
  BY DEF CheckedOnce
<1>4. ASSUME NEW d, opc'[d] = opc[d], StillDue(d)
      PROVE  StillDue(d)'
  BY <1>4 DEF StillDue, O!Matching, O!Latest, O!Last, O!Checked, O!Newest
<1>5. O!Driving' = O!Driving /\ O!Alone' = O!Alone
  BY DEF O!Driving, O!Alone
<1> SUFFICES ASSUME O!Alone PROVE Sole'
  BY <1>5 DEF Sole
<1>6. \A d \in O!Driving : StillDue(d)'
  BY <1>4 DEF Sole
<1>7. \A i \in DOMAIN checks : CheckMade(i)' /\ FullIsOfHead(i)'
  BY <1>2 DEF Sole
<1>8. \A i, j \in DOMAIN checks : CheckedOnce(i, j)'
  BY <1>3 DEF Sole
<1>9. NowLeft' /\ (writer' # 0 => head' = 0)
  BY <1>1 DEF Sole
<1> QED BY <1>5, <1>6, <1>7, <1>8, <1>9 DEF Sole

LEMMA LeftStays ==
  ASSUME OTypes, O!Completed' = O!Completed,
         \A i \in O!Completed : runs'[i].patch = runs[i].patch
  PROVE  O!Left' = O!Left
<1>1. CASE O!Completed = {}
  BY <1>1 DEF O!Left
<1>2. CASE O!Completed # {}
  <2>1. O!Completed \subseteq 1 .. Len(runs) /\ Len(runs) \in Nat
    BY DEF OTypes, O!Completed
  <2>2. O!Newest(O!Completed) \in O!Completed
    BY <1>2, <2>1, NewestIs
  <2>3. O!Newest(O!Completed)' = O!Newest(O!Completed)
    BY DEF O!Newest
  <2> QED BY <1>2, <2>2, <2>3 DEF O!Left
<1> QED BY <1>1, <1>2

LEMMA SoleInit == O!Init => OMore
<1> SUFFICES ASSUME O!Init PROVE OMore
  OBVIOUS
<1>1. runs = << >> /\ checks = << >> /\ O!Completed = {}
  BY DEF O!Init, O!Completed
<1>2. Sole
  BY <1>1, ServicesAssumption
     DEF O!Init, Sole, NowLeft, StillDue, O!Left, O!Driving, O!Alone, CheckMade, CheckedOnce, FullIsOfHead
<1>3. ocalls \in 0 .. MaxCalls
  BY BoundsAssumption DEF O!Init
<1> QED BY <1>2, <1>3 DEF O!Init, OMore

\* Whoever drives alone has the command that it carries out.
LEMMA SoleDriver ==
  ASSUME O!Alone, NEW d \in O!Driving
  PROVE  d \in Procs /\ O!Driving = {d}
BY OneDriver, ServicesAssumption DEF O!Driving

\* Advance, and the commands that leave the candidate and its records alone.
LEMMA SoleAdvances ==
  ASSUME OInv, Sole, NEW d \in O!Driving,
         O!Advance(d) \/ O!Start(d) \/ O!WriterReturns(d) \/ O!RunExperiment(d) \/ O!Raises(d)
           \/ O!Dies(d) \/ O!ReviewBegins(d)
  PROVE  Sole'
<1> USE DEF O!records, O!candidate
<1>1. UNCHANGED <<oregime, runs, writer, checks, patch, head>>
  BY DEF O!Advance, O!Start, O!WriterReturns, O!RunExperiment, O!Raises, O!Dies, O!ReviewBegins
<1>2. d \in Procs /\ opc \in [Procs -> OLabels]
  BY ServicesAssumption DEF O!Driving, OInv, OTypes
<1>3. O!Alone => O!Driving = {d}
  BY SoleDriver
<1>4. O!Alone => StillDue(d)'
  <2>1. CASE O!Advance(d)
    <3>1. PICK c \in O!Commands : O!Due(c) /\ opc' = [opc EXCEPT ![d] = c]
      BY <2>1 DEF O!Advance
    <3>2. opc'[d] = c
      BY <1>2, <3>1
    <3>3. /\ c # "review"
          /\ c \in {"verify_fast", "verify_full"} =>
            /\ writer = 0 /\ O!Latest("COMPLETED")
            /\ c = "verify_fast" => O!Matching = {}
            /\ c = "verify_full" => O!Checked("PASSED", "fast") /\ patch = head
      BY <3>1 DEF O!Due, O!Awaits, O!Checked, O!Dirty, O!NoActiveRun, O!Commands
    <3> QED BY <1>1, <3>2, <3>3
            DEF StillDue, O!Matching, O!Latest, O!Last, O!Checked, O!Newest
  <2>2. CASE O!ReviewBegins(d)
    <3>1. opc[d] = "verify_full" /\ opc'[d] = "review"
      BY <1>2, <2>2 DEF O!ReviewBegins
    <3>2. O!Alone => StillDue(d)
      BY DEF Sole
    <3> QED BY <1>1, <3>1, <3>2 DEF StillDue, O!Latest, O!Last, O!Checked, O!Matching, O!Newest
  <2>3. CASE ~ O!Advance(d) /\ ~ O!ReviewBegins(d)
    <3>1. opc'[d] = "idle"
      BY <1>2, <2>3 DEF O!Finish, O!Start, O!WriterReturns, O!RunExperiment, O!Raises, O!Dies
    <3> QED BY <3>1 DEF StillDue
  <2> QED BY <2>1, <2>2, <2>3
<1> QED BY <1>1, <1>3, <1>4, SoleRests

LEMMA SoleStartsWriter ==
  ASSUME OInv, Sole, NEW d \in O!Driving, O!StartWriter(d)
  PROVE  Sole'
<1> SUFFICES ASSUME O!Alone PROVE Sole'
  BY DEF O!StartWriter, Sole, O!Alone
<1> DEFINE r == [status |-> "RUNNING", patch |-> 0]
<1>1. /\ runs' = Append(runs, r) /\ opc' = [opc EXCEPT ![d] = "backend"] /\ head = 0
      /\ UNCHANGED <<oregime, checks, patch, head>>
  BY DEF O!StartWriter, O!MayWrite, O!candidate
<1>2. d \in Procs /\ O!Driving = {d} /\ opc \in [Procs -> OLabels]
  BY SoleDriver DEF OInv, OTypes
<1>3. /\ DOMAIN runs = 1 .. Len(runs) /\ DOMAIN runs' = 1 .. Len(runs) + 1
      /\ Len(runs) \in Nat /\ runs'[Len(runs) + 1].status = "RUNNING"
      /\ \A i \in DOMAIN runs : runs'[i] = runs[i]
  <2>1. r \in ORuns /\ runs \in Seq(ORuns) /\ r.status = "RUNNING"
    BY ServicesAssumption DEF ORuns, OInv, OTypes
  <2> HIDE DEF r
  <2> QED BY <1>1, <2>1
<1> HIDE DEF r
<1>4. O!Completed' = O!Completed
  BY <1>3 DEF O!Completed
<1>5. NowLeft'
  BY <1>1, <1>3, <1>4, LeftStays DEF OInv, Sole, NowLeft, O!Completed
<1>6. \A i \in DOMAIN checks : CheckMade(i)'
  BY <1>1, <1>3 DEF Sole, CheckMade
<1> QED BY <1>1, <1>2, <1>5, <1>6 DEF Sole, FullIsOfHead, CheckedOnce, StillDue, O!Alone, O!Driving

\* The last run, which is the active one, ends or is cancelled.
LEMMA SoleRunEnds ==
  ASSUME OInv, OMore, O!Alone, oregime' = oregime, checks' = checks, writer # 0, writer' = 0, head' = 0,
         NEW r \in ORuns, runs' = [runs EXCEPT ![writer] = r],
         IF r.status = "COMPLETED" THEN r.patch = patch' ELSE patch' = patch,
         \A d \in O!Driving : opc'[d] \in {opc[d], "idle"}
  PROVE  Sole'
<1>1. /\ runs \in Seq(ORuns) /\ Len(runs) \in Nat /\ writer = Len(runs) /\ writer \in 1 .. Len(runs)
      /\ runs[writer].status = "RUNNING" /\ head = 0
  BY OTypesOf DEF OMore, Sole
<1>2. /\ DOMAIN runs' = DOMAIN runs /\ DOMAIN runs = 1 .. Len(runs) /\ Len(runs') = Len(runs)
      /\ runs'[writer] = r /\ \A i \in DOMAIN runs : i # writer => runs'[i] = runs[i]
  BY <1>1
<1>3. NowLeft'
  <2>1. CASE r.status = "COMPLETED"
    <3>1. writer \in O!Completed' /\ O!Completed' \subseteq 1 .. Len(runs)
      BY <1>1, <1>2, <2>1 DEF O!Completed
    <3>2. /\ O!Newest(O!Completed') \in O!Completed'
          /\ \A j \in O!Completed' : j <= O!Newest(O!Completed')
      BY <1>1, <3>1, NewestIs
    <3>3. O!Newest(O!Completed') = writer
      <4>1. O!Newest(O!Completed') \in 1 .. Len(runs) /\ writer <= O!Newest(O!Completed')
        BY <3>1, <3>2
      <4> QED BY <1>1, <4>1
    <3>4. O!Left' = runs'[O!Newest(O!Completed')].patch
      BY <3>1 DEF O!Left, O!Newest
    <3> QED BY <1>2, <2>1, <3>3, <3>4 DEF NowLeft
  <2>2. CASE r.status # "COMPLETED"
    <3>1. O!Completed' = O!Completed
      BY <1>1, <1>2, <2>2 DEF O!Completed
    <3>2. \A i \in O!Completed : runs'[i].patch = runs[i].patch
      BY <1>1, <1>2 DEF O!Completed
    <3> QED BY <2>2, <3>1, <3>2, LeftStays DEF OInv, OMore, Sole, NowLeft
  <2> QED BY <2>1, <2>2
<1>4. \A i \in DOMAIN checks : CheckMade(i)'
  BY <1>1, <1>2 DEF OMore, Sole, CheckMade
<1>5. \A d \in O!Driving : StillDue(d)'
  BY DEF OMore, Sole, StillDue
<1> QED BY <1>1, <1>3, <1>4, <1>5
        DEF OMore, Sole, FullIsOfHead, CheckedOnce, O!Alone, O!Driving

LEMMA SoleWriterEnds ==
  ASSUME OInv, OMore, NEW d \in O!Driving, O!WriterCompletes(d) \/ O!WriterFails(d)
  PROVE  Sole'
<1> USE DEF O!records, O!candidate
<1> SUFFICES ASSUME O!Alone PROVE Sole'
  BY DEF O!WriterCompletes, O!WriterFails, Sole, O!Alone
<1>1. /\ writer # 0 /\ writer' = 0 /\ UNCHANGED <<oregime, checks>> /\ head = 0 /\ head' = 0
      /\ \A e \in O!Driving : opc'[e] \in {opc[e], "idle"}
  <2>1. O!Finish(d) /\ writer # 0 /\ writer' = 0 /\ UNCHANGED <<oregime, checks>> /\ head' \in {0, head}
    BY DEF O!WriterCompletes, O!WriterFails
  <2>2. d \in Procs /\ opc \in [Procs -> OLabels] /\ O!Driving = {d}
    BY SoleDriver DEF OInv, OTypes
  <2> QED BY <2>1, <2>2 DEF O!Finish, OMore, Sole
<1>2. /\ runs \in Seq(ORuns) /\ writer \in 1 .. Len(runs) /\ runs[writer] \in ORuns
  BY <1>1, OTypesOf
<1>3. CASE O!WriterCompletes(d)
  <2> DEFINE r == [status |-> "COMPLETED", patch |-> patch']
  <2>1. patch = O!Left /\ patch' \in {patch, writer} /\ runs' = [runs EXCEPT ![writer] = r]
    BY <1>3 DEF O!WriterCompletes, O!AdmissionChain
  <2>2. r \in ORuns /\ r.status = "COMPLETED" /\ r.patch = patch'
    BY <2>1, OTypesOf, LeftIs DEF OInv, ORuns
  <2> HIDE DEF r
  <2> QED BY <1>1, <2>1, <2>2, SoleRunEnds
<1>4. CASE O!WriterFails(d)
  <2> DEFINE r == [runs[writer] EXCEPT !.status = "FAILED"]
  <2>1. runs' = [runs EXCEPT ![writer] = r] /\ patch' = patch
    BY <1>4 DEF O!WriterFails, OMore, Sole, NowLeft
  <2>2. r \in ORuns /\ r.status # "COMPLETED"
    BY <1>2 DEF ORuns
  <2> HIDE DEF r
  <2> QED BY <1>1, <2>1, <2>2, SoleRunEnds
<1> QED BY <1>3, <1>4

\* Alone there is nobody to edit or reopen, but a crashed run can be cancelled.
LEMMA SoleHuman ==
  ASSUME OInv, OMore, O!Human
  PROVE  Sole'
<1> SUFFICES ASSUME O!Alone PROVE Sole'
  BY DEF O!Human, O!Supervise, O!CancelWriter, O!Edit, O!Reopen, O!Close, Sole, O!Alone
<1>1. O!CancelWriter
  BY DEF O!Alone, O!Human, O!Supervise, O!Edit, O!Reopen, O!Close
<1> DEFINE r == [runs[writer] EXCEPT !.status = "CANCELLED"]
<1>2. /\ writer # 0 /\ writer' = 0 /\ runs' = [runs EXCEPT ![writer] = r]
      /\ UNCHANGED <<oregime, checks, patch, head, opc>>
  BY <1>1 DEF O!CancelWriter, O!candidate
<1>3. head = 0
  BY <1>2 DEF OMore, Sole
<1>4. r \in ORuns /\ r.status # "COMPLETED"
  <2>1. runs[writer] \in ORuns
    BY <1>2, OTypesOf
  <2> QED BY <2>1 DEF ORuns
<1> HIDE DEF r
<1> QED BY <1>2, <1>3, <1>4, SoleRunEnds

LEMMA SoleCommits ==
  ASSUME OInv, OMore, NEW d \in O!Driving, O!CommitCandidate(d)
  PROVE  Sole'
<1> SUFFICES ASSUME O!Alone PROVE Sole'
  BY DEF O!CommitCandidate, Sole, O!Alone
<1>1. /\ head = 0 /\ writer = 0 /\ opc' = [opc EXCEPT ![d] = "idle"]
      /\ UNCHANGED <<oregime, runs, writer, checks, patch>>
  BY DEF O!CommitCandidate, O!NoActiveRun, O!records, O!Finish
<1>2. d \in Procs /\ O!Driving = {d} /\ opc \in [Procs -> OLabels]
  BY SoleDriver DEF OInv, OTypes
<1>3. NowLeft'
  BY <1>1 DEF OMore, Sole, NowLeft, O!Left, O!Completed, O!Newest
<1>4. \A i \in DOMAIN checks : CheckMade(i)' /\ FullIsOfHead(i)'
  BY <1>1 DEF OMore, Sole, CheckMade, FullIsOfHead
<1>5. StillDue(d)'
  BY <1>1, <1>2 DEF StillDue
<1> QED BY <1>1, <1>2, <1>3, <1>4, <1>5 DEF OMore, Sole, CheckedOnce, O!Driving, O!Alone

\* A check is recorded that was due.
LEMMA SoleChecks ==
  ASSUME OInv, OMore, NEW d \in O!Driving,
         \/ O!FastCheck(d) \/ O!FullFails(d) \/ O!ReviewRaises(d)
         \/ \E passed \in BOOLEAN : O!Review(d, passed)
  PROVE  Sole'
<1> USE DEF O!records, O!candidate
<1> SUFFICES ASSUME O!Alone PROVE Sole'
  BY DEF O!FastCheck, O!FullFails, O!ReviewRaises, O!Review, Sole, O!Alone
<1>1. /\ opc' = [opc EXCEPT ![d] = "idle"]
      /\ UNCHANGED <<oregime, runs, writer, patch, head>>
  BY DEF O!FastCheck, O!FullFails, O!ReviewRaises, O!Review, O!UnderReview, O!Finish
<1>2. d \in Procs /\ O!Driving = {d} /\ opc \in [Procs -> OLabels]
  BY SoleDriver DEF OInv, OTypes
<1>0. PICK n \in Nat : n = Len(checks)
  BY DEF OInv, OTypes
<1>13. opc[d] = "review" => reviewing = patch
  BY <1>2 DEF OInv, Reviewed, O!Alone
<1>3. PICK mode \in {"fast", "full"}, status \in {"PASSED", "FAILED"}, seen \in {0, patch} :
        /\ checks' = Append(checks, [mode |-> mode, status |-> status, patch |-> patch,
                                    seen |-> seen])
        /\ opc[d] \in IF mode = "fast" THEN {"verify_fast"} ELSE {"verify_full", "review"}
  BY <1>13 DEF O!FastCheck, O!FullFails, O!ReviewRaises, O!Review, O!UnderReview, O!Concludes
<1>4. /\ DOMAIN checks = 1 .. n /\ DOMAIN checks' = 1 .. n + 1
      /\ \A i \in 1 .. n : checks'[i] = checks[i]
      /\ checks'[n + 1].mode = mode /\ checks'[n + 1].patch = patch
  <2> DEFINE c == [mode |-> mode, status |-> status, patch |-> patch, seen |-> seen]
  <2>1. c.mode = mode /\ c.patch = patch /\ checks \in Seq(OChecks) /\ checks' = Append(checks, c)
    BY <1>3 DEF OInv, OTypes
  <2> HIDE DEF c
  <2> QED BY <1>0, <2>1
<1>5. StillDue(d)
  BY <1>2 DEF OMore, Sole
<1>6. O!Latest("COMPLETED") /\ O!Last(runs).patch = patch
  BY <1>3, <1>5, LeftIs DEF StillDue, OMore, Sole, NowLeft, OInv
<1>7. Len(runs) \in DOMAIN runs /\ runs[Len(runs)].status = "COMPLETED" /\ runs[Len(runs)].patch = patch
  BY <1>6, OTypesOf DEF O!Latest, O!Last
<1>8. \A i \in DOMAIN checks' : CheckMade(i)'
  <2>1. \A i \in 1 .. n : CheckMade(i)'
    BY <1>1, <1>4 DEF OMore, Sole, CheckMade
  <2>2. CheckMade(n + 1)'
    BY <1>1, <1>4, <1>7 DEF CheckMade
  <2> QED BY <1>4, <2>1, <2>2
<1>9. \A i \in DOMAIN checks' : FullIsOfHead(i)'
  <2>1. \A i \in 1 .. n : FullIsOfHead(i)'
    BY <1>1, <1>4 DEF OMore, Sole, FullIsOfHead
  <2>2. FullIsOfHead(n + 1)'
    BY <1>1, <1>3, <1>4, <1>5 DEF StillDue, FullIsOfHead
  <2> QED BY <1>4, <2>1, <2>2
<1>10. ASSUME NEW i \in 1 .. n, checks[i].patch = patch
       PROVE  checks[i].mode = "fast" /\ mode = "full"
  <2>1. i \in O!Matching /\ O!Matching \subseteq 1 .. n
    BY <1>4, <1>6, <1>10 DEF O!Matching
  <2>2. mode = "full" /\ O!Checked("PASSED", "fast")
    BY <1>3, <1>5, <2>1 DEF StillDue
  <2> DEFINE k == O!Newest(O!Matching)
  <2>3. k \in O!Matching /\ i <= k
    BY <1>4, <2>1, NewestIs
  <2>4. checks[k].mode = "fast" /\ checks[k].patch = patch /\ k \in 1 .. n
    BY <1>6, <2>1, <2>2, <2>3 DEF O!Checked, O!Matching
  <2> HIDE DEF k
  <2>5. i < k => checks[k].mode = "full"
    BY <1>4, <1>10, <2>4 DEF OMore, Sole, CheckedOnce
  <2>6. i = k
    BY <1>4, <2>3, <2>4, <2>5
  <2> QED BY <2>2, <2>4, <2>6
<1>11. \A i, j \in DOMAIN checks' : CheckedOnce(i, j)'
  <2> SUFFICES ASSUME NEW i \in 1 .. n + 1, NEW j \in 1 .. n + 1, i < j,
                      checks'[i].patch = checks'[j].patch
               PROVE  checks'[i].mode = "fast" /\ checks'[j].mode = "full"
    BY <1>4 DEF CheckedOnce
  <2>1. CASE j = n + 1
    <3>1. i \in 1 .. n
      BY <1>4, <2>1
    <3> QED BY <1>4, <1>10, <2>1, <3>1
  <2>2. CASE j # n + 1
    <3>1. i \in 1 .. n /\ j \in 1 .. n
      BY <1>4, <2>2
    <3> QED BY <1>4, <3>1 DEF OMore, Sole, CheckedOnce
  <2> QED BY <2>1, <2>2
<1>12. NowLeft' /\ StillDue(d)'
  BY <1>1, <1>2 DEF OMore, Sole, NowLeft, StillDue, O!Left, O!Completed, O!Newest
<1> QED BY <1>1, <1>2, <1>8, <1>9, <1>11, <1>12 DEF OMore, Sole, O!Driving, O!Alone

\* What is not about the only driver.
LEMMA OBounds ==
  ASSUME OInv, OMore, [O!Next]_(O!osvars)
  PROVE  /\ ophase' \in {"REQUESTED", "ACTIVE", "VERIFIED", "CLOSED"}
         /\ ocalls' \in 0 .. MaxCalls
         /\ writer' # 0 => writer' = Len(runs') /\ runs'[writer'].status = "RUNNING"
<1> USE DEF OMore, O!records, O!candidate
<1>1. CASE UNCHANGED O!osvars
  BY <1>1 DEF O!osvars
<1>2. ASSUME NEW d \in O!Driving, O!StartWriter(d)
      PROVE  writer' = Len(runs') /\ runs'[writer'].status = "RUNNING"
  <2> DEFINE r == [status |-> "RUNNING", patch |-> 0]
  <2>1. runs' = Append(runs, r) /\ writer' = Len(runs) + 1
    BY <1>2 DEF O!StartWriter
  <2>2. r \in ORuns /\ runs \in Seq(ORuns) /\ r.status = "RUNNING"
    BY OTypesOf DEF ORuns
  <2> HIDE DEF r
  <2> QED BY <2>1, <2>2
<1>3. ASSUME NEW d \in O!Driving, O!Advance(d) \/ O!Perform(d) \/ O!Dies(d)
      PROVE  O!StartWriter(d) \/ writer' = 0 \/ UNCHANGED <<runs, writer>>
  BY <1>3 DEF O!Perform, O!Advance, O!Dies, O!Start, O!WriterCompletes, O!WriterReturns, O!WriterFails,
     O!FastCheck, O!CommitCandidate, O!RunExperiment, O!FullFails, O!ReviewBegins, O!ReviewRaises,
     O!Raises, O!Review
<1>4. O!Human => writer' = 0 \/ UNCHANGED <<runs, writer>>
  BY DEF O!Human, O!Supervise, O!CancelWriter, O!Edit, O!Reopen, O!Close
<1>5. writer' # 0 => writer' = Len(runs') /\ runs'[writer'].status = "RUNNING"
  BY <1>1, <1>2, <1>3, <1>4 DEF O!Next, O!osvars
<1>6. O!Next => /\ ophase' \in {"REQUESTED", "ACTIVE", "VERIFIED", "CLOSED"}
                /\ ocalls' \in {ocalls, ocalls - 1} \cap Nat
  <2> USE DEF O!Calls
  <2>1. ocalls \in Nat /\ (ocalls > 0 => ocalls - 1 \in Nat)
    BY BoundsAssumption
  <2>2. ASSUME NEW d \in O!Driving, O!Advance(d) \/ O!Perform(d) \/ O!Dies(d)
        PROVE  /\ ophase' \in {ophase, "ACTIVE", "VERIFIED", "CLOSED"}
               /\ ocalls' \in {ocalls, ocalls - 1} \cap Nat
    BY <2>1, <2>2 DEF O!Perform, O!Advance, O!Dies, O!Start, O!StartWriter, O!WriterCompletes,
       O!WriterReturns, O!WriterFails, O!FastCheck, O!CommitCandidate, O!RunExperiment, O!FullFails,
       O!ReviewBegins, O!ReviewRaises, O!Raises, O!Review
  <2>3. O!Human => /\ ophase' \in {ophase, "ACTIVE", "VERIFIED", "CLOSED"}
                   /\ ocalls' \in {ocalls, ocalls - 1} \cap Nat
    BY <2>1 DEF O!Human, O!Supervise, O!CancelWriter, O!Edit, O!Reopen, O!Close
  <2> QED BY <2>2, <2>3 DEF O!Next
<1>7. O!Next => ocalls' \in 0 .. MaxCalls
  <2>1. MaxCalls \in Nat /\ ocalls \in Nat /\ ocalls <= MaxCalls
    BY BoundsAssumption
  <2> QED BY <1>6, <2>1
<1> QED BY <1>1, <1>5, <1>6, <1>7 DEF O!osvars

LEMMA OMoreStep ==
  ASSUME OInv, OMore, [O!Next]_(O!osvars)
  PROVE  OMore'
<1>1. Sole'
  <2>1. CASE UNCHANGED O!osvars
    BY <2>1, SoleRests DEF OMore, O!osvars, O!records, O!candidate
  <2>2. CASE O!Next
    BY <2>2, SoleAdvances, SoleStartsWriter, SoleWriterEnds, SoleHuman, SoleCommits, SoleChecks
       DEF O!Next, O!Perform, OMore
  <2> QED BY <2>1, <2>2
<1> QED BY <1>1, OBounds DEF OMore

\* A request that only its driver advances is checked once in each mode for
\* what each run made, in full only for the commit and for no patch at all.
LEMMA ChecksAreFew ==
  ASSUME OInv, OMore, O!Alone
  PROVE  Len(checks) <= Len(runs) + 2
<1> DEFINE n == Len(checks)
           m == Len(runs)
           made(i) == CHOOSE j \in DOMAIN runs : runs[j].patch = checks[i].patch
           mark == [i \in 1 .. n |-> IF checks[i].mode = "fast" THEN made(i)
                                     ELSE IF checks[i].patch = 0 THEN m + 1 ELSE m + 2]
<1>1. /\ n \in Nat /\ m \in Nat /\ DOMAIN checks = 1 .. n /\ DOMAIN runs = 1 .. m
      /\ \A i \in 1 .. n : checks[i].mode \in {"fast", "full"}
  <2>1. checks \in Seq(OChecks) /\ runs \in Seq(ORuns)
    BY DEF OInv, OTypes
  <2>2. \A c \in OChecks : c.mode \in {"fast", "full"}
    BY DEF OChecks
  <2> QED BY <2>1, <2>2
<1>2. \A i \in 1 .. n : made(i) \in 1 .. m /\ runs[made(i)].patch = checks[i].patch
  BY <1>1 DEF OMore, Sole, CheckMade
<1> HIDE DEF made
<1>3. mark \in [1 .. n -> 1 .. m + 2]
  BY <1>1, <1>2
<1>4. ASSUME NEW i \in 1 .. n, NEW j \in 1 .. n, i < j, mark[i] = mark[j] PROVE FALSE
  <2>1. checks[i].mode = checks[j].mode
    BY <1>1, <1>2, <1>4
  <2>2. CASE checks[i].mode = "fast"
    <3>1. checks[i].patch = checks[j].patch
      BY <1>2, <1>4, <2>1, <2>2
    <3> QED BY <1>1, <1>4, <2>1, <3>1 DEF OMore, Sole, CheckedOnce
  <2>3. CASE checks[i].mode # "fast"
    <3>1. checks[i].patch = 0 <=> checks[j].patch = 0
      BY <1>1, <1>4, <2>1, <2>3
    <3>2. checks[i].patch = checks[j].patch
      BY <1>1, <2>1, <2>3, <3>1 DEF OMore, Sole, FullIsOfHead
    <3> QED BY <1>1, <1>4, <2>1, <3>2 DEF OMore, Sole, CheckedOnce
  <2> QED BY <2>2, <2>3
<1>5. mark \in Injection(1 .. n, 1 .. m + 2)
  <2>1. ASSUME NEW i \in 1 .. n, NEW j \in 1 .. n, mark[i] = mark[j] PROVE i = j
    <3> HIDE DEF mark
    <3> QED BY <1>1, <1>4, <2>1
  <2> HIDE DEF mark
  <2> QED BY <1>3, <2>1 DEF Injection, IsInjective
<1>6. /\ IsFiniteSet(1 .. m + 2) /\ Cardinality(1 .. m + 2) = m + 2
      /\ IsFiniteSet(1 .. n) /\ Cardinality(1 .. n) = n
  <2>1. \A k \in Nat : IsFiniteSet(1 .. k) /\ Cardinality(1 .. k) = k
    <3> TAKE k \in Nat
    <3>1. /\ IsFiniteSet(1 .. k)
          /\ Cardinality(1 .. k) = IF 1 > k THEN 0 ELSE k - 1 + 1
      BY FS_Interval
    <3> QED BY <3>1
  <2>2. m + 2 \in Nat
    BY <1>1
  <2> HIDE DEF m, n
  <2> QED BY <1>1, <2>1, <2>2
<1>7. Cardinality(1 .. n) <= Cardinality(1 .. m + 2)
  BY <1>5, <1>6, FS_Injection
<1> QED BY <1>6, <1>7

LEMMA OTypesAreOK == OInv /\ OMore => O!TypeOK
<1> SUFFICES ASSUME OInv, OMore PROVE O!TypeOK
  OBVIOUS
<1>1. O!Alone => Len(checks) < MaxChecks
  BY ChecksAreFew, OTypesOf, BoundsAssumption, ServicesAssumption, SMTT(30)
     DEF OInv, OTypes, O!AutoRetriesAreBounded
<1>2. \A r \in O!Range(runs) : r.status \in {"RUNNING", "COMPLETED", "FAILED", "CANCELLED"}
  <2>1. \A i \in DOMAIN runs : runs[i] \in ORuns
    BY OTypesOf
  <2> QED BY <2>1 DEF O!Range, ORuns
<1>3. \A c \in O!Range(checks) : c.seen \in 0 .. O!Foreign
  <2>1. \A i \in DOMAIN checks : checks[i] \in OChecks
    BY DEF OInv, OTypes
  <2> QED BY <2>1 DEF O!Range, OChecks
<1>4. reviewing \in 0 .. MaxAttempts
  BY OTypesOf DEF OInv, OTypes
<1> QED BY <1>1, <1>2, <1>3, <1>4, OTypesOf DEF OInv, OTypes, OMore, OLabels, O!TypeOK

\* (Measurement) Whoever edits the candidate may still commit it, and only a
\* completed run has seen anything.
MMore ==
  /\ Len(history) <= MaxCommits
  /\ cand.head <= MaxHead /\ (cand.edits = 1 => cand.head < MaxHead)
  /\ \A i \in DOMAIN exps : exps[i].status # "COMPLETED" => exps[i].seen = Unset
  /\ holder.row \in -1 .. Len(exps)

LEMMA MMoreInit == M!Init => MMore
<1> SUFFICES ASSUME M!Init PROVE MMore
  OBVIOUS
<1>1. Len(history) = 1 /\ exps = << >> /\ Len(exps) = 0 /\ cand = [head |-> 0, edits |-> 0]
      /\ holder.row = 0
  BY DEF M!Init, M!Free
<1> QED BY <1>1, BoundsAssumption DEF MMore

LEMMA HistoryGrows ==
  ASSUME MInv, MMore, M!Next
  PROVE  Len(history') <= MaxCommits
<1>1. CASE \E c \in Codes, with \in BOOLEAN : M!CommitTrusted(c, with)
  <2>1. PICK c \in Codes, with \in BOOLEAN : M!CommitTrusted(c, with)
    BY <1>1
  <2> DEFINE entry == [code |-> c, baseline |-> IF with THEN file ELSE history[M!Tip].baseline]
  <2>2. history' = Append(history, entry) /\ Len(history) < MaxCommits
    BY <2>1 DEF M!CommitTrusted, M!Tip
  <2> HIDE DEF entry
  <2>3. Len(history') = Len(history) + 1 /\ Len(history) \in Nat
    BY <2>2 DEF MInv, MTypes
  <2> QED BY <2>2, <2>3, BoundsAssumption
<1>2. CASE ~ \E c \in Codes, with \in BOOLEAN : M!CommitTrusted(c, with)
  <2>1. history' = history
    BY <1>2 DEF M!Next, M!Control, M!Experiment, M!Request, M!Reconfigure, M!CaptureBaseline,
       M!ExperimentBegins, M!ExperimentCompletes, M!ExperimentFails, M!Ends, M!ExperimentDies,
       M!LeaseTimesOut, M!OpenStudy, M!RecordObservedBaseline, M!Start, M!Edit, M!CommitCandidate,
       M!VerifyReads, M!VerifyAccepts, M!VerifyFails, M!VerifyEnds, M!Admit, M!Integrate,
       M!Reopen, M!RecordObservedCandidate, M!repo, M!study
  <2>2. Len(history) <= MaxCommits
    BY DEF MMore
  <2> QED BY <2>1, <2>2, Zenon
<1> QED BY <1>1, <1>2

LEMMA CandidateIsBounded ==
  ASSUME MInv, MMore, M!Next
  PROVE  cand'.head <= MaxHead /\ (cand'.edits = 1 => cand'.head < MaxHead)
<1>1. cand \in [head : Nat, edits : {0, 1}] /\ MaxHead \in Nat
  BY BoundsAssumption DEF MInv, MTypes
<1>2. CASE M!Edit
  BY <1>1, <1>2 DEF M!Edit
<1>3. CASE M!CommitCandidate
  BY <1>1, <1>3 DEF M!CommitCandidate, MMore
<1>4. CASE ~ M!Edit /\ ~ M!CommitCandidate
  <2>1. cand' = cand
    BY <1>4 DEF M!Next, M!Control, M!Experiment, M!Request, M!CommitTrusted, M!Reconfigure,
       M!CaptureBaseline, M!ExperimentBegins, M!ExperimentCompletes, M!ExperimentFails, M!Ends,
       M!ExperimentDies, M!LeaseTimesOut, M!OpenStudy, M!RecordObservedBaseline, M!Start,
       M!VerifyReads, M!VerifyAccepts, M!VerifyFails, M!VerifyEnds, M!Admit, M!Integrate,
       M!Reopen, M!RecordObservedCandidate, M!repo, M!study
  <2>2. cand.head <= MaxHead /\ (cand.edits = 1 => cand.head < MaxHead)
    BY DEF MMore
  <2> QED BY <2>1, <2>2, Zenon
<1> QED BY <1>2, <1>3, <1>4

LEMMA RowsSeeWhenCompleted ==
  ASSUME MInv, MMore, M!Next
  PROVE  /\ \A i \in DOMAIN exps' : exps'[i].status # "COMPLETED" => exps'[i].seen = Unset
         /\ holder'.row \in -1 .. Len(exps')
<1>1. /\ exps \in Seq(MRows) /\ Len(exps) \in Nat /\ DOMAIN exps = 1 .. Len(exps)
      /\ holder.row \in -1 .. Len(exps)
      /\ \A i \in DOMAIN exps : exps[i].status # "COMPLETED" => exps[i].seen = Unset
  BY DEF MInv, MTypes, MMore
<1>2. CASE M!Start
  <2> DEFINE r == M!Row("CREATED", M!Baseline.setup, Unset)
  <2>1. exps' = <<r>> /\ holder' = holder /\ r.seen = Unset /\ exps = << >>
    BY <1>2 DEF M!Start, M!Row, MInv, Stages
  <2> HIDE DEF r
  <2>2. holder.row \in -1 .. 0
    BY <1>1, <2>1
  <2>3. DOMAIN exps' = {1} /\ Len(exps') = 1 /\ exps'[1] = r
    BY <2>1
  <2> QED BY <2>1, <2>2, <2>3
<1>3. ASSUME NEW s \in Setups, M!ExperimentBegins(s)
      PROVE  /\ \A i \in DOMAIN exps' : exps'[i].status # "COMPLETED" => exps'[i].seen = Unset
             /\ holder'.row \in -1 .. Len(exps')
  <2> DEFINE r == M!Row("RUNNING", s, Unset)
  <2>1. exps' = Append(exps, r) /\ holder'.row = Len(exps) + 1 /\ r.seen = Unset
    BY <1>3 DEF M!ExperimentBegins, M!Row
  <2> HIDE DEF r
  <2>2. /\ DOMAIN exps' = 1 .. Len(exps) + 1 /\ Len(exps') = Len(exps) + 1
        /\ \A i \in DOMAIN exps : exps'[i] = exps[i]
        /\ exps'[Len(exps) + 1] = r
    BY <1>1, <2>1
  <2> QED BY <1>1, <2>1, <2>2
<1>4. ASSUME NEW k \in live, NEW status \in {"COMPLETED", "FAILED"}, NEW o,
             M!Ends(k, status, o), status # "COMPLETED" => o = Unset
      PROVE  /\ \A i \in DOMAIN exps' : exps'[i].status # "COMPLETED" => exps'[i].seen = Unset
             /\ holder'.row \in -1 .. Len(exps')
  <2> DEFINE r == [exps[k] EXCEPT !.status = status, !.seen = o]
  <2>1. exps[k] \in MRows /\ k \in DOMAIN exps
    BY <1>1 DEF MInv, MTypes
  <2>2. exps' = [exps EXCEPT ![k] = r] /\ holder'.row \in {0, holder.row}
    BY <1>4 DEF M!Ends, M!Free
  <2>3. r.status = status /\ r.seen = o
    BY <2>1 DEF MRows
  <2> HIDE DEF r
  <2>4. DOMAIN exps' = DOMAIN exps /\ Len(exps') = Len(exps)
    BY <1>1, <2>2
  <2> QED BY <1>1, <1>4, <2>1, <2>2, <2>3, <2>4
<1>5. CASE \E k \in live : (\E o \in Outcomes : M!ExperimentCompletes(k, o)) \/ M!ExperimentFails(k)
  BY <1>4, <1>5 DEF M!ExperimentCompletes, M!ExperimentFails
<1>6. CASE \/ M!Control \/ M!LeaseTimesOut \/ (\E i \in live : M!ExperimentDies(i))
           \/ M!Request /\ ~ M!Start
  <2>1. exps' = exps /\ holder'.row \in {-1, 0, holder.row}
    <3>1. CASE M!LeaseTimesOut
      BY <3>1 DEF M!LeaseTimesOut
    <3>2. CASE M!Control \/ \E i \in live : M!ExperimentDies(i)
      BY <3>2 DEF M!Control, M!CommitTrusted, M!Reconfigure, M!CaptureBaseline, M!ExperimentDies
    <3>3. CASE \/ M!Edit \/ M!RecordObservedBaseline \/ M!RecordObservedCandidate
               \/ (\E i \in 1 .. M!Tip : M!OpenStudy(i)) \/ \E o \in Outcomes : M!Admit(o)
      BY <3>3 DEF M!Edit, M!RecordObservedBaseline, M!RecordObservedCandidate, M!OpenStudy, M!Admit
    <3>4. CASE M!CommitCandidate \/ M!Integrate \/ M!Reopen \/ M!VerifyAccepts \/ M!VerifyFails
      <4>1. exps' = exps /\ holder' \in {M!Free, holder}
        BY <3>4 DEF M!CommitCandidate, M!Integrate, M!Reopen, M!VerifyAccepts, M!VerifyFails,
           M!VerifyEnds
      <4> QED BY <4>1 DEF M!Free
    <3>5. CASE M!VerifyReads
      <4>1. exps' = exps /\ holder' = [row |-> -1, stale |-> FALSE]
        BY <3>5 DEF M!VerifyReads, M!OfTheCheck
      <4> QED BY <4>1
    <3> QED BY <1>6, <3>1, <3>2, <3>3, <3>4, <3>5 DEF M!Request
  <2> QED BY <1>1, <2>1
<1> QED BY <1>2, <1>3, <1>5, <1>6 DEF M!Next, M!Experiment

LEMMA MMoreStep ==
  ASSUME MInv, MMore, [M!Next]_(M!mvars)
  PROVE  MMore'
<1>1. CASE UNCHANGED M!mvars
  BY <1>1 DEF M!mvars, M!repo, M!study, MMore
<1>2. CASE M!Next
  BY <1>2, HistoryGrows, CandidateIsBounded, RowsSeeWhenCompleted DEF MMore
<1> QED BY <1>1, <1>2

LEMMA MTypesAreOK == MAll /\ MMore => M!TypeOK
<1> SUFFICES ASSUME MInv, Watching, MMore PROVE M!TypeOK
  BY DEF MAll
<1>1. /\ history \in Seq(MCommits) /\ Len(history) \in 1 .. MaxCommits /\ MaxCommits \in Nat
      /\ DOMAIN history = 1 .. Len(history)
  BY BoundsAssumption DEF MInv, MTypes, MMore
<1>2. ASSUME NEW b \in MBases \cup {NoBaseline}, Sound(b)
      PROVE  b \in M!Measurements \cup {NoBaseline}
  <2> SUFFICES ASSUME b # NoBaseline PROVE b \in M!Measurements
    OBVIOUS
  <2>1. b.at \in 1 .. MaxCommits
    BY <1>1, <1>2 DEF Sound
  <2>2. b = [at |-> b.at, setup |-> b.setup, seen |-> b.seen] /\ b.setup \in Setups /\ b.seen \in Outcomes
    BY DEF MBases
  <2> QED BY <2>1, <2>2 DEF M!Measurements
<1>3. \A i \in DOMAIN history :
        history[i].code \in Codes /\ history[i].baseline \in M!Measurements \cup {NoBaseline}
  <2> TAKE i \in DOMAIN history
  <2>1. history[i] \in MCommits
    BY <1>1
  <2>2. history[i].code \in Codes /\ history[i].baseline \in MBases \cup {NoBaseline}
    BY <2>1, BoundsAssumption DEF MCommits
  <2> QED BY <1>2, <2>2 DEF MInv, Baselines
<1>4. file \in M!Measurements \cup {NoBaseline} /\ h0 \in M!Measurements \cup {NoBaseline}
  BY <1>2 DEF MInv, MTypes, Baselines
<1>5. \A i \in DOMAIN exps :
        /\ exps[i].status \in {"CREATED", "RUNNING", "COMPLETED", "FAILED"}
        /\ exps[i].seen \in Outcomes \cup {Unset}
        /\ exps[i].status = "COMPLETED" <=> exps[i].seen # Unset
  <2> TAKE i \in DOMAIN exps
  <2>1. exps[i] \in MRows
    BY DEF MInv, MTypes
  <2>2. exps[i].status = "COMPLETED" => exps[i].seen \in Outcomes
    BY DEF MInv, MTypes
  <2> QED BY <2>1, <2>2, MeasurementAssumption DEF MRows, MMore
<1>6. cand \in [head : 0 .. MaxHead, edits : {0, 1}]
  BY BoundsAssumption DEF MInv, MTypes, MMore
<1>7. /\ checking.head \in 0 .. MaxHead /\ checking.row \in 0 .. Len(exps)
      /\ checking.running \subseteq DOMAIN exps
  <2>1. exps \in Seq(MRows) /\ Len(exps) \in Nat /\ DOMAIN exps = 1 .. Len(exps)
    BY DEF MInv, MTypes
  <2>2. CASE checking = M!NoCheck
    BY <2>1, <2>2, BoundsAssumption DEF M!NoCheck
  <2>3. CASE checking # M!NoCheck
    BY <1>6, <2>1, <2>3 DEF Watching
  <2> QED BY <2>2, <2>3
<1>8. holder.row \in M!OfTheCheck .. Len(exps)
  BY DEF MMore, M!OfTheCheck
<1> QED BY <1>1, <1>3, <1>4, <1>5, <1>6, <1>7, <1>8 DEF MInv, MTypes, Stages, MMore, M!TypeOK, M!Tip

LEMMA DomainIsLen ==
  ASSUME NEW s, NEW n \in Nat, DOMAIN s = 1 .. n
  PROVE  Len(s) = n
OBVIOUS

\* (CodexBroker) The queue has room, and a command under way has no result yet.
BMore ==
  /\ Len(queue) <= Backlog /\ Len(results) <= plan.commands
  /\ phase \in {"running", "closing", "joining", "verdict"} => Len(results) < plan.commands

LEMMA BMoreInit == BP!Init => BMore
<1> SUFFICES ASSUME BP!Init PROVE BMore
  OBVIOUS
<1>1. plan.commands \in 1 .. MaxCommands
  BY DEF BP!Init, BP!Plans
<1>2. Len(queue) = 0 /\ Len(results) = 0
  BY DEF BP!Init
<1> QED BY <1>1, <1>2, BoundsAssumption DEF BP!Init, BMore

LEMMA BMoreStep ==
  ASSUME BP!IInv, BMore, [BP!Next]_(BP!cbvars)
  PROVE  BMore'
<1> USE DEF BMore, BP!talk
<1>1. /\ queue \in Seq(BP!Calls) /\ Len(queue) \in Nat /\ Backlog \in Nat
      /\ results \in Seq({0, 1, 124, 125, 126}) /\ Len(results) \in Nat
      /\ plan.commands \in Int
  BY BoundsAssumption DEF BP!IInv, BP!Types, BP!Plans
<1>2. BP!Refuse \/ BP!Begin \/ BP!OpenFails \/ BP!Join \/ BP!JoinExpires => BMore'
  BY <1>1 DEF BP!Refuse, BP!Begin, BP!OpenFails, BP!Join, BP!JoinExpires
<1>3. CASE BP!Close
  <2>1. Len(queue') = 0
    BY <1>3 DEF BP!Close
  <2> QED BY <1>1, <1>3, <2>1 DEF BP!Close
<1>4. CASE BP!Verdict
  <2>1. Len(results') = Len(results) + 1
    BY <1>1, <1>4 DEF BP!Verdict
  <2> QED BY <1>1, <1>4, <2>1 DEF BP!Verdict
<1>5. CASE BP!Thread
  <2>1. UNCHANGED <<plan, phase, results>>
    BY <1>5 DEF BP!Thread, BP!Accept, BP!Handle, BP!BackendReturns, BP!ThreadStops
  <2>2. Len(queue') <= Len(queue) /\ Len(queue') \in Nat
    <3>1. CASE BP!Accept
      BY <1>1, <3>1 DEF BP!Accept
    <3>2. CASE ~ BP!Accept
      BY <1>1, <1>5, <3>2 DEF BP!Thread, BP!Handle, BP!BackendReturns, BP!ThreadStops
    <3> QED BY <3>1, <3>2
  <2> QED BY <1>1, <2>1, <2>2
<1>6. CASE BP!Command
  <2>1. /\ UNCHANGED <<plan, results>> /\ phase = "running" /\ Len(results) < plan.commands
    BY <1>6 DEF BP!Command, BP!CommandExits, BP!CommandTimesOut, BP!Leaves, BP!GiveUp, BP!Connect
  <2>2. Len(queue') <= Backlog
    <3>2. CASE \E code : BP!Leaves(code)
      <4>1. queue' = [i \in DOMAIN queue |-> BP!Deserted(queue[i])]
        BY <3>2 DEF BP!Leaves
      <4>2. DOMAIN queue' = 1 .. Len(queue)
        BY <1>1, <4>1
      <4> QED BY <1>1, <4>2, DomainIsLen
    <3>3. CASE BP!GiveUp
      <4>1. DOMAIN queue' = 1 .. Len(queue)
        BY <1>1, <3>3 DEF BP!GiveUp
      <4> QED BY <1>1, <4>1, DomainIsLen
    <3>4. ASSUME NEW role \in Roles, NEW fine \in BOOLEAN, BP!Connect(role, fine)
          PROVE  Len(queue') <= Backlog
      <4> DEFINE c == [role |-> role, fine |-> fine, there |-> TRUE]
      <4>1. queue' = Append(queue, c) /\ Len(queue) < Backlog
        BY <3>4 DEF BP!Connect
      <4> HIDE DEF c
      <4>2. Len(queue') = Len(queue) + 1
        BY <1>1, <4>1
      <4> QED BY <1>1, <4>1, <4>2
    <3> QED BY <1>6, <3>2, <3>3, <3>4 DEF BP!Command, BP!CommandExits, BP!CommandTimesOut
  <2> QED BY <1>1, <2>1, <2>2
<1>7. CASE UNCHANGED BP!cbvars
  BY <1>7 DEF BP!cbvars
<1> QED BY <1>2, <1>3, <1>4, <1>5, <1>6, <1>7 DEF BP!Next, BP!Harness

LEMMA BTypesAreOK == BP!IInv /\ BMore => B!TypeOK
<1> SUFFICES ASSUME BP!IInv, BMore PROVE B!TypeOK
  OBVIOUS
<1>1. \A i \in DOMAIN results : results[i] \in {0, 1, 124, 125, 126}
  BY DEF BP!IInv, BP!Types
<1> QED BY <1>1 DEF BP!IInv, BP!Types, BP!LeftAlone, BMore, B!TypeOK, B!Plans, BP!Plans

\* (Evaluation) A command that ended has a report for no more than each row.
EMore ==
  /\ diagnosis # Unset => diagnosis \subseteq E!Names
  /\ \A p \in Procs : epc[p] \in {"new", "ended"} => Len(eloc[p].reports) <= Len(E!Rows)

LEMMA EMoreInit == E!Init => EMore
<1> SUFFICES ASSUME E!Init PROVE EMore
  OBVIOUS
<1>1. Len(E!Rows) \in Nat
  BY EvaluationAssumption DEF E!Init, E!Rows
<1>2. \A p \in Procs : eloc[p].reports = << >>
  BY DEF E!Init
<1> QED BY <1>1, <1>2 DEF E!Init, EMore

LEMMA ReportsAreFew ==
  ASSUME EInv, NEW p \in Procs, epc[p] \in {"parse", "diagnose"} \cup Working
  PROVE  Len(eloc[p].reports) <= Len(E!Rows)
<1>1. /\ Len(E!Rows) \in Nat /\ DOMAIN E!Rows = 1 .. Len(E!Rows)
      /\ E!Selected \subseteq E!Accepted /\ E!Accepted \subseteq DOMAIN E!Rows
      /\ Rejects \subseteq DOMAIN E!Rows /\ Rejects \cap E!Accepted = {}
  BY EvaluationAssumption DEF EInv, ETypes, E!Rows, E!Selected, E!Accepted, Rejects
<1>2. Cardinality(DOMAIN E!Rows) = Len(E!Rows) /\ IsFiniteSet(DOMAIN E!Rows)
  <2>1. /\ IsFiniteSet(1 .. Len(E!Rows))
        /\ Cardinality(1 .. Len(E!Rows)) = IF 1 > Len(E!Rows) THEN 0 ELSE Len(E!Rows) - 1 + 1
    <3>1. 1 \in Int /\ Len(E!Rows) \in Int
      BY <1>1
    <3> QED BY <3>1, FS_Interval
  <2> QED BY <1>1, <2>1
<1>3. ASSUME NEW R, NEW D, R \subseteq Rejects, D \subseteq E!Selected
      PROVE  Cardinality(R) + Cardinality(D) <= Len(E!Rows)
  <2>1. R \subseteq DOMAIN E!Rows /\ D \subseteq DOMAIN E!Rows /\ R \cap D = {}
    BY <1>1, <1>3
  <2>2. IsFiniteSet(R) /\ IsFiniteSet(D) /\ IsFiniteSet(R \cup D)
    BY <1>2, <2>1, FS_Subset
  <2>3. Cardinality(R \cup D) = Cardinality(R) + Cardinality(D)
    <3>1. /\ Cardinality(R \cup D) = Cardinality(R) + Cardinality(D) - Cardinality(R \cap D)
          /\ Cardinality(R \cap D) = 0
      BY <2>1, <2>2, FS_Union, FS_EmptySet
    <3> QED BY <2>2, <3>1, FS_CardinalityType
  <2>4. Cardinality(R \cup D) <= Cardinality(DOMAIN E!Rows)
    BY <1>2, <2>1, FS_Subset
  <2> QED BY <1>2, <2>3, <2>4
<1>4. Counted(p)
  BY DEF EInv
<1>5. CASE epc[p] = "parse"
  <2>1. Len(eloc[p].reports) = Cardinality({i \in Rejects : i < eloc[p].row})
    BY <1>4, <1>5 DEF Counted
  <2>2. Cardinality({}) = 0
    BY FS_EmptySet
  <2>3. Cardinality({i \in Rejects : i < eloc[p].row}) + Cardinality({}) <= Len(E!Rows)
    BY <1>3
  <2>4. Cardinality({i \in Rejects : i < eloc[p].row}) \in Nat
    BY <1>1, <1>2, FS_Subset, FS_CardinalityType
  <2> QED BY <2>1, <2>2, <2>3, <2>4
<1>6. CASE epc[p] # "parse"
  <2>1. Len(eloc[p].reports) = Cardinality(Rejects) + Cardinality(E!Selected \ eloc[p].cases)
    BY <1>4, <1>6 DEF Counted
  <2> QED BY <1>3, <2>1
<1> QED BY <1>5, <1>6

LEMMA EMoreStep ==
  ASSUME EInv, EMore, [E!Next]_(E!evvars)
  PROVE  EMore'
<1> USE DEF E!files
<1>1. dataset' = dataset
  BY DEF E!Next, E!evvars, E!Begins, E!ParseRow, E!Select, E!OpenCase, E!Execute, E!Judge,
     E!CaseRaises, E!Observe, E!WriteReport, E!Summarise, E!Diagnose, E!Dies
<1>2. E!Rows' = E!Rows /\ E!Names' = E!Names
  BY <1>1 DEF E!Rows, E!Names
<1>3. diagnosis' # Unset => diagnosis' \subseteq E!Names
  BY DEF EMore, E!Next, E!evvars, E!Begins, E!ParseRow, E!Select, E!OpenCase, E!Execute, E!Judge,
     E!CaseRaises, E!Observe, E!WriteReport, E!Summarise, E!Diagnose, E!Dies
<1>4. ASSUME NEW q \in Procs, epc'[q] \in {"new", "ended"}
      PROVE  Len(eloc'[q].reports) <= Len(E!Rows)
  <2>1. eloc'[q].reports = eloc[q].reports
    <3> USE DEF EInv, ETypes, E!Goto
    <3>1. eloc \in [Procs -> ELocals] /\ DOMAIN epc = Procs
      OBVIOUS
    <3>2. ASSUME NEW p \in Procs, E!ParseRow(p) PROVE eloc'[q].reports = eloc[q].reports
      <4>1. p # q
        BY <1>4, <3>2 DEF E!ParseRow
      <4> QED BY <3>1, <3>2, <4>1 DEF E!ParseRow, ELocals
    <3>3. ASSUME NEW p \in Procs, E!WriteReport(p) PROVE eloc'[q].reports = eloc[q].reports
      <4>1. p # q
        BY <1>4, <3>1, <3>3 DEF E!WriteReport
      <4> QED BY <3>1, <3>3, <4>1 DEF E!WriteReport, ELocals
    <3>4. ASSUME NEW p \in Procs, E!Select(p) PROVE eloc'[q].reports = eloc[q].reports
      <4> DEFINE l == [eloc[p] EXCEPT !.cases = @ \cap E!Selected]
      <4>1. eloc' = [eloc EXCEPT ![p] = l]
        BY <3>4 DEF E!Select
      <4>2. l.reports = eloc[p].reports
        BY <3>1 DEF ELocals
      <4> HIDE DEF l
      <4> QED BY <3>1, <4>1, <4>2
    <3>5. ASSUME NEW p \in Procs, E!OpenCase(p) PROVE eloc'[q].reports = eloc[q].reports
      <4> DEFINE l == [eloc[p] EXCEPT !.seen = E!Blank]
      <4>1. eloc' = [eloc EXCEPT ![p] = l]
        BY <3>5 DEF E!OpenCase
      <4>2. l.reports = eloc[p].reports
        BY <3>1 DEF ELocals
      <4> HIDE DEF l
      <4> QED BY <3>1, <4>1, <4>2
    <3>6. ASSUME NEW p \in Procs, E!CaseRaises(p) PROVE eloc'[q].reports = eloc[q].reports
      <4> DEFINE l == [eloc[p] EXCEPT !.seen = E!Spoiled(@)]
      <4>1. eloc' = [eloc EXCEPT ![p] = l]
        BY <3>6 DEF E!CaseRaises
      <4>2. l.reports = eloc[p].reports
        BY <3>1 DEF ELocals
      <4> HIDE DEF l
      <4> QED BY <3>1, <4>1, <4>2
    <3>7. ASSUME NEW p \in Procs, NEW shows \in SUBSET E!Shown, E!Execute(p, shows) PROVE eloc'[q].reports = eloc[q].reports
      <4> DEFINE l == [eloc[p] EXCEPT !.seen = [@ EXCEPT !.shows = shows]]
      <4>1. eloc' = [eloc EXCEPT ![p] = l]
        BY <3>7 DEF E!Execute
      <4>2. l.reports = eloc[p].reports
        BY <3>1 DEF ELocals
      <4> HIDE DEF l
      <4> QED BY <3>1, <4>1, <4>2
    <3>8. ASSUME NEW p \in Procs, NEW status, E!Judge(p, status) PROVE eloc'[q].reports = eloc[q].reports
      <4> DEFINE l == [eloc[p] EXCEPT !.seen = [@ EXCEPT !.oracle = status]]
      <4>1. eloc' = [eloc EXCEPT ![p] = l]
        BY <3>8 DEF E!Judge
      <4>2. l.reports = eloc[p].reports
        BY <3>1 DEF ELocals
      <4> HIDE DEF l
      <4> QED BY <3>1, <4>1, <4>2
    <3>9. ASSUME NEW p \in Procs,
                 \/ E!Begins(p) \/ E!Observe(p) \/ E!Summarise(p) \/ E!Diagnose(p) \/ E!Dies(p)
                 \/ UNCHANGED E!evvars
          PROVE  eloc'[q].reports = eloc[q].reports
      BY <3>9 DEF E!Begins, E!Observe, E!Summarise, E!Diagnose, E!Dies, E!evvars
    <3> QED BY <3>2, <3>3, <3>4, <3>5, <3>6, <3>7, <3>8, <3>9 DEF E!Next
  <2>2. epc[q] \in {"new", "ended", "parse", "diagnose"} \cup Working
    BY DEF EInv, ETypes
  <2>3. Len(eloc[q].reports) <= Len(E!Rows)
    <3>1. CASE epc[q] \in {"new", "ended"}
      BY <3>1 DEF EMore
    <3>2. CASE epc[q] \in {"parse", "diagnose"} \cup Working
      BY <3>2, ReportsAreFew
    <3> QED BY <2>2, <3>1, <3>2
  <2> QED BY <2>1, <2>3
<1> QED BY <1>2, <1>3, <1>4 DEF EMore

LEMMA ETypesAreOK == EInv /\ EMore => E!TypeOK
<1> SUFFICES ASSUME EInv, EMore PROVE E!TypeOK
  OBVIOUS
<1>1. \A n \in E!Names :
        /\ reported[n] # Unset => used /\ reported[n].run \in Procs /\ reported[n].stage \in E!Stages
        /\ observed[n] # Unset => observed[n].run \in Procs
  BY DEF EInv, ETypes, InUse
<1>2. ASSUME NEW p \in Procs
      PROVE  /\ epc[p] \in {"new", "parse", "cases", "execute", "oracle", "observe",
                            "handled", "report", "last_report", "diagnose", "ended"}
             /\ epc[p] = "execute" => eloc[p].seen = E!Blank
             /\ Len(eloc[p].reports) <= Len(E!Rows)
  <2>1. epc[p] \in {"new", "ended", "parse", "diagnose"} \cup Working
    BY DEF EInv, ETypes
  <2> QED BY <2>1, ReportsAreFew DEF EInv, EMore, CaseIs, Working, InCase
<1> QED BY <1>1, <1>2 DEF EInv, ETypes, EMore, E!TypeOK

\* What each component's types rest on.
TInv == /\ WInv /\ NInv /\ SInv /\ OInv /\ MAll /\ EInv /\ BP!IInv
        /\ OMore /\ MMore /\ EMore /\ BMore

LEMMA NTypesAreOK == NInv => N!TypeOK
<1> SUFFICES ASSUME NInv PROVE N!TypeOK
  OBVIOUS
<1>1. ASSUME NEW t \in N!Tasks
      PROVE  /\ raw[t] \in N!Packets \cup {None, HalfMade} /\ digest[t] \in N!Packets \cup {None}
             /\ proposal[t] \in N!Proposals \cup {None} /\ rejected[t] \in N!Proposals \cup {None}
  BY DEF NInv, NTypes
<1>2. \A x \in N!Proposals : x.status \in {"pending", "approved", "rejected"} /\ x.text \in BOOLEAN
  BY DEF N!Proposals
<1> QED BY <1>1, <1>2 DEF NInv, NTypes, N!TypeOK

LEMMA STypesAreOK == SInv => S!TypeOK
<1> SUFFICES ASSUME SInv PROVE S!TypeOK
  OBVIOUS
<1>1. \A s \in Studies : studies[s] \in SRows \cup {NoStudy}
  BY DEF SInv, STypes
<1>2. \A r \in S!Known : r.line \in Lines /\ r.target \in Targets /\ r.frozen \in [S!Fields -> 1 .. 2]
  BY <1>1 DEF S!Known, SRows, Frozen
<1> QED BY <1>2 DEF SInv, STypes, S!TypeOK

\* Every value of a service stays in its type, and the bounds hold that the code
\* sets: the attempts of a request, the calls of its grant, the backlog of the
\* broker, one result for each command, one report for each row; and a request
\* that one driver advances is checked no more often than its retries explain
\* (advance, verify, start_writer, run_command_specs, run_eval).
THEOREM ServicesTypesAreOK == Spec => []TypeOK
<1>1. Init => TInv
  BY WInit, NInit, SInit, OInit, MInit, EInit, SoleInit, MMoreInit, EMoreInit, BMoreInit,
     BrokerConstants, SameBroker, BP!InitIInv DEF Init, TInv
<1>2. TInv /\ [Next]_vars => TInv'
  <2> SUFFICES ASSUME TInv, [Next]_vars PROVE TInv'
    OBVIOUS
  <2>1. WInv' /\ NInv' /\ SInv'
    BY Steps, WStep, NStep, SStep DEF TInv
  <2>2. OInv' /\ MAll' /\ EInv' /\ BP!IInv'
    BY Steps, OStep, MStep, EStep, BrokerConstants, BrokerSteps, BP!NextIInv DEF TInv
  <2>3. OMore' /\ MMore' /\ EMore' /\ BMore'
    BY Steps, BrokerSteps, OMoreStep, MMoreStep, EMoreStep, BMoreStep DEF TInv, MAll
  <2> QED BY <2>1, <2>2, <2>3 DEF TInv
<1>3. TInv => TypeOK
  BY NTypesAreOK, STypesAreOK, OTypesAreOK, MTypesAreOK, ETypesAreOK, BTypesAreOK
     DEF TInv, WInv, WTypes, TypeOK
<1> QED BY <1>1, <1>2, <1>3, PTL DEF Spec
=============================================================================
