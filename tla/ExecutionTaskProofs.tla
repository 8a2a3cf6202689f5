-------------------------- MODULE ExecutionTaskProofs --------------------------
(***************************************************************************)
(* Proofs about ExecutionTask: the types for any commands, and that what   *)
(* the human reviews is verified and quiet when one runner and one human   *)
(* work on the task, with crashes and raising backends, commands beside    *)
(* the run or archives; both together, two humans or two runners break it. *)
(***************************************************************************)
EXTENDS ExecutionTask, TLAPS

\* One runner, one human, who does not archive while the runner is at work.
OneOfEach ==
  /\ \A r, q \in Runners : r = q
  /\ \A h, k \in Humans : h = k
  /\ \A g \in Regimes : ~ ("overlap" \in g.faults /\ g.archives)

Running == {"save", "writer", "verify", "evidence", "evaluate"}
Writing == {"write", "deploy"}

\* The commands that have a record to write back have a record of the task.
Holding(p) == pc[p] \in Running \cup Writing

Copies ==
  /\ \A p \in Procs : Holding(p) => loc[p].rec \in Records
  /\ \A p \in Procs : pc[p] = "save" => loc[p].next \in States
  /\ \A p \in Procs : pc[p] \in {"mark", "move"} => loc[p].place \in Results
  /\ \A r \in Runners : pc[r] \in {"idle"} \cup Running
  /\ \A h \in Humans : pc[h] \in {"idle", "mark", "move"} \cup Writing

Types == regime \in Regimes /\ TypeOK /\ Copies

-----------------------------------------------------------------------------
(* Where the task is.                                                      *)

\* The task is in one directory, whose record says so.
Settled(x) ==
  /\ home[x].rec # NoRecord /\ Place(home[x].rec) = x
  /\ \A y \in Places \ {x} : home[y].dir = "none"

\* The task is marked and not yet moved, or never will be.
Leaving ==
  /\ home["active"].rec # NoRecord
  /\ home["active"].rec.state = "archived" /\ home["active"].rec.result \in Results
  /\ \A x \in Results \ {home["active"].rec.result} : home[x].dir = "none"

\* Who works on the task has a copy of the record that knows where it is.
AtHome ==
  \A x \in Places : Settled(x) =>
    /\ \A p \in Procs : Holding(p) => Place(loc[p].rec) = x
    /\ \A r \in Runners : pc[r] \in Running /\ ~ (pc[r] = "save" /\ loc[r].next = "writing")
         => loc[r].place = x

\* A task is marked between runs, and nobody runs it from then on.
Moves ==
  /\ Leaving => /\ \A r \in Runners : pc[r] = "idle"
                /\ \A h \in Humans : pc[h] \in {"idle", "write", "move"}
                /\ \A h \in Humans : pc[h] = "write" =>
                     /\ loc[h].rec.result = home["active"].rec.result
                     /\ loc[h].rec.state \notin Reviewed
  /\ \A h \in Humans : pc[h] = "move" =>
       /\ Leaving /\ loc[h].place = home["active"].rec.result
       /\ home[loc[h].place].dir = "none"
  /\ \A h \in Humans : pc[h] = "mark" =>
       /\ regime.archives
       /\ Settled("active") => /\ home["active"].rec.state \notin Runnable
                               /\ \A r \in Runners : pc[r] = "idle"

Whereabouts == ((\E x \in Places : Settled(x)) \/ Leaving) /\ AtHome /\ Moves

-----------------------------------------------------------------------------
(* What the run has shown.                                                 *)

Passed == evidence.passed /\ evidence.tested = content /\ evidence.diff = content

\* What the runner knows at each step is about the worktree as it is.
Shows(r) ==
  /\ pc[r] = "evidence" => loc[r].tested = content
  /\ pc[r] = "save" /\ loc[r].next = "evaluating" => Passed /\ loc[r].tested = content
  /\ pc[r] = "evaluate" => Passed /\ loc[r].tested = content
  /\ pc[r] = "save" /\ loc[r].next \in Reviewed => Passed /\ evidence.reviewed = content

\* A human who is about to write a reviewed state loaded one.
Decides(h) ==
  pc[h] = "deploy" \/ (pc[h] = "write" /\ loc[h].rec.state \in Reviewed) =>
    \A rec \in Loads : rec.state \in Reviewed

Reviews == /\ \A r \in Runners : Shows(r)
           /\ \A h \in Humans : Decides(h)
           /\ ReviewStands

IInv == Types /\ Whereabouts /\ Reviews

-----------------------------------------------------------------------------
(* Types.                                                                  *)

Labels == {"idle"} \cup Running \cup Writing \cup {"mark", "move"}
Memories == [rec : Records \cup {NoRecord}, place : Places, next : States \cup {"none"},
             tested : 0 .. MaxRuns, passed : BOOLEAN]
Homes == [Places -> [dir : {"none", "bare", "full"}, rec : Records \cup {NoRecord}]]
Findings == [tested : 0 .. MaxRuns, passed : BOOLEAN, diff : 0 .. MaxRuns,
             reviewed : 0 .. MaxRuns]

\* A label goes with what its step needs, and with the kind of command.
Suits(p, label, memory) ==
  /\ memory \in Memories
  /\ label \in Running \cup Writing => memory.rec \in Records
  /\ label = "save" => memory.next \in States
  /\ label \in {"mark", "move"} => memory.place \in Results
  /\ \/ p \in Runners /\ label \in {"idle"} \cup Running
     \/ p \in Humans /\ label \in {"idle", "mark", "move"} \cup Writing

LEMMA TypeParts ==
  ASSUME Types
  PROVE  /\ home \in Homes /\ content \in 0 .. MaxRuns /\ evidence \in Findings
         /\ pc \in [Procs -> Labels] /\ loc \in [Procs -> Memories]
         /\ \A x \in Places : home[x].dir = "none" => home[x].rec = NoRecord
         /\ \A x \in Places : home[x].rec # NoRecord => home[x].rec \in Records
BY DEF Types, TypeOK, Homes, Findings, Labels, Memories, Running, Writing

\* The types of the next state, from those of its parts.
LEMMA TypesNext ==
  ASSUME regime' \in Regimes, Copies',
         home' \in Homes, content' \in 0 .. MaxRuns, evidence' \in Findings,
         pc' \in [Procs -> Labels], loc' \in [Procs -> Memories],
         \A x \in Places : (home[x].dir = "none" => home[x].rec = NoRecord)'
  PROVE  Types'
BY DEF Types, TypeOK, Homes, Findings, Labels, Memories, Running, Writing

\* Everything but the commands.
Stores == <<regime, home, content, evidence>>

LEMMA GotoIs ==
  ASSUME Types, NEW p \in Procs, NEW label, NEW memory, Goto(p, label, memory)
  PROVE  /\ pc'[p] = label /\ loc'[p] = memory
         /\ \A q \in Procs \ {p} : pc'[q] = pc[q] /\ loc'[q] = loc[q]
BY TypeParts DEF Goto

LEMMA GotoTypes ==
  ASSUME Types, NEW p \in Procs, NEW label, NEW memory, Goto(p, label, memory),
         Suits(p, label, memory)
  PROVE  pc' \in [Procs -> Labels] /\ loc' \in [Procs -> Memories] /\ Copies'
<1>1. label \in Labels /\ memory \in Memories
  BY DEF Suits, Labels, Running, Writing
<1>2. pc' \in [Procs -> Labels] /\ loc' \in [Procs -> Memories]
  BY <1>1, TypeParts DEF Goto
<1>3. /\ pc'[p] = label /\ loc'[p] = memory
      /\ \A q \in Procs \ {p} : pc'[q] = pc[q] /\ loc'[q] = loc[q]
  BY GotoIs
<1>4. Runners \subseteq Procs /\ Humans \subseteq Procs /\ Runners \cap Humans = {}
  BY TaskAssumption DEF Procs
<1>5. Copies'
  BY <1>3, <1>4 DEF Types, Copies, Holding, Suits, Running, Writing
<1> QED BY <1>2, <1>5

LEMMA NothingSuits ==
  ASSUME NEW p \in Procs
  PROVE  Suits(p, "idle", Nothing)
BY TaskAssumption DEF Suits, Memories, Nothing, Places, Procs, Running, Writing

\* A command that returns leaves the others as they are.
LEMMA FinishTypes ==
  ASSUME Types, NEW p \in Procs, Finish(p)
  PROVE  pc' \in [Procs -> Labels] /\ loc' \in [Procs -> Memories] /\ Copies'
BY NothingSuits, GotoTypes DEF Finish

\* A step that only moves a command.
LEMMA OnlyMoves ==
  ASSUME Types, UNCHANGED Stores, NEW p \in Procs, NEW label, NEW memory,
         Goto(p, label, memory), Suits(p, label, memory)
  PROVE  Types'
<1>1. pc' \in [Procs -> Labels] /\ loc' \in [Procs -> Memories] /\ Copies'
  BY GotoTypes
<1> QED BY <1>1, TypeParts, TypesNext DEF Stores, Types

LEMMA PlaceIs ==
  ASSUME NEW rec \in Records
  PROVE  Place(rec) \in Places
BY DEF Place, Places, Records

LEMMA SavedIs ==
  ASSUME Types, NEW rec \in Records, home' = Saved(rec)
  PROVE  /\ home' \in Homes
         /\ \A x \in Places : (home[x].dir = "none" => home[x].rec = NoRecord)'
         /\ home'[Place(rec)].rec = rec /\ home'[Place(rec)].dir # "none"
         /\ \A x \in Places \ {Place(rec)} : home'[x] = home[x]
<1>1. PICK place : place = Place(rec)
  OBVIOUS
<1>2. place \in Places
  BY <1>1, PlaceIs
<1>3. home' = [home EXCEPT ![place] = [dir |-> Kept(home[place].dir), rec |-> rec]]
  BY <1>1 DEF Saved
<1>4. Kept(home[place].dir) \in {"bare", "full"}
  BY <1>2, TypeParts DEF Kept, Homes
<1>5. [dir |-> Kept(home[place].dir), rec |-> rec]
        \in [dir : {"none", "bare", "full"}, rec : Records \cup {NoRecord}]
  BY <1>4
<1>6. /\ home'[place] = [dir |-> Kept(home[place].dir), rec |-> rec]
      /\ \A x \in Places \ {place} : home'[x] = home[x]
      /\ home' \in Homes
  BY <1>2, <1>3, <1>5, TypeParts DEF Homes
<1> QED BY <1>1, <1>2, <1>4, <1>6, TypeParts

\* What a command loads is a record of the task.
LEMMA LoadsAre ==
  ASSUME Types
  PROVE  Loads \subseteq Records /\ Found(home) \subseteq Places
<1>1. Found(home) \subseteq Places
  BY DEF Found, Places
<1> QED BY <1>1, TypeParts DEF Loads

LEMMA InitTypes == Init => Types
<1> SUFFICES ASSUME Init PROVE Types
  OBVIOUS
<1>1. Nothing \in Memories /\ "active" \in Places
  BY TaskAssumption DEF Nothing, Memories, Places
<1>2. pc = [p \in Procs |-> "idle"] /\ loc = [p \in Procs |-> Nothing]
  BY DEF Init
<1>3. Copies
  BY <1>2 DEF Copies, Holding, Running, Writing, Procs
<1>4. home \in Homes /\ \A x \in Places : home[x].dir = "none" => home[x].rec = NoRecord
  <2>1. [state |-> "ready", result |-> "none"] \in Records
    BY DEF Records, States, Runnable
  <2> QED BY <2>1 DEF Init, Homes, Absent
<1>5. content \in 0 .. MaxRuns /\ evidence \in Findings
  BY TaskAssumption DEF Init, Findings
<1> QED BY <1>1, <1>2, <1>3, <1>4, <1>5
        DEF Types, TypeOK, Init, Homes, Findings, Memories, Running, Writing

LEMMA WithState ==
  ASSUME NEW rec \in Records, NEW s \in States
  PROVE  /\ [rec EXCEPT !.state = s] \in Records
         /\ [rec EXCEPT !.state = s].state = s
         /\ [rec EXCEPT !.state = s].result = rec.result
         /\ Place([rec EXCEPT !.state = s]) = Place(rec)
BY DEF Records, Place

\* What a change of some of its fields makes of a memory.
LEMMA WithNext ==
  ASSUME NEW m \in Memories, NEW s \in States
  PROVE  LET n == [m EXCEPT !.next = s] IN
         /\ n \in Memories
         /\ n.next = s
         /\ n.rec = m.rec
         /\ n.place = m.place
         /\ n.tested = m.tested
BY DEF Memories

LEMMA WithRec ==
  ASSUME NEW m \in Memories, NEW rec \in Records
  PROVE  LET n == [m EXCEPT !.rec = rec] IN
         /\ n \in Memories
         /\ n.rec = rec
         /\ n.next = m.next
         /\ n.place = m.place
         /\ n.tested = m.tested
BY DEF Memories

LEMMA WithPlace ==
  ASSUME NEW m \in Memories, NEW x \in Places
  PROVE  LET n == [m EXCEPT !.place = x] IN
         /\ n \in Memories
         /\ n.place = x
         /\ n.rec = m.rec
BY DEF Memories

\* The memory of a command that has just loaded a record.
LEMMA Loaded ==
  ASSUME NEW rec \in Records, NEW s \in States
  PROVE  /\ [Nothing EXCEPT !.rec = rec] \in Memories
         /\ [Nothing EXCEPT !.rec = rec].rec = rec
         /\ [Nothing EXCEPT !.rec = rec, !.next = s] \in Memories
         /\ [Nothing EXCEPT !.rec = rec, !.next = s].rec = rec
         /\ [Nothing EXCEPT !.rec = rec, !.next = s].next = s
<1>1. Nothing \in Memories
  BY TaskAssumption DEF Nothing, Memories, Places
<1>2. PICK m \in Memories : m = Nothing
  BY <1>1
<1>3. LET n == [m EXCEPT !.rec = rec, !.next = s] IN
      n \in Memories /\ n.rec = rec /\ n.next = s
  BY DEF Memories
<1>4. [m EXCEPT !.rec = rec] \in Memories /\ [m EXCEPT !.rec = rec].rec = rec
  BY WithRec
<1> QED BY <1>2, <1>3, <1>4

LEMMA RunTypes ==
  ASSUME Types, NEW r \in Runners, Run(r), regime' = regime
  PROVE  Types'
<1>1. PICK rec \in Loads : Goto(r, "save", [Nothing EXCEPT !.rec = rec, !.next = "writing"])
  BY DEF Run
<1>2. rec \in Records /\ "writing" \in States /\ r \in Procs
  BY <1>1, LoadsAre DEF States, InFlight, Procs
<1>3. Suits(r, "save", [Nothing EXCEPT !.rec = rec, !.next = "writing"])
  BY <1>2, Loaded DEF Suits, Running, Writing
<1> QED BY <1>1, <1>2, <1>3, OnlyMoves DEF Run, Stores

LEMMA SaveStateTypes ==
  ASSUME Types, NEW r \in Runners, SaveState(r), regime' = regime
  PROVE  Types'
<1> DEFINE rec == [loc[r].rec EXCEPT !.state = loc[r].next]
<1>1. /\ pc[r] = "save" /\ r \in Procs
      /\ loc[r] \in Memories /\ loc[r].rec \in Records /\ loc[r].next \in States
  BY TypeParts DEF SaveState, Types, Copies, Holding, Running, Procs
<1>2. rec \in Records
  BY <1>1, WithState
<1>3. home' = Saved(rec) /\ UNCHANGED <<content, evidence>>
  BY DEF SaveState
<1>4. PICK place \in Found(home') :
        \/ Goto(r, "writer", [loc[r] EXCEPT !.rec = rec, !.place = place])
        \/ \E label \in {"verify", "evaluate"} : Goto(r, label, [loc[r] EXCEPT !.rec = rec])
        \/ Finish(r)
  BY DEF SaveState
<1> HIDE DEF rec
<1>5. home' \in Homes /\ \A x \in Places : (home[x].dir = "none" => home[x].rec = NoRecord)'
  BY <1>2, <1>3, SavedIs
<1>6. place \in Places
  BY <1>4 DEF Found, Places
<1>7. pc' \in [Procs -> Labels] /\ loc' \in [Procs -> Memories] /\ Copies'
  <2>1. CASE Goto(r, "writer", [loc[r] EXCEPT !.rec = rec, !.place = place])
    <3>1. Suits(r, "writer", [loc[r] EXCEPT !.rec = rec, !.place = place])
      <4>1. PICK m \in Memories, d \in Records, x \in Places :
              m = loc[r] /\ d = rec /\ x = place
        BY <1>1, <1>2, <1>6
      <4>2. [m EXCEPT !.rec = d, !.place = x] \in Memories
            /\ [m EXCEPT !.rec = d, !.place = x].rec = d
        BY DEF Memories
      <4> QED BY <4>1, <4>2 DEF Suits, Running, Writing
    <3> QED BY <1>1, <2>1, <3>1, GotoTypes
  <2>2. ASSUME NEW label \in {"verify", "evaluate"}, Goto(r, label, [loc[r] EXCEPT !.rec = rec])
        PROVE  pc' \in [Procs -> Labels] /\ loc' \in [Procs -> Memories] /\ Copies'
    <3>1. Suits(r, label, [loc[r] EXCEPT !.rec = rec])
      BY <1>1, <1>2, WithRec DEF Suits, Running, Writing
    <3> QED BY <1>1, <2>2, <3>1, GotoTypes
  <2> QED BY <1>1, <1>4, <2>1, <2>2, FinishTypes
<1> QED BY <1>3, <1>5, <1>7, TypeParts, TypesNext DEF Types

\* The runner goes on with another label, the same record and place.
LEMMA GoesOn ==
  ASSUME Types, NEW r \in Runners, Holding(r), NEW s \in States,
         Goto(r, "save", [loc[r] EXCEPT !.next = s])
  PROVE  pc' \in [Procs -> Labels] /\ loc' \in [Procs -> Memories] /\ Copies'
<1>1. r \in Procs /\ loc[r] \in Memories /\ loc[r].rec \in Records
  BY TypeParts DEF Procs, Types, Copies
<1>2. Suits(r, "save", [loc[r] EXCEPT !.next = s])
  BY <1>1, WithNext DEF Suits, Running, Writing
<1> QED BY <1>1, <1>2, GotoTypes

LEMMA WriterTypes ==
  ASSUME Types, NEW r \in Runners, WriterReturns(r), regime' = regime
  PROVE  Types'
<1>1. /\ Holding(r) /\ r \in Procs /\ content' = content + 1 /\ content < MaxRuns
      /\ UNCHANGED <<home, evidence>>
      /\ Goto(r, "save", [loc[r] EXCEPT !.next = "verifying"]) \/ Finish(r)
  BY DEF WriterReturns, Holding, Running, Procs
<1>2. "verifying" \in States
  BY DEF States, InFlight
<1>3. pc' \in [Procs -> Labels] /\ loc' \in [Procs -> Memories] /\ Copies'
  BY <1>1, <1>2, GoesOn, FinishTypes
<1>4. content' \in 0 .. MaxRuns
  BY <1>1, TypeParts, TaskAssumption
<1> QED BY <1>1, <1>3, <1>4, TypeParts, TypesNext DEF Types

LEMMA VerifyTypes ==
  ASSUME Types, NEW r \in Runners, NEW passed \in BOOLEAN, Verify(r, passed), regime' = regime
  PROVE  Types'
<1>1. r \in Procs /\ loc[r] \in Memories /\ loc[r].rec \in Records /\ content \in 0 .. MaxRuns
  BY TypeParts DEF Verify, Types, Copies, Holding, Running, Procs
<1>2. Suits(r, "evidence", [loc[r] EXCEPT !.tested = content, !.passed = passed])
  <2>1. PICK m \in Memories, k \in 0 .. MaxRuns : m = loc[r] /\ k = content
    BY <1>1
  <2>2. [m EXCEPT !.tested = k, !.passed = passed] \in Memories
        /\ [m EXCEPT !.tested = k, !.passed = passed].rec = m.rec
    BY DEF Memories
  <2> QED BY <1>1, <2>1, <2>2 DEF Suits, Running, Writing
<1> QED BY <1>1, <1>2, OnlyMoves DEF Verify, Stores

LEMMA EvidenceTypes ==
  ASSUME Types, NEW r \in Runners, SaveEvidence(r), regime' = regime
  PROVE  Types'
<1>1. /\ Holding(r) /\ r \in Procs /\ loc[r] \in Memories /\ UNCHANGED content
      /\ Goto(r, "save", [loc[r] EXCEPT !.next = Verdict(r)])
  BY TypeParts DEF SaveEvidence, Holding, Running, Procs
<1>2. Verdict(r) \in States
  BY DEF Verdict, States, InFlight, Runnable
<1>3. pc' \in [Procs -> Labels] /\ loc' \in [Procs -> Memories] /\ Copies'
  BY <1>1, <1>2, GoesOn
<1>4. evidence' \in Findings
  BY <1>1, TypeParts DEF SaveEvidence, Findings, Memories
<1>5. home' \in Homes /\ \A x \in Places : (home[x].dir = "none" => home[x].rec = NoRecord)'
  <2>1. PICK place \in Places : place = loc[r].place
    BY <1>1 DEF Memories
  <2>2. home' = [home EXCEPT ![place] = [dir |-> Kept(home[place].dir), rec |-> home[place].rec]]
    BY <2>1 DEF SaveEvidence
  <2>3. Kept(home[place].dir) \in {"bare", "full"} /\ home[place].rec \in Records \cup {NoRecord}
    BY TypeParts DEF Kept, Homes
  <2> QED BY <2>2, <2>3, TypeParts DEF Homes
<1> QED BY <1>1, <1>3, <1>4, <1>5, TypeParts, TypesNext DEF Types

LEMMA EvaluateTypes ==
  ASSUME Types, NEW r \in Runners, NEW decision, Evaluate(r, decision), regime' = regime
  PROVE  Types'
<1>1. /\ Holding(r) /\ r \in Procs /\ loc[r] \in Memories /\ UNCHANGED <<home, content>>
      /\ \/ \E s \in {"waiting_human_ppe_approval", "blocked", "writer_rework_required"} :
              Goto(r, "save", [loc[r] EXCEPT !.next = s])
         \/ Finish(r)
  BY TypeParts DEF Evaluate, Holding, Running, Procs
<1>2. {"waiting_human_ppe_approval", "blocked", "writer_rework_required"} \subseteq States
  BY DEF States, Reviewed, Runnable
<1>3. pc' \in [Procs -> Labels] /\ loc' \in [Procs -> Memories] /\ Copies'
  BY <1>1, <1>2, GoesOn, FinishTypes
<1>4. evidence' \in Findings
  BY <1>1, TypeParts DEF Evaluate, Findings, Memories
<1> QED BY <1>1, <1>3, <1>4, TypeParts, TypesNext DEF Types

LEMMA HoldsSuits ==
  ASSUME NEW h \in Humans, NEW rec \in Records, NEW label \in Writing
  PROVE  Suits(h, label, [Nothing EXCEPT !.rec = rec])
<1>1. "ready" \in States
  BY DEF States, Runnable
<1> QED BY <1>1, Loaded DEF Suits, Running, Writing

\* A command of the human that loads a record and will write it.
Takes(h) ==
  \E rec \in Loads, label \in Writing, s \in States :
    Goto(h, label, [Nothing EXCEPT !.rec = [rec EXCEPT !.state = s]])

LEMMA TakesTypes ==
  ASSUME Types, NEW h \in Humans, Takes(h), UNCHANGED Stores
  PROVE  Types'
<1>1. PICK rec \in Loads, label \in Writing, s \in States :
        Goto(h, label, [Nothing EXCEPT !.rec = [rec EXCEPT !.state = s]])
  BY DEF Takes
<1>2. [rec EXCEPT !.state = s] \in Records
  BY LoadsAre, WithState
<1>3. PICK d \in Records : d = [rec EXCEPT !.state = s]
  BY <1>2
<1>4. Goto(h, label, [Nothing EXCEPT !.rec = d]) /\ Suits(h, label, [Nothing EXCEPT !.rec = d])
  BY <1>1, <1>3, HoldsSuits
<1> QED BY <1>4, OnlyMoves DEF Procs

LEMMA RecordIsItself ==
  ASSUME NEW rec \in Records
  PROVE  rec.state \in States /\ rec = [rec EXCEPT !.state = rec.state]
BY DEF Records

LEMMA TargetIsState == \A action \in DOMAIN Target : Target[action] \in States
BY DEF Target, States, Runnable, Reviewed

LEMMA CommandTakes ==
  ASSUME Types, NEW h \in Humans,
         \/ AddFeedback(h) \/ DeployPpe(h)
         \/ \E action \in DOMAIN Target : ApplyGate(h, action)
  PROVE  Takes(h) /\ UNCHANGED <<home, content, evidence>>
<1>1. CASE AddFeedback(h)
  <2>1. "feedback_available" \in States
    BY DEF States, Runnable
  <2> QED BY <1>1, <2>1 DEF AddFeedback, Holds, Takes, Writing
<1>2. CASE DeployPpe(h)
  <2>1. PICK rec \in Loads : Goto(h, "deploy", [Nothing EXCEPT !.rec = rec])
    BY <1>2 DEF DeployPpe
  <2>2. rec.state \in States /\ rec = [rec EXCEPT !.state = rec.state] /\ "deploy" \in Writing
    BY LoadsAre, RecordIsItself DEF Writing
  <2>3. \E s \in States : Goto(h, "deploy", [Nothing EXCEPT !.rec = [rec EXCEPT !.state = s]])
    BY <2>1, <2>2
  <2> QED BY <1>2, <2>2, <2>3 DEF Takes, DeployPpe
<1>3. ASSUME NEW action \in DOMAIN Target, ApplyGate(h, action)
      PROVE  Takes(h) /\ UNCHANGED <<home, content, evidence>>
  <2>1. Target[action] \in States /\ "write" \in Writing
    BY TargetIsState DEF Writing
  <2> QED BY <1>3, <2>1 DEF ApplyGate, Holds, Takes
<1> QED BY <1>1, <1>2, <1>3

LEMMA ArchiveTypes ==
  ASSUME Types, NEW h \in Humans, NEW result \in Results, Archive(h, result), regime' = regime
  PROVE  Types'
<1>1. [Nothing EXCEPT !.place = result] \in Memories
      /\ [Nothing EXCEPT !.place = result].place = result
  <2>1. Nothing \in Memories /\ result \in Places
    BY TaskAssumption DEF Nothing, Memories, Places
  <2> QED BY <2>1, WithPlace
<1>2. Suits(h, "mark", [Nothing EXCEPT !.place = result])
  BY <1>1 DEF Suits, Running, Writing
<1> QED BY <1>2, OnlyMoves DEF Archive, Stores, Procs

LEMMA DeployedTypes ==
  ASSUME Types, NEW h \in Humans, NEW outcome \in {"ppe_deployed", "blocked"},
         Deployed(h, outcome), regime' = regime
  PROVE  Types'
<1>1. loc[h].rec \in Records /\ outcome \in States
  BY DEF Deployed, Types, Copies, Holding, Writing, Procs, States, Reviewed
<1>2. PICK d \in Records : d = [loc[h].rec EXCEPT !.state = outcome]
  BY <1>1, WithState
<1>3. Goto(h, "write", [Nothing EXCEPT !.rec = d])
  BY <1>2 DEF Deployed, Holds
<1>4. Suits(h, "write", [Nothing EXCEPT !.rec = d])
  BY HoldsSuits DEF Writing
<1> QED BY <1>3, <1>4, OnlyMoves DEF Deployed, Stores, Procs

LEMMA WriteTypes ==
  ASSUME Types, NEW h \in Humans, Write(h), regime' = regime
  PROVE  Types'
<1>1. h \in Procs /\ loc[h].rec \in Records
  BY DEF Write, Types, Copies, Holding, Writing, Procs
<1>2. home' \in Homes /\ \A x \in Places : (home[x].dir = "none" => home[x].rec = NoRecord)'
  BY <1>1, SavedIs DEF Write
<1>3. pc' \in [Procs -> Labels] /\ loc' \in [Procs -> Memories] /\ Copies'
  BY <1>1, FinishTypes DEF Write
<1> QED BY <1>2, <1>3, TypeParts, TypesNext DEF Types, Write

\* A mark changes the record of the active directory, nothing else.
LEMMA MarkIs ==
  ASSUME Types, NEW h \in Humans, ArchiveMark(h)
  PROVE  \/ Finish(h) /\ UNCHANGED home
         \/ /\ home["active"].rec # NoRecord /\ home[loc[h].place].dir = "none"
            /\ Goto(h, "move", loc[h])
            /\ home' \in Homes
            /\ \A x \in Places \ {"active"} : home'[x] = home[x]
            /\ home'["active"].rec = [state |-> "archived", result |-> loc[h].place]
            /\ home'["active"].dir = home["active"].dir
<1>1. "active" \in Places /\ loc[h].place \in Results
  BY DEF Places, ArchiveMark, Types, Copies, Procs
<1>2. CASE Finish(h) /\ UNCHANGED home
  BY <1>2
<1>3. CASE /\ home["active"].rec # NoRecord /\ home[loc[h].place].dir = "none"
           /\ home' = [home EXCEPT !["active"].rec.state = "archived",
                                   !["active"].rec.result = loc[h].place]
           /\ Goto(h, "move", loc[h])
  <2>1. PICK place \in Results, rec \in Records, d \in {"none", "bare", "full"} :
          place = loc[h].place /\ d = home["active"].dir /\ rec = home["active"].rec
    BY <1>1, <1>3, TypeParts DEF Homes
  <2>2. home["active"] = [dir |-> d, rec |-> rec]
    BY <1>1, <2>1, TypeParts DEF Homes
  <2> DEFINE marked == [home EXCEPT !["active"].rec.state = "archived"]
  <2>3. /\ marked = [x \in Places |-> IF x = "active"
                     THEN [dir |-> d, rec |-> [rec EXCEPT !.state = "archived"]] ELSE home[x]]
        /\ [rec EXCEPT !.state = "archived"] = [state |-> "archived", result |-> rec.result]
    <3>1. PICK r2 : r2 = [rec EXCEPT !.state = "archived"]
      OBVIOUS
    <3>2. r2 = [state |-> "archived", result |-> rec.result]
      BY <3>1 DEF Records
    <3>3. [[dir |-> d, rec |-> rec] EXCEPT !.rec = r2] = [dir |-> d, rec |-> r2]
      OBVIOUS
    <3>4. marked = [home EXCEPT !["active"] = [[dir |-> d, rec |-> rec] EXCEPT !.rec = r2]]
      BY <2>1, <2>2, <3>1
    <3>5. home = [x \in Places |-> home[x]]
      BY TypeParts DEF Homes
    <3> HIDE DEF marked
    <3> QED BY <1>1, <3>1, <3>2, <3>3, <3>4, <3>5
  <2>4. home' = [marked EXCEPT !["active"].rec.result = place]
    BY <1>3, <2>1
  <2>5. home' = [x \in Places |-> IF x = "active"
                   THEN [dir |-> d, rec |-> [state |-> "archived", result |-> place]]
                   ELSE home[x]]
    <3> HIDE DEF marked
    <3> QED BY <1>1, <2>3, <2>4
  <2>6. [state |-> "archived", result |-> place] \in Records
    BY DEF Records, States
  <2>7. home' \in Homes
    BY <2>5, <2>6, TypeParts DEF Homes
  <2>8. /\ \A x \in Places \ {"active"} : home'[x] = home[x]
        /\ home'["active"].rec = [state |-> "archived", result |-> place]
        /\ home'["active"].dir = d
    BY <1>1, <2>5
  <2> QED BY <1>3, <2>1, <2>7, <2>8
<1> QED BY <1>2, <1>3 DEF ArchiveMark

LEMMA MarkTypes ==
  ASSUME Types, NEW h \in Humans, ArchiveMark(h), regime' = regime
  PROVE  Types'
<1>1. /\ h \in Procs /\ loc[h] \in Memories /\ loc[h].place \in Results
      /\ UNCHANGED <<content, evidence>>
  BY TypeParts DEF Procs, ArchiveMark, Types, Copies
<1>2. CASE Finish(h) /\ UNCHANGED home
  BY <1>1, <1>2, FinishTypes, TypeParts, TypesNext DEF Types
<1>3. CASE /\ Goto(h, "move", loc[h]) /\ home' \in Homes
           /\ home["active"].rec # NoRecord
           /\ \A x \in Places \ {"active"} : home'[x] = home[x]
           /\ home'["active"].dir = home["active"].dir
  <2>1. pc' \in [Procs -> Labels] /\ loc' \in [Procs -> Memories] /\ Copies'
    BY <1>1, <1>3, GotoTypes DEF Suits, Running, Writing
  <2>2. \A x \in Places : (home[x].dir = "none" => home[x].rec = NoRecord)'
    BY <1>3, TypeParts DEF Places
  <2> QED BY <1>1, <1>3, <2>1, <2>2, TypeParts, TypesNext DEF Types
<1> QED BY <1>2, <1>3, MarkIs

LEMMA MoveTypes ==
  ASSUME Types, NEW h \in Humans, ArchiveMove(h), regime' = regime
  PROVE  Types'
<1>1. h \in Procs /\ UNCHANGED <<content, evidence>> /\ "active" \in Places
  BY DEF Procs, ArchiveMove, Places
<1>2. home' = [x \in Places |->
        IF x = "active" THEN Absent
        ELSE IF x = loc[h].place /\ home[x].dir = "none" THEN home["active"] ELSE home[x]]
  BY DEF ArchiveMove
<1>3. home' \in Homes /\ \A x \in Places : (home[x].dir = "none" => home[x].rec = NoRecord)'
  BY <1>1, <1>2, TypeParts DEF Homes, Absent
<1>4. pc' \in [Procs -> Labels] /\ loc' \in [Procs -> Memories] /\ Copies'
  BY <1>1, FinishTypes DEF ArchiveMove
<1> QED BY <1>1, <1>3, <1>4, TypeParts, TypesNext DEF Types

LEMMA FaultTypes ==
  ASSUME Types, regime' = regime,
         (\E r \in Runners : BackendRaises(r)) \/ \E p \in Procs : Crash(p)
  PROVE  Types'
<1>1. PICK p \in Procs : Finish(p) /\ UNCHANGED <<home, evidence>>
        /\ content' \in {content, IF content < MaxRuns THEN content + 1 ELSE content}
  BY DEF BackendRaises, Crash, Procs
<1>2. pc' \in [Procs -> Labels] /\ loc' \in [Procs -> Memories] /\ Copies'
  BY <1>1, FinishTypes
<1>3. content' \in 0 .. MaxRuns
  BY <1>1, TypeParts, TaskAssumption
<1> QED BY <1>1, <1>2, <1>3, TypeParts, TypesNext DEF Types

LEMMA NextTypes == Types /\ [Next]_vars => Types'
<1> SUFFICES ASSUME Types, [Next]_vars PROVE Types'
  OBVIOUS
<1>1. CASE UNCHANGED vars
  BY <1>1 DEF vars, Types, TypeOK, Copies, Holding
<1>2. ASSUME NEW r \in Runners, Run(r) \/ RunnerStep(r), Next PROVE Types'
  BY <1>2, RunTypes, SaveStateTypes, WriterTypes, VerifyTypes, EvidenceTypes, EvaluateTypes
     DEF Next, RunnerStep
<1>3. ASSUME NEW h \in Humans, Command(h), regime' = regime PROVE Types'
  BY <1>3, CommandTakes, TakesTypes, ArchiveTypes DEF Command, Stores
<1>4. ASSUME NEW h \in Humans, HumanStep(h), regime' = regime PROVE Types'
  BY <1>4, DeployedTypes, WriteTypes, MarkTypes, MoveTypes DEF HumanStep
<1> QED BY <1>1, <1>2, <1>3, <1>4, FaultTypes DEF Next

LEMMA TypesAlways == Spec => []Types
BY InitTypes, NextTypes, PTL DEF Spec

\* Every directory is as the store can leave it, and every command remembers a
\* record of the task, with any runners and humans at the same time.
THEOREM TypesAreOK == Spec => []TypeOK
<1>1. Types => TypeOK
  BY DEF Types
<1> QED BY <1>1, TypesAlways, PTL

-----------------------------------------------------------------------------
(* Where the task is.                                                      *)

\* Directories of which one has a record and the others are absent.
LEMMA OnlyOneFound ==
  ASSUME NEW d \in Homes, \A y \in Places : d[y].dir = "none" => d[y].rec = NoRecord,
         NEW x \in Places, d[x].rec # NoRecord, \A y \in Places \ {x} : d[y].dir = "none"
  PROVE  Found(d) = {x} /\ d[x].dir # "none"
<1>1. d[x].dir # "none"
  OBVIOUS
<1>2. CASE x = "active"
  BY <1>1, <1>2 DEF Found
<1>3. CASE x \in Results /\ x # "active"
  <2>1. d["active"].dir = "none" /\ \A y \in Results \ {x} : d[y].rec = NoRecord
    BY <1>3 DEF Places
  <2> QED BY <1>3, <2>1 DEF Found
<1> QED BY <1>1, <1>2, <1>3 DEF Places

LEMMA SettledIs ==
  ASSUME Types, NEW x \in Places, Settled(x)
  PROVE  /\ home[x].dir # "none" /\ home[x].rec \in Records
         /\ Found(home) = {x} /\ Loads = {home[x].rec}
         /\ \A y \in Places : Settled(y) => y = x
         /\ ~ Leaving
<1>1. home[x].rec \in Records /\ Found(home) = {x} /\ home[x].dir # "none"
  BY TypeParts, OnlyOneFound DEF Settled
<1>2. Loads = {home[x].rec}
  BY <1>1, TaskAssumption DEF Loads
<1>3. ASSUME NEW y \in Places, Settled(y) PROVE y = x
  BY <1>3, TypeParts DEF Settled
<1>4. ~ Leaving
  BY TypeParts, TaskAssumption DEF Settled, Leaving, Place, Places
<1> QED BY <1>1, <1>2, <1>3, <1>4

LEMMA LeavingIs ==
  ASSUME Types, Leaving
  PROVE  /\ home["active"].dir # "none" /\ home["active"].rec \in Records
         /\ Found(home) = {"active"} /\ Loads = {home["active"].rec}
         /\ \A y \in Places : ~ Settled(y)
<1>1. home["active"].rec \in Records /\ home["active"].dir # "none"
  BY TypeParts DEF Leaving, Places
<1>2. Found(home) = {"active"}
  BY <1>1 DEF Found
<1>3. Loads = {home["active"].rec}
  BY <1>1, <1>2, TaskAssumption DEF Loads
<1> QED BY <1>1, <1>2, <1>3, SettledIs

\* A record that knows its place is saved in it.
LEMMA SavedKeeps ==
  ASSUME Types, NEW x \in Places, Settled(x), NEW rec \in Records, Place(rec) = x,
         home' = Saved(rec)
  PROVE  /\ Settled(x)' /\ ~ Leaving' /\ Found(home') = {x} /\ Loads' = {rec}
         /\ \A y \in Places : Settled(y)' => y = x
<1>1. /\ home' \in Homes
      /\ \A y \in Places : (home[y].dir = "none" => home[y].rec = NoRecord)'
      /\ home'[x].rec = rec /\ home'[x].dir # "none"
      /\ \A y \in Places \ {x} : home'[y] = home[y]
  BY SavedIs
<1>2. rec # NoRecord /\ \A y \in Places \ {x} : home'[y].dir = "none"
  BY <1>1, TaskAssumption DEF Settled
<1>3. Found(home') = {x}
  BY <1>1, <1>2, OnlyOneFound
<1>4. Loads' = {rec}
  BY <1>1, <1>2, <1>3 DEF Loads
<1>5. Settled(x)' /\ \A y \in Places : Settled(y)' => y = x
  BY <1>1, <1>2 DEF Settled
<1>6. ~ Leaving'
  BY <1>1, <1>2, TaskAssumption DEF Leaving, Place, Places
<1> QED BY <1>3, <1>4, <1>5, <1>6

\* Directories that stay as they are.
LEMMA SameHome ==
  ASSUME home' = home
  PROVE  /\ \A x \in Places : Settled(x)' <=> Settled(x)
         /\ Leaving' <=> Leaving
         /\ Loads' = Loads
BY DEF Settled, Leaving, Loads

LEMMA RunnerAtHome ==
  ASSUME Types, Whereabouts, NEW r \in Runners, pc[r] # "idle"
  PROVE  /\ ~ Leaving
         /\ \E x \in Places : Settled(x) /\ Place(loc[r].rec) = x
         /\ ~ \E h \in Humans : pc[h] = "move"
         /\ ~ (Settled("active") /\ \E h \in Humans : pc[h] = "mark")
<1>1. pc[r] \in Running /\ Holding(r) /\ r \in Procs
  BY DEF Types, Copies, Holding, Procs
<1> QED BY <1>1 DEF Whereabouts, AtHome, Moves

LEMMA RunWhere ==
  ASSUME Types, OneOfEach, Whereabouts, NEW r \in Runners, Run(r), regime' = regime
  PROVE  Whereabouts'
<1>1. PICK rec \in Loads :
        /\ rec.state \in Runnable
        /\ Goto(r, "save", [Nothing EXCEPT !.rec = rec, !.next = "writing"])
  BY DEF Run
<1>2. home' = home /\ r \in Procs /\ "writing" \in States
  BY DEF Run, Procs, States, InFlight
<1>3. pc'[r] = "save" /\ loc'[r].rec = rec /\ loc'[r].next = "writing"
      /\ \A q \in Procs \ {r} : pc'[q] = pc[q] /\ loc'[q] = loc[q]
  <2>1. PICK m : m = [Nothing EXCEPT !.rec = rec, !.next = "writing"]
    OBVIOUS
  <2>2. m.rec = rec /\ m.next = "writing"
    BY <2>1 DEF Nothing
  <2>3. Goto(r, "save", m)
    BY <1>1, <2>1
  <2> QED BY <1>2, <2>2, <2>3, GotoIs
<1>4. ~ Leaving
  BY <1>1, LeavingIs DEF Runnable, Leaving
<1>5. PICK x \in Places : Settled(x)
  BY <1>4 DEF Whereabouts
<1>6. rec = home[x].rec /\ \A y \in Places : Settled(y) => y = x
  BY <1>1, <1>5, SettledIs
<1>7. AtHome'
  <2>1. \A q \in Procs : Holding(q)' => Place(loc'[q].rec) = x
    BY <1>3, <1>5, <1>6 DEF Whereabouts, AtHome, Holding, Settled
  <2>2. \A q \in Runners : pc'[q] \in Running /\ ~ (pc'[q] = "save" /\ loc'[q].next = "writing")
          => loc'[q].place = x
    BY <1>3, <1>5 DEF Whereabouts, AtHome, Procs
  <2> QED BY <1>2, <1>6, <2>1, <2>2, SameHome DEF AtHome
<1>8. Moves'
  <2>1. \A h \in Humans : pc'[h] = pc[h] /\ loc'[h] = loc[h]
    BY <1>3, TaskAssumption DEF Procs
  <2>2. \A h \in Humans : pc[h] # "move"
    BY <1>4 DEF Whereabouts, Moves
  <2>3. \A h \in Humans : pc[h] = "mark" => ~ Settled("active")
    BY <1>1, <1>5, <1>6 DEF Whereabouts, Moves, Places
  <2> QED BY <1>2, <1>4, <2>1, <2>2, <2>3, SameHome DEF Moves, Whereabouts, Places
<1> QED BY <1>2, <1>5, <1>7, <1>8, SameHome DEF Whereabouts

\* A command that returns, or dies, leaves the task where it is.
LEMMA StopWhere ==
  ASSUME Types, Whereabouts, NEW p \in Procs, Finish(p), UNCHANGED <<regime, home>>
  PROVE  Whereabouts'
<1>1. pc'[p] = "idle" /\ \A q \in Procs \ {p} : pc'[q] = pc[q] /\ loc'[q] = loc[q]
  BY GotoIs DEF Finish
<1>2. AtHome'
  BY <1>1, SameHome DEF Whereabouts, AtHome, Holding, Running, Writing, Procs
<1>3. Moves'
  <2>1. \A h \in Humans : (pc'[h] = "idle" \/ (pc'[h] = pc[h] /\ loc'[h] = loc[h]))
    BY <1>1 DEF Procs
  <2>2. \A r \in Runners : pc'[r] = "idle" \/ pc'[r] = pc[r]
    BY <1>1 DEF Procs
  <2>3. "active" \in Places
    BY DEF Places
  <2> QED BY <2>1, <2>2, <2>3, SameHome DEF Whereabouts, Moves
<1> QED BY <1>2, <1>3, SameHome DEF Whereabouts

\* A runner that goes on with its record in its place.
LEMMA RunnerWhere ==
  ASSUME Types, Whereabouts, NEW r \in Runners, pc[r] \in Running,
         ~ (pc[r] = "save" /\ loc[r].next = "writing"),
         NEW label \in Running, NEW m, Goto(r, label, m),
         m.rec = loc[r].rec, m.place = loc[r].place,
         UNCHANGED <<regime, home>>
  PROVE  Whereabouts'
<1>1. /\ r \in Procs /\ pc'[r] = label /\ loc'[r] = m /\ Holding(r)
      /\ \A q \in Procs \ {r} : pc'[q] = pc[q] /\ loc'[q] = loc[q]
  BY GotoIs DEF Procs, Holding
<1>2. AtHome'
  BY <1>1, SameHome DEF Whereabouts, AtHome, Holding, Procs
<1>3. Moves'
  <2>1. pc[r] # "idle"
    BY DEF Running
  <2>2. \A h \in Humans : pc'[h] = pc[h] /\ loc'[h] = loc[h]
    BY <1>1, TaskAssumption DEF Procs
  <2>3. \A h \in Humans : pc[h] # "move"
    BY <2>1, RunnerAtHome
  <2>4. \A h \in Humans : pc[h] = "mark" => ~ Settled("active") /\ regime.archives
    BY <2>1, RunnerAtHome DEF Whereabouts, Moves
  <2>5. ~ Leaving /\ "active" \in Places
    BY <2>1, RunnerAtHome DEF Places
  <2> QED BY <2>2, <2>3, <2>4, <2>5, SameHome DEF Moves
<1> QED BY <1>2, <1>3, SameHome DEF Whereabouts

\* Every step but the first of a run that writes no record.
LEMMA RunnerStepWhere ==
  ASSUME Types, Whereabouts, NEW r \in Runners, RunnerStep(r), ~ SaveState(r), ~ SaveEvidence(r)
  PROVE  Whereabouts'
<1>1. r \in Procs /\ loc[r] \in Memories /\ content \in 0 .. MaxRuns
  BY TypeParts DEF Procs
<1>2. PICK l \in Memories, n \in 0 .. MaxRuns : l = loc[r] /\ n = content
  BY <1>1
<1>3. ASSUME NEW passed \in BOOLEAN, Verify(r, passed) PROVE Whereabouts'
  <2>1. PICK m : m = [l EXCEPT !.tested = n, !.passed = passed]
    OBVIOUS
  <2>2. m.rec = l.rec /\ m.place = l.place
    BY <2>1 DEF Memories
  <2>3. Goto(r, "evidence", m) /\ pc[r] = "verify" /\ home' = home
    BY <1>2, <1>3, <2>1 DEF Verify
  <2>4. "evidence" \in Running /\ "verify" \in Running
    BY DEF Running
  <2> QED BY <1>2, <2>2, <2>3, <2>4, RunnerWhere DEF RunnerStep
<1>4. ASSUME NEW s \in States, Goto(r, "save", [loc[r] EXCEPT !.next = s]),
             pc[r] \in {"writer", "evaluate"}, home' = home
      PROVE  Whereabouts'
  <2>1. PICK m : m = [loc[r] EXCEPT !.next = s]
    OBVIOUS
  <2>2. m.rec = loc[r].rec /\ m.place = loc[r].place
    BY <1>1, <2>1 DEF Memories
  <2>3. "save" \in Running /\ pc[r] \in Running
    BY <1>4 DEF Running
  <2> QED BY <1>4, <2>1, <2>2, <2>3, RunnerWhere DEF RunnerStep
<1>5. CASE WriterReturns(r)
  <2>1. "verifying" \in States
    BY DEF States, InFlight
  <2> QED BY <1>1, <1>4, <1>5, <2>1, StopWhere DEF WriterReturns, RunnerStep
<1>6. ASSUME NEW decision, Evaluate(r, decision) PROVE Whereabouts'
  <2>1. {"waiting_human_ppe_approval", "blocked", "writer_rework_required"} \subseteq States
    BY DEF States, Reviewed, Runnable
  <2> QED BY <1>1, <1>4, <1>6, <2>1, StopWhere DEF Evaluate, RunnerStep
<1> QED BY <1>3, <1>5, <1>6 DEF RunnerStep

\* Where the runner that saves evidence writes it, the directory is there.
LEMMA EvidenceStays ==
  ASSUME Types, Whereabouts, NEW r \in Runners, SaveEvidence(r)
  PROVE  home' = home
<1>1. pc[r] # "idle" /\ pc[r] \in Running /\ pc[r] # "save"
  BY DEF SaveEvidence, Running
<1>2. PICK x \in Places : Settled(x) /\ loc[r].place = x
  BY <1>1, RunnerAtHome DEF Whereabouts, AtHome
<1>3. home' = [home EXCEPT ![x] = [dir |-> Kept(home[x].dir), rec |-> home[x].rec]]
  BY <1>2 DEF SaveEvidence
<1>4. Kept(home[x].dir) = home[x].dir
  BY <1>2, SettledIs DEF Kept
<1>5. [dir |-> home[x].dir, rec |-> home[x].rec] = home[x]
  BY TypeParts DEF Homes
<1> QED BY <1>3, <1>4, <1>5, TypeParts DEF Homes

LEMMA EvidenceWhere ==
  ASSUME Types, Whereabouts, NEW r \in Runners, SaveEvidence(r), regime' = regime
  PROVE  Whereabouts'
<1>1. pc[r] \in Running /\ pc[r] # "save" /\ "save" \in Running
  BY DEF SaveEvidence, Running
<1>2. PICK m : m = [loc[r] EXCEPT !.next = Verdict(r)]
  OBVIOUS
<1>3. m.rec = loc[r].rec /\ m.place = loc[r].place
  BY <1>2, TypeParts DEF Memories, Procs
<1>4. Goto(r, "save", m)
  BY <1>2 DEF SaveEvidence
<1> QED BY <1>1, <1>3, <1>4, EvidenceStays, RunnerWhere

\* The runner saves its record where the task is.
LEMMA SaveStateIs ==
  ASSUME Types, Whereabouts, NEW r \in Runners, SaveState(r)
  PROVE  \E x \in Places, rec \in Records :
           /\ rec = [loc[r].rec EXCEPT !.state = loc[r].next]
           /\ rec.state = loc[r].next
           /\ Settled(x) /\ Place(rec) = x /\ home' = Saved(rec)
           /\ Settled(x)' /\ ~ Leaving' /\ Found(home') = {x} /\ Loads' = {rec}
           /\ \A y \in Places : Settled(y)' => y = x
<1>1. /\ pc[r] = "save" /\ r \in Procs /\ loc[r].rec \in Records /\ loc[r].next \in States
  BY DEF SaveState, Types, Copies, Holding, Running, Procs
<1>2. PICK x \in Places : Settled(x) /\ Place(loc[r].rec) = x
  BY <1>1, RunnerAtHome
<1>3. PICK rec \in Records : /\ rec = [loc[r].rec EXCEPT !.state = loc[r].next]
                             /\ rec.state = loc[r].next /\ Place(rec) = x
  <2>1. PICK old \in Records, s \in States : old = loc[r].rec /\ s = loc[r].next
    BY <1>1
  <2>2. PICK rec : rec = [old EXCEPT !.state = s]
    OBVIOUS
  <2>3. rec \in Records /\ rec.state = s /\ Place(rec) = Place(old)
    BY <2>2, WithState
  <2> QED BY <1>2, <2>1, <2>2, <2>3
<1>4. home' = Saved(rec)
  BY <1>3 DEF SaveState
<1> QED BY <1>2, <1>3, <1>4, SavedKeeps

LEMMA SaveStateWhere ==
  ASSUME Types, Whereabouts, NEW r \in Runners, SaveState(r), regime' = regime
  PROVE  Whereabouts'
<1>1. PICK x \in Places, rec \in Records :
           /\ rec = [loc[r].rec EXCEPT !.state = loc[r].next]
           /\ Settled(x) /\ Place(rec) = x
           /\ Settled(x)' /\ ~ Leaving' /\ Found(home') = {x}
           /\ \A y \in Places : Settled(y)' => y = x
  BY SaveStateIs
<1>2. r \in Procs /\ loc[r] \in Memories /\ pc[r] = "save"
  BY TypeParts DEF Procs, SaveState
<1>3. /\ \A q \in Procs \ {r} : pc'[q] = pc[q] /\ loc'[q] = loc[q]
      /\ \/ pc'[r] = "idle"
         \/ pc'[r] \in Running \ {"save"} /\ loc'[r].rec = rec /\ loc'[r].place = x
  <2>1. PICK l \in Memories : l = loc[r]
    BY <1>2
  <2>2. CASE Goto(r, "writer", [l EXCEPT !.rec = rec, !.place = x])
    <3>1. PICK m : m = [l EXCEPT !.rec = rec, !.place = x]
      OBVIOUS
    <3>2. m.rec = rec /\ m.place = x
      BY <3>1 DEF Memories
    <3>3. Goto(r, "writer", m)
      BY <2>2, <3>1
    <3>4. /\ pc'[r] = "writer" /\ loc'[r] = m
          /\ \A q \in Procs \ {r} : pc'[q] = pc[q] /\ loc'[q] = loc[q]
      BY <1>2, <3>3, GotoIs
    <3> QED BY <3>2, <3>4 DEF Running
  <2>3. ASSUME loc[r].next # "writing", NEW label \in {"verify", "evaluate"},
               Goto(r, label, [l EXCEPT !.rec = rec])
        PROVE  /\ \A q \in Procs \ {r} : pc'[q] = pc[q] /\ loc'[q] = loc[q]
               /\ pc'[r] \in Running \ {"save"} /\ loc'[r].rec = rec /\ loc'[r].place = x
    <3>1. PICK m : m = [l EXCEPT !.rec = rec]
      OBVIOUS
    <3>2. m.rec = rec /\ m.place = l.place
      BY <3>1, WithRec
    <3>3. l.place = x
      BY <1>1, <1>2, <2>1, <2>3 DEF Whereabouts, AtHome, Running
    <3> QED BY <1>2, <2>3, <3>1, <3>2, <3>3, GotoIs DEF Running
  <2>4. CASE Finish(r)
    BY <1>2, <2>4, GotoIs DEF Finish
  <2>5. \/ Goto(r, "writer", [l EXCEPT !.rec = rec, !.place = x])
        \/ loc[r].next # "writing" /\ \E label \in {"verify", "evaluate"} :
             Goto(r, label, [l EXCEPT !.rec = rec])
        \/ Finish(r)
    BY <1>1, <2>1 DEF SaveState
  <2>6. CASE loc[r].next # "writing" /\ \E label \in {"verify", "evaluate"} :
               Goto(r, label, [l EXCEPT !.rec = rec])
    <3>1. PICK label \in {"verify", "evaluate"} : Goto(r, label, [l EXCEPT !.rec = rec])
      BY <2>6
    <3> QED BY <2>3, <2>6, <3>1
  <2> QED BY <2>2, <2>4, <2>5, <2>6
<1>4. AtHome'
  <2>1. \A q \in Procs : Holding(q)' => Place(loc'[q].rec) = x
    BY <1>1, <1>3 DEF Whereabouts, AtHome, Holding, Running, Writing
  <2>2. \A q \in Runners : pc'[q] \in Running /\ ~ (pc'[q] = "save" /\ loc'[q].next = "writing")
          => loc'[q].place = x
    BY <1>1, <1>3 DEF Whereabouts, AtHome, Procs, Running
  <2> QED BY <1>1, <2>1, <2>2 DEF AtHome
<1>5. Moves'
  <2>1. \A h \in Humans : pc'[h] = pc[h] /\ loc'[h] = loc[h]
    BY <1>3, TaskAssumption DEF Procs
  <2>2. pc[r] # "idle"
    BY <1>2
  <2>3. \A h \in Humans : pc[h] # "move"
    BY <2>2, RunnerAtHome
  <2>4. \A h \in Humans : pc[h] = "mark" => regime.archives /\ ~ Settled("active")'
    BY <1>1, <2>2, RunnerAtHome DEF Whereabouts, Moves, Places
  <2> QED BY <1>1, <2>1, <2>3, <2>4 DEF Moves
<1> QED BY <1>1, <1>4, <1>5 DEF Whereabouts

\* What a human takes into a command that will write it.
LEMMA TakesIs ==
  ASSUME Types, NEW h \in Humans,
         \/ AddFeedback(h) \/ DeployPpe(h)
         \/ \E action \in DOMAIN Target : ApplyGate(h, action)
  PROVE  \E rec \in Loads, new \in Records :
           /\ new.result = rec.result /\ Place(new) = Place(rec)
           /\ pc'[h] \in Writing /\ loc'[h].rec = new
           /\ \A q \in Procs \ {h} : pc'[q] = pc[q] /\ loc'[q] = loc[q]
           /\ pc[h] = "idle" /\ home' = home
           /\ pc'[h] = "deploy" \/ new.state \in Reviewed => rec.state \in Reviewed
           /\ rec.state = "archived" => pc'[h] = "write"
<1>1. h \in Procs
  BY DEF Procs
<1>2. ASSUME NEW rec \in Loads, NEW s \in States, NEW label \in Writing,
             Goto(h, label, [Nothing EXCEPT !.rec = [rec EXCEPT !.state = s]]),
             label = "deploy" \/ s \in Reviewed => rec.state \in Reviewed,
             rec.state = "archived" => label = "write",
             pc[h] = "idle", home' = home
      PROVE  \E new \in Records :
           /\ new.result = rec.result /\ Place(new) = Place(rec)
           /\ pc'[h] \in Writing /\ loc'[h].rec = new
           /\ \A q \in Procs \ {h} : pc'[q] = pc[q] /\ loc'[q] = loc[q]
           /\ pc'[h] = "deploy" \/ new.state \in Reviewed => rec.state \in Reviewed
           /\ rec.state = "archived" => pc'[h] = "write"
  <2>1. PICK new : new = [rec EXCEPT !.state = s]
    OBVIOUS
  <2>2. new \in Records /\ new.state = s /\ new.result = rec.result /\ Place(new) = Place(rec)
    BY <2>1, LoadsAre, WithState
  <2>3. PICK m : m = [Nothing EXCEPT !.rec = new]
    OBVIOUS
  <2>4. m.rec = new
    BY <2>3 DEF Nothing
  <2>5. Goto(h, label, m)
    BY <1>2, <2>1, <2>3
  <2>6. pc'[h] = label /\ loc'[h] = m
        /\ \A q \in Procs \ {h} : pc'[q] = pc[q] /\ loc'[q] = loc[q]
    BY <1>1, <2>5, GotoIs
  <2> QED BY <1>2, <2>2, <2>4, <2>6
<1>3. CASE AddFeedback(h)
  <2>1. PICK rec \in Loads :
          Goto(h, "write", [Nothing EXCEPT !.rec = [rec EXCEPT !.state = "feedback_available"]])
    BY <1>3 DEF AddFeedback, Holds
  <2>2. "feedback_available" \in States \ Reviewed /\ "write" \in Writing
        /\ pc[h] = "idle" /\ home' = home
    BY <1>3 DEF States, Runnable, Reviewed, Writing, AddFeedback, Ready
  <2> QED BY <1>2, <2>1, <2>2
<1>4. CASE DeployPpe(h)
  <2>1. PICK rec \in Loads : /\ rec.state = "ppe_approved"
                             /\ Goto(h, "deploy", [Nothing EXCEPT !.rec = rec])
    BY <1>4 DEF DeployPpe
  <2>2. rec.state \in States /\ rec = [rec EXCEPT !.state = rec.state] /\ "deploy" \in Writing
    BY LoadsAre, RecordIsItself DEF Writing
  <2>3. PICK s \in States : s = rec.state /\ rec = [rec EXCEPT !.state = s]
    BY <2>2
  <2>4. Goto(h, "deploy", [Nothing EXCEPT !.rec = [rec EXCEPT !.state = s]])
    BY <2>1, <2>3
  <2>5. rec.state \in Reviewed /\ rec.state # "archived" /\ pc[h] = "idle" /\ home' = home
    BY <1>4, <2>1 DEF Reviewed, DeployPpe, Ready
  <2> QED BY <1>2, <2>2, <2>4, <2>5
<1>5. ASSUME NEW action \in DOMAIN Target, ApplyGate(h, action)
      PROVE  \E rec \in Loads, s \in States :
               /\ Goto(h, "write", [Nothing EXCEPT !.rec = [rec EXCEPT !.state = s]])
               /\ s \in Reviewed => rec.state \in Reviewed
               /\ pc[h] = "idle" /\ home' = home
  <2>1. PICK rec \in Loads :
          /\ Allows(action, rec.state)
          /\ Goto(h, "write", [Nothing EXCEPT !.rec = [rec EXCEPT !.state = Target[action]]])
    BY <1>5 DEF ApplyGate, Holds
  <2>2. Target[action] \in Reviewed => rec.state \in Reviewed
    BY <2>1 DEF Allows, Target, Reviewed
  <2>3. Target[action] \in States /\ pc[h] = "idle" /\ home' = home
    BY <1>5, TargetIsState DEF ApplyGate, Ready
  <2> QED BY <2>1, <2>2, <2>3
<1>6. ASSUME NEW action \in DOMAIN Target, ApplyGate(h, action)
      PROVE  \E rec \in Loads, new \in Records :
           /\ new.result = rec.result /\ Place(new) = Place(rec)
           /\ pc'[h] \in Writing /\ loc'[h].rec = new
           /\ \A q \in Procs \ {h} : pc'[q] = pc[q] /\ loc'[q] = loc[q]
           /\ pc[h] = "idle" /\ home' = home
           /\ pc'[h] = "deploy" \/ new.state \in Reviewed => rec.state \in Reviewed
           /\ rec.state = "archived" => pc'[h] = "write"
  <2>1. PICK rec \in Loads, s \in States :
               /\ Goto(h, "write", [Nothing EXCEPT !.rec = [rec EXCEPT !.state = s]])
               /\ s \in Reviewed => rec.state \in Reviewed
               /\ pc[h] = "idle" /\ home' = home
    BY <1>5, <1>6
  <2>2. "write" \in Writing
    BY DEF Writing
  <2> QED BY <1>2, <2>1, <2>2
<1> QED BY <1>3, <1>4, <1>6

LEMMA TakesWhere ==
  ASSUME Types, OneOfEach, Whereabouts, NEW h \in Humans,
         \/ AddFeedback(h) \/ DeployPpe(h)
         \/ \E action \in DOMAIN Target : ApplyGate(h, action),
         regime' = regime
  PROVE  Whereabouts'
<1>1. PICK rec \in Loads, new \in Records :
        /\ new.result = rec.result /\ Place(new) = Place(rec)
        /\ pc'[h] \in Writing /\ loc'[h].rec = new
        /\ \A q \in Procs \ {h} : pc'[q] = pc[q] /\ loc'[q] = loc[q]
        /\ pc[h] = "idle" /\ home' = home
        /\ pc'[h] = "deploy" \/ new.state \in Reviewed => rec.state \in Reviewed
        /\ rec.state = "archived" => pc'[h] = "write"
  BY TakesIs
<1>2. \A r \in Runners : pc'[r] = pc[r] /\ loc'[r] = loc[r] /\ r \in Procs
  BY <1>1, TaskAssumption DEF Procs
<1>3. AtHome'
  <2>1. ASSUME NEW x \in Places, Settled(x)
        PROVE  \A p \in Procs : Holding(p)' => Place(loc'[p].rec) = x
    <3>1. Place(rec) = x
      BY <1>1, <2>1, SettledIs DEF Settled
    <3> QED BY <1>1, <2>1, <3>1 DEF Whereabouts, AtHome, Holding
  <2> QED BY <1>1, <1>2, <2>1, SameHome DEF Whereabouts, AtHome
<1>4. Moves'
  <2>1. Humans = {h}
    BY DEF OneOfEach
  <2>2. Leaving => rec = home["active"].rec /\ rec.state = "archived"
    BY <1>1, LeavingIs DEF Leaving
  <2>3. Leaving => /\ pc'[h] = "write" /\ loc'[h].rec.result = home["active"].rec.result
                   /\ loc'[h].rec.state \notin Reviewed
    BY <1>1, <2>2 DEF Reviewed
  <2>4. pc'[h] # "move" /\ pc'[h] # "mark"
    BY <1>1 DEF Writing
  <2> QED BY <1>1, <1>2, <2>1, <2>3, <2>4, SameHome DEF Whereabouts, Moves
<1> QED BY <1>1, <1>3, <1>4, SameHome DEF Whereabouts

LEMMA ArchiveWhere ==
  ASSUME Types, OneOfEach, Whereabouts, NEW h \in Humans, NEW result \in Results,
         Archive(h, result), regime' = regime
  PROVE  Whereabouts'
<1>1. /\ regime.archives /\ \A r \in Runners : pc[r] = "idle"
      /\ \E rec \in Loads : rec.state \in {"accepted", "abandoned", "blocked", "paused"}
      /\ home' = home /\ h \in Procs
  BY DEF Archive, Ready, OneOfEach, Types, Procs
<1>2. pc'[h] = "mark" /\ \A q \in Procs \ {h} : pc'[q] = pc[q] /\ loc'[q] = loc[q]
  BY <1>1, GotoIs DEF Archive
<1>3. \A r \in Runners : pc'[r] = "idle"
  BY <1>1, <1>2, TaskAssumption DEF Procs
<1>4. ~ Leaving
  BY <1>1, LeavingIs DEF Leaving
<1>5. Settled("active") => home["active"].rec.state \notin Runnable
  BY <1>1, SettledIs DEF Runnable, Places
<1>6. AtHome'
  BY <1>1, <1>2, SameHome DEF Whereabouts, AtHome, Holding, Running, Writing, Procs
<1>7. Moves'
  <2>1. \A k \in Humans : pc'[k] = "mark"
    BY <1>2 DEF OneOfEach
  <2>2. "active" \in Places
    BY DEF Places
  <2> QED BY <1>1, <1>3, <1>4, <1>5, <2>1, <2>2, SameHome DEF Moves
<1> QED BY <1>1, <1>6, <1>7, SameHome DEF Whereabouts

LEMMA DeployedIs ==
  ASSUME Types, NEW h \in Humans, NEW outcome \in {"ppe_deployed", "blocked"},
         Deployed(h, outcome)
  PROVE  \E new \in Records :
           /\ new.result = loc[h].rec.result /\ Place(new) = Place(loc[h].rec)
           /\ pc'[h] = "write" /\ loc'[h].rec = new /\ pc[h] = "deploy" /\ Holding(h)
           /\ \A q \in Procs \ {h} : pc'[q] = pc[q] /\ loc'[q] = loc[q]
           /\ home' = home
<1>1. loc[h].rec \in Records /\ outcome \in States /\ h \in Procs
      /\ pc[h] = "deploy" /\ Holding(h)
  BY DEF Deployed, Types, Copies, Holding, Writing, Procs, States, Reviewed
<1>2. PICK old \in Records : old = loc[h].rec
  BY <1>1
<1>3. PICK new : new = [old EXCEPT !.state = outcome]
  OBVIOUS
<1>4. new \in Records /\ new.result = old.result /\ Place(new) = Place(old)
  BY <1>1, <1>3, WithState
<1>5. PICK m : m = [Nothing EXCEPT !.rec = new]
  OBVIOUS
<1>6. m.rec = new
  BY <1>5 DEF Nothing
<1>7. Goto(h, "write", m)
  BY <1>2, <1>3, <1>5 DEF Deployed, Holds
<1>8. pc'[h] = "write" /\ loc'[h] = m
      /\ \A q \in Procs \ {h} : pc'[q] = pc[q] /\ loc'[q] = loc[q]
  BY <1>1, <1>7, GotoIs
<1> QED BY <1>1, <1>2, <1>4, <1>6, <1>8 DEF Deployed

LEMMA DeployedWhere ==
  ASSUME Types, OneOfEach, Whereabouts, NEW h \in Humans,
         NEW outcome \in {"ppe_deployed", "blocked"}, Deployed(h, outcome), regime' = regime
  PROVE  Whereabouts'
<1>1. PICK new \in Records :
        /\ new.result = loc[h].rec.result /\ Place(new) = Place(loc[h].rec)
        /\ pc'[h] = "write" /\ loc'[h].rec = new /\ pc[h] = "deploy" /\ Holding(h)
        /\ \A q \in Procs \ {h} : pc'[q] = pc[q] /\ loc'[q] = loc[q]
        /\ home' = home
  BY DeployedIs
<1>2. \A r \in Runners : pc'[r] = pc[r] /\ loc'[r] = loc[r] /\ r \in Procs
  BY <1>1, TaskAssumption DEF Procs
<1>3. h \in Procs /\ ~ Leaving
  BY <1>1 DEF Whereabouts, Moves, Procs
<1>4. AtHome'
  BY <1>1, <1>2, <1>3, SameHome DEF Whereabouts, AtHome, Holding
<1>5. Moves'
  <2>1. \A k \in Humans : pc'[k] = "write"
    BY <1>1 DEF OneOfEach
  <2> QED BY <1>1, <1>3, <2>1, SameHome DEF Moves
<1> QED BY <1>1, <1>4, <1>5, SameHome DEF Whereabouts

\* A human writes where the task is, or beside a task that is marked.
LEMMA WriteIs ==
  ASSUME Types, Whereabouts, NEW h \in Humans, Write(h)
  PROVE  /\ loc[h].rec \in Records
         /\ \/ \E x \in Places :
                 /\ Settled(x) /\ Settled(x)' /\ ~ Leaving' /\ Loads' = {loc[h].rec}
                 /\ \A y \in Places : Settled(y)' => y = x
            \/ /\ Leaving /\ Leaving' /\ home'["active"] = home["active"] /\ Loads' = Loads
               /\ \A y \in Places : ~ Settled(y)'
<1>1. /\ pc[h] = "write" /\ h \in Procs /\ Holding(h) /\ loc[h].rec \in Records
      /\ home' = Saved(loc[h].rec)
  BY DEF Write, Procs, Types, Copies, Holding, Writing
<1>2. CASE \E x \in Places : Settled(x)
  <2>1. PICK x \in Places : Settled(x) /\ Place(loc[h].rec) = x
    BY <1>1, <1>2 DEF Whereabouts, AtHome
  <2>2. PICK rec \in Records : rec = loc[h].rec
    BY <1>1
  <2>3. Place(rec) = x /\ home' = Saved(rec)
    BY <1>1, <2>1, <2>2
  <2> QED BY <2>1, <2>2, <2>3, SavedKeeps
<1>3. CASE Leaving
  <2>1. loc[h].rec.result = home["active"].rec.result /\ loc[h].rec.result \in Results
    BY <1>1, <1>3 DEF Whereabouts, Moves, Leaving
  <2>2. PICK rec \in Records, x \in Results : rec = loc[h].rec /\ x = loc[h].rec.result
    BY <1>1, <2>1
  <2>3. Place(rec) = x /\ x # "active" /\ x \in Places
    BY <2>2, TaskAssumption DEF Place, Places
  <2>4. \A y \in Places \ {x} : home'[y] = home[y]
    BY <1>1, <2>2, <2>3, SavedIs
  <2>5. home'["active"] = home["active"] /\ home["active"].rec.result = x
    BY <2>1, <2>2, <2>3, <2>4 DEF Places
  <2>6. Leaving'
    BY <1>3, <2>4, <2>5 DEF Leaving, Places
  <2>7. Found(home) = {"active"} /\ Found(home') = {"active"}
    BY <1>3, <2>5, LeavingIs DEF Found
  <2>8. \A y \in Places : ~ Settled(y)'
    <3>1. home'["active"].dir # "none" /\ home'["active"].rec.result = x /\ "active" \in Places
      BY <1>3, <2>5, LeavingIs DEF Places
    <3>2. Place(home'["active"].rec) = x
      BY <2>2, <3>1, TaskAssumption DEF Place
    <3> QED BY <2>3, <3>1, <3>2 DEF Settled
  <2> QED BY <1>1, <1>3, <2>5, <2>6, <2>7, <2>8 DEF Loads
<1> QED BY <1>1, <1>2, <1>3 DEF Whereabouts

LEMMA WriteWhere ==
  ASSUME Types, OneOfEach, Whereabouts, NEW h \in Humans, Write(h), regime' = regime
  PROVE  Whereabouts'
<1>1. h \in Procs /\ Finish(h) /\ pc[h] = "write"
  BY DEF Write, Procs
<1>2. pc'[h] = "idle" /\ \A q \in Procs \ {h} : pc'[q] = pc[q] /\ loc'[q] = loc[q]
  BY <1>1, GotoIs DEF Finish
<1>3. /\ \A k \in Humans : pc'[k] = "idle"
      /\ \A r \in Runners : pc'[r] = pc[r] /\ loc'[r] = loc[r] /\ r \in Procs /\ r # h
  BY <1>2, TaskAssumption DEF OneOfEach, Procs
<1>4. CASE \E x \in Places :
             /\ Settled(x) /\ Settled(x)' /\ ~ Leaving'
             /\ \A y \in Places : Settled(y)' => y = x
  <2>1. PICK x \in Places : Settled(x) /\ Settled(x)' /\ ~ Leaving'
                            /\ \A y \in Places : Settled(y)' => y = x
    BY <1>4
  <2>2. \A q \in Procs : Holding(q)' => Place(loc'[q].rec) = x
    BY <1>2, <2>1 DEF Whereabouts, AtHome, Holding, Running, Writing
  <2>3. \A q \in Runners : pc'[q] \in Running /\ ~ (pc'[q] = "save" /\ loc'[q].next = "writing")
          => loc'[q].place = x
    BY <1>3, <2>1 DEF Whereabouts, AtHome
  <2>4. AtHome'
    BY <2>1, <2>2, <2>3 DEF AtHome
  <2> QED BY <1>3, <2>1, <2>4 DEF Whereabouts, Moves
<1>5. CASE Leaving /\ Leaving' /\ \A y \in Places : ~ Settled(y)'
  BY <1>3, <1>5 DEF Whereabouts, AtHome, Moves
<1> QED BY <1>4, <1>5, WriteIs

LEMMA MarkWhere ==
  ASSUME Types, OneOfEach, Whereabouts, NEW h \in Humans, ArchiveMark(h), regime' = regime
  PROVE  Whereabouts'
<1>1. h \in Procs /\ pc[h] = "mark" /\ loc[h].place \in Results /\ "active" \in Places
  BY DEF ArchiveMark, Procs, Types, Copies, Places
<1>2. CASE Finish(h) /\ UNCHANGED home
  BY <1>1, <1>2, StopWhere
<1>3. CASE /\ home["active"].rec # NoRecord /\ home[loc[h].place].dir = "none"
           /\ Goto(h, "move", loc[h])
           /\ \A x \in Places \ {"active"} : home'[x] = home[x]
           /\ home'["active"].rec = [state |-> "archived", result |-> loc[h].place]
           /\ home' \in Homes
  <2>1. Settled("active")
    <3>1. PICK x \in Places : Settled(x)
      BY <1>1 DEF Whereabouts, Moves
    <3>2. x = "active"
      BY <1>1, <1>3, <3>1, TypeParts DEF Settled
    <3> QED BY <3>1, <3>2
  <2>2. pc'[h] = "move" /\ loc'[h] = loc[h]
        /\ \A q \in Procs \ {h} : pc'[q] = pc[q] /\ loc'[q] = loc[q]
    BY <1>1, <1>3, GotoIs
  <2>3. PICK R \in Results : R = loc[h].place
    BY <1>1
  <2>4. R # "active" /\ R # "none" /\ R \in Places
    BY TaskAssumption DEF Places
  <2>5. ASSUME NEW x \in Results PROVE home'[x].dir = "none"
    <3>1. x \in Places /\ x # "active"
      BY TaskAssumption DEF Places
    <3> QED BY <1>3, <2>1, <3>1 DEF Settled
  <2>6. Leaving'
    <3>1. [state |-> "archived", result |-> R] \in Records
      BY DEF Records, States
    <3>2. [state |-> "archived", result |-> R] # NoRecord
      BY <3>1, TaskAssumption
    <3> QED BY <1>3, <2>3, <2>5, <3>2 DEF Leaving
  <2>7. \A y \in Places : ~ Settled(y)'
    <3>1. Place(home'["active"].rec) = R /\ home'["active"].rec # NoRecord
      BY <1>3, <2>3, <2>4, <2>6 DEF Place, Leaving
    <3>2. ASSUME NEW y \in Results PROVE ~ Settled(y)'
      <4>1. (home[y].dir = "none" => home[y].rec = NoRecord)'
        BY <1>3, <2>4, TypeParts, TaskAssumption DEF Places
      <4> QED BY <2>5, <4>1 DEF Settled
    <3> QED BY <2>4, <3>1, <3>2 DEF Settled, Places
  <2>8. /\ \A k \in Humans : k = h
        /\ \A r \in Runners : pc'[r] = "idle"
    BY <1>1, <2>1, <2>2, TaskAssumption DEF OneOfEach, Whereabouts, Moves, Procs
  <2> QED BY <1>3, <2>2, <2>3, <2>5, <2>6, <2>7, <2>8 DEF Whereabouts, AtHome, Moves
<1> QED BY <1>2, <1>3, MarkIs

LEMMA MoveWhere ==
  ASSUME Types, OneOfEach, Whereabouts, NEW h \in Humans, ArchiveMove(h), regime' = regime
  PROVE  Whereabouts' /\ Loads' = Loads
<1>1. h \in Procs /\ pc[h] = "move" /\ Finish(h) /\ "active" \in Places
  BY DEF ArchiveMove, Procs, Places
<1>2. PICK R \in Results : /\ Leaving /\ R = loc[h].place /\ home["active"].rec.result = R
                           /\ home[R].dir = "none"
  BY <1>1 DEF Whereabouts, Moves, Leaving
<1>3. R # "active" /\ R # "none" /\ R \in Places
  BY TaskAssumption DEF Places
<1>4. /\ home'["active"] = Absent /\ home'[R] = home["active"]
      /\ \A x \in Results \ {R} : home'[x] = home[x] /\ home[x].dir = "none"
  BY <1>2, <1>3, TaskAssumption DEF ArchiveMove, Places, Leaving
<1>5. /\ home'["active"].dir = "none" /\ home'["active"].rec = NoRecord
      /\ \A x \in Places \ {R} : home'[x].dir = "none" /\ home'[x].rec = NoRecord
  <2>1. home'["active"].dir = "none" /\ home'["active"].rec = NoRecord
    BY <1>4 DEF Absent
  <2> QED BY <1>4, <2>1, TypeParts DEF Places
<1>6. Settled(R)' /\ \A y \in Places : Settled(y)' => y = R
  BY <1>2, <1>3, <1>4, <1>5 DEF Settled, Place, Leaving
<1>7. ~ Leaving'
  BY <1>5 DEF Leaving
<1>8. pc'[h] = "idle" /\ \A q \in Procs \ {h} : pc'[q] = pc[q] /\ loc'[q] = loc[q]
  BY <1>1, GotoIs DEF Finish
<1>9. \A q \in Procs : pc'[q] = "idle"
  BY <1>2, <1>8, TaskAssumption DEF OneOfEach, Whereabouts, Moves, Procs
<1>10. Whereabouts'
  BY <1>3, <1>6, <1>7, <1>9
     DEF Whereabouts, AtHome, Moves, Holding, Running, Writing, Procs
<1>11. Loads' = Loads
  <2>1. Found(home') = {R}
    BY <1>2, <1>4, <1>5 DEF Found, Leaving, Places
  <2>2. Found(home) = {"active"}
    BY <1>2, LeavingIs
  <2> QED BY <1>4, <2>1, <2>2 DEF Loads
<1> QED BY <1>10, <1>11

LEMMA InitWhere ==
  ASSUME Init, Types
  PROVE  Whereabouts
<1>1. /\ "active" \in Places /\ home["active"].rec = [state |-> "ready", result |-> "none"]
      /\ \A x \in Places \ {"active"} : home[x].dir = "none"
      /\ \A p \in Procs : pc[p] = "idle"
  BY DEF Init, Places, Absent
<1>2. [state |-> "ready", result |-> "none"] \in Records
  BY DEF Records, States, Runnable
<1>3. Settled("active")
  BY <1>1, <1>2, TaskAssumption DEF Settled, Place
<1>4. ~ Leaving
  BY <1>1 DEF Leaving
<1> QED BY <1>1, <1>3, <1>4 DEF Whereabouts, AtHome, Moves, Holding, Running, Writing, Procs

LEMMA NextWhere ==
  ASSUME Types, OneOfEach, Whereabouts, [Next]_vars
  PROVE  Whereabouts'
<1>1. CASE UNCHANGED vars
  <2>1. "active" \in Places /\ UNCHANGED <<regime, home, pc, loc>>
    BY <1>1 DEF vars, Places
  <2>2. AtHome'
    BY <2>1, SameHome DEF Whereabouts, AtHome, Holding
  <2>3. Moves'
    BY <2>1, SameHome DEF Whereabouts, Moves
  <2> QED BY <2>1, <2>2, <2>3, SameHome DEF Whereabouts
<1>2. ASSUME NEW r \in Runners, Run(r) \/ RunnerStep(r) \/ BackendRaises(r), regime' = regime
      PROVE  Whereabouts'
  <2>1. CASE BackendRaises(r)
    BY <1>2, <2>1, StopWhere DEF BackendRaises, Procs
  <2> QED BY <1>2, <2>1, RunWhere, SaveStateWhere, EvidenceWhere, RunnerStepWhere
<1>3. ASSUME NEW h \in Humans, Command(h), regime' = regime PROVE Whereabouts'
  BY <1>3, TakesWhere, ArchiveWhere DEF Command
<1>4. ASSUME NEW h \in Humans, HumanStep(h), regime' = regime PROVE Whereabouts'
  BY <1>4, DeployedWhere, WriteWhere, MarkWhere, MoveWhere DEF HumanStep
<1>5. ASSUME NEW p \in Procs, Crash(p), regime' = regime PROVE Whereabouts'
  BY <1>5, StopWhere DEF Crash
<1> QED BY <1>1, <1>2, <1>3, <1>4, <1>5 DEF Next

-----------------------------------------------------------------------------
(* What the human reviews.                                                 *)

\* Wherever the task is, a command that loads it gets one record.
LEMMA OneIsLoaded ==
  ASSUME Types, Whereabouts
  PROVE  \E rec \in Records : Loads = {rec}
BY SettledIs, LeavingIs DEF Whereabouts

\* While the runner is at work the human has nothing to review, and holds no
\* review.
LEMMA BusyIsUnseen ==
  ASSUME Types, Whereabouts, Reviews, NEW r \in Runners, pc[r] # "idle"
  PROVE  /\ Shown = {}
         /\ \A h \in Humans :
              ~ (pc[h] = "deploy" \/ (pc[h] = "write" /\ loc[h].rec.state \in Reviewed))
<1>1. Shown = {}
  BY DEF Reviews, ReviewStands, ReviewedIsQuiet
<1>2. PICK rec \in Loads : rec.state \notin Reviewed
  BY <1>1, OneIsLoaded DEF Shown
<1> QED BY <1>1, <1>2 DEF Reviews, Decides

\* A step of the runner that leaves the task where it is.
LEMMA RunnerReviews ==
  ASSUME OneOfEach, Reviews, NEW r \in Runners, Shown = {}, Shows(r)', home' = home,
         \A q \in Procs \ {r} : pc'[q] = pc[q] /\ loc'[q] = loc[q]
  PROVE  Reviews'
<1>1. Loads' = Loads /\ Shown' = {}
  BY DEF Loads, Shown, Found
<1>2. \A q \in Runners : Shows(q)'
  <2>1. \A q \in Runners : q = r
    BY DEF OneOfEach
  <2> QED BY <2>1
<1>3. \A h \in Humans : pc'[h] = pc[h] /\ loc'[h] = loc[h]
  BY TaskAssumption DEF Procs
<1>4. \A h \in Humans : Decides(h)'
  BY <1>1, <1>3 DEF Reviews, Decides
<1>5. ReviewStands'
  BY <1>1 DEF ReviewStands, ReviewedIsVerified, ReviewedIsQuiet
<1> QED BY <1>2, <1>4, <1>5 DEF Reviews

LEMMA RunReviews ==
  ASSUME Types, OneOfEach, Whereabouts, Reviews, NEW r \in Runners, Run(r)
  PROVE  Reviews'
<1>1. PICK rec \in Loads :
        /\ rec.state \in Runnable
        /\ Goto(r, "save", [Nothing EXCEPT !.rec = rec, !.next = "writing"])
  BY DEF Run
<1>2. Shown = {}
  BY <1>1, OneIsLoaded DEF Shown, Runnable, Reviewed
<1>3. PICK m : m = [Nothing EXCEPT !.rec = rec, !.next = "writing"]
  OBVIOUS
<1>4. m.next = "writing"
  BY <1>3 DEF Nothing
<1>5. Goto(r, "save", m) /\ r \in Procs
  BY <1>1, <1>3 DEF Procs
<1>6. pc'[r] = "save" /\ loc'[r] = m
      /\ \A q \in Procs \ {r} : pc'[q] = pc[q] /\ loc'[q] = loc[q]
  BY <1>5, GotoIs
<1>7. Shows(r)'
  BY <1>4, <1>6 DEF Shows, Reviewed
<1> QED BY <1>2, <1>6, <1>7, RunnerReviews DEF Run

\* A runner that stops knows nothing any more.
LEMMA RunnerStops ==
  ASSUME Types, OneOfEach, Whereabouts, Reviews, NEW r \in Runners, pc[r] # "idle",
         Finish(r), home' = home
  PROVE  Reviews'
<1>1. pc'[r] = "idle" /\ \A q \in Procs \ {r} : pc'[q] = pc[q] /\ loc'[q] = loc[q]
  BY GotoIs DEF Finish, Procs
<1>2. Shows(r)'
  BY <1>1 DEF Shows
<1> QED BY <1>1, <1>2, BusyIsUnseen, RunnerReviews

LEMMA WriterReviews ==
  ASSUME Types, OneOfEach, Whereabouts, Reviews, NEW r \in Runners, WriterReturns(r)
  PROVE  Reviews'
<1>1. pc[r] # "idle" /\ home' = home /\ r \in Procs
  BY DEF WriterReturns, Procs
<1>2. CASE Finish(r)
  BY <1>1, <1>2, RunnerStops
<1>3. CASE Goto(r, "save", [loc[r] EXCEPT !.next = "verifying"])
  <2>1. PICK m : m = [loc[r] EXCEPT !.next = "verifying"]
    OBVIOUS
  <2>2. m.next = "verifying"
    BY <1>1, <2>1, TypeParts DEF Memories
  <2>3. pc'[r] = "save" /\ loc'[r] = m
        /\ \A q \in Procs \ {r} : pc'[q] = pc[q] /\ loc'[q] = loc[q]
    BY <1>1, <1>3, <2>1, GotoIs
  <2>4. Shows(r)'
    BY <2>2, <2>3 DEF Shows, Reviewed
  <2> QED BY <1>1, <2>3, <2>4, BusyIsUnseen, RunnerReviews
<1> QED BY <1>2, <1>3 DEF WriterReturns

LEMMA VerifyReviews ==
  ASSUME Types, OneOfEach, Whereabouts, Reviews, NEW r \in Runners,
         NEW passed \in BOOLEAN, Verify(r, passed)
  PROVE  Reviews'
<1>1. pc[r] # "idle" /\ home' = home /\ r \in Procs /\ content' = content
  BY DEF Verify, Procs
<1>2. PICK m : m = [loc[r] EXCEPT !.tested = content, !.passed = passed]
  OBVIOUS
<1>3. m.tested = content
  <2>1. PICK l \in Memories, n \in 0 .. MaxRuns : l = loc[r] /\ n = content
    BY <1>1, TypeParts
  <2>2. [l EXCEPT !.tested = n, !.passed = passed].tested = n
    BY DEF Memories
  <2> QED BY <1>2, <2>1, <2>2
<1>4. Goto(r, "evidence", m)
  BY <1>2 DEF Verify
<1>5. pc'[r] = "evidence" /\ loc'[r] = m
      /\ \A q \in Procs \ {r} : pc'[q] = pc[q] /\ loc'[q] = loc[q]
  BY <1>1, <1>4, GotoIs
<1>6. Shows(r)'
  BY <1>1, <1>3, <1>5 DEF Shows
<1> QED BY <1>1, <1>5, <1>6, BusyIsUnseen, RunnerReviews

LEMMA EvidenceReviews ==
  ASSUME Types, OneOfEach, Whereabouts, Reviews, NEW r \in Runners, SaveEvidence(r)
  PROVE  Reviews'
<1>1. /\ pc[r] = "evidence" /\ home' = home /\ r \in Procs /\ content' = content
      /\ loc[r].tested = content
  BY EvidenceStays DEF SaveEvidence, Procs, Reviews, Shows
<1>2. /\ evidence'.tested = content /\ evidence'.diff = content
      /\ evidence'.passed = loc[r].passed
  <2>1. PICK e \in Findings, t \in 0 .. MaxRuns, p \in BOOLEAN, n \in 0 .. MaxRuns :
          e = evidence /\ t = loc[r].tested /\ p = loc[r].passed /\ n = content
    BY <1>1, TypeParts DEF Memories
  <2>2. evidence' = [e EXCEPT !.tested = t, !.passed = p, !.diff = n]
    BY <2>1 DEF SaveEvidence
  <2>3. evidence'.tested = t /\ evidence'.passed = p /\ evidence'.diff = n
    BY <2>2 DEF Findings
  <2> QED BY <1>1, <2>1, <2>3
<1>3. PICK m : m = [loc[r] EXCEPT !.next = Verdict(r)]
  OBVIOUS
<1>4. m.next = Verdict(r) /\ m.tested = content
  BY <1>1, <1>3, TypeParts DEF Memories
<1>5. pc'[r] = "save" /\ loc'[r] = m
      /\ \A q \in Procs \ {r} : pc'[q] = pc[q] /\ loc'[q] = loc[q]
  <2>1. Goto(r, "save", m)
    BY <1>3 DEF SaveEvidence
  <2> QED BY <1>1, <2>1, GotoIs
<1>6. Shows(r)'
  <2>1. m.next \notin Reviewed /\ (m.next = "evaluating" => loc[r].passed)
    BY <1>4 DEF Verdict, Reviewed
  <2> QED BY <1>1, <1>2, <1>4, <1>5, <2>1 DEF Shows, Passed
<1>7. pc[r] # "idle"
  BY <1>1
<1> QED BY <1>1, <1>5, <1>6, <1>7, BusyIsUnseen, RunnerReviews

LEMMA EvaluateReviews ==
  ASSUME Types, OneOfEach, Whereabouts, Reviews, NEW r \in Runners,
         NEW decision \in {"pass", "needs_changes", "blocked"}, Evaluate(r, decision)
  PROVE  Reviews'
<1>1. /\ pc[r] = "evaluate" /\ pc[r] # "idle" /\ home' = home /\ r \in Procs
      /\ content' = content /\ Passed /\ loc[r].tested = content
  BY DEF Evaluate, Procs, Reviews, Shows
<1>2. CASE Finish(r)
  BY <1>1, <1>2, RunnerStops
<1>3. ASSUME NEW s \in States, Goto(r, "save", [loc[r] EXCEPT !.next = s]),
             s # "evaluating", s \in Reviewed => decision = "pass"
      PROVE  Reviews'
  <2>1. PICK m : m = [loc[r] EXCEPT !.next = s]
    OBVIOUS
  <2>2. m.next = s
    BY <1>1, <2>1, TypeParts DEF Memories
  <2>3. pc'[r] = "save" /\ loc'[r] = m
        /\ \A q \in Procs \ {r} : pc'[q] = pc[q] /\ loc'[q] = loc[q]
    BY <1>1, <1>3, <2>1, GotoIs
  <2>4. decision = "pass" => Passed' /\ evidence'.reviewed = content
    <3> SUFFICES ASSUME decision = "pass" PROVE Passed' /\ evidence'.reviewed = content
      OBVIOUS
    <3>1. PICK e \in Findings, n \in 0 .. MaxRuns : e = evidence /\ n = content
      BY TypeParts
    <3>2. evidence' = [e EXCEPT !.reviewed = n]
      BY <1>1, <3>1 DEF Evaluate
    <3>3. /\ evidence'.reviewed = n /\ evidence'.passed = e.passed
          /\ evidence'.tested = e.tested /\ evidence'.diff = e.diff
      BY <3>2 DEF Findings
    <3> QED BY <1>1, <3>1, <3>3 DEF Passed
  <2>5. Shows(r)'
    BY <1>1, <1>3, <2>2, <2>3, <2>4 DEF Shows
  <2> QED BY <1>1, <2>3, <2>5, BusyIsUnseen, RunnerReviews
<1>4. {"waiting_human_ppe_approval", "blocked", "writer_rework_required"} \subseteq States
  BY DEF States, Reviewed, Runnable
<1> QED BY <1>2, <1>3, <1>4 DEF Evaluate, Reviewed

\* The one step that shows the human something, after which the run is over.
LEMMA SaveStateReviews ==
  ASSUME Types, OneOfEach, Whereabouts, Reviews, NEW r \in Runners, SaveState(r)
  PROVE  Reviews'
<1>1. /\ pc[r] = "save" /\ pc[r] # "idle" /\ r \in Procs
      /\ content' = content /\ evidence' = evidence
      /\ loc[r] \in Memories
  BY TypeParts DEF SaveState, Procs
<1>2. PICK rec \in Records :
        /\ rec = [loc[r].rec EXCEPT !.state = loc[r].next]
        /\ rec.state = loc[r].next /\ Loads' = {rec}
  BY SaveStateIs
<1>3. PICK place \in Found(home') :
        CASE loc[r].next = "writing" ->
               Goto(r, "writer", [loc[r] EXCEPT !.rec = rec, !.place = place])
          [] loc[r].next = "verifying"  -> Goto(r, "verify", [loc[r] EXCEPT !.rec = rec])
          [] loc[r].next = "evaluating" -> Goto(r, "evaluate", [loc[r] EXCEPT !.rec = rec])
          [] OTHER                      -> Finish(r)
  BY <1>2 DEF SaveState
<1>4. /\ \A q \in Procs \ {r} : pc'[q] = pc[q] /\ loc'[q] = loc[q]
      /\ \/ pc'[r] = "idle"
         \/ pc'[r] \in {"writer", "verify"} /\ loc[r].next \notin Reviewed
         \/ /\ pc'[r] = "evaluate" /\ loc[r].next = "evaluating"
            /\ loc'[r].tested = loc[r].tested
  <2>1. CASE loc[r].next = "writing"
    <3>1. Goto(r, "writer", [loc[r] EXCEPT !.rec = rec, !.place = place])
      BY <1>3, <2>1
    <3> QED BY <1>1, <2>1, <3>1, GotoIs DEF Reviewed
  <2>2. CASE loc[r].next = "verifying"
    <3>1. Goto(r, "verify", [loc[r] EXCEPT !.rec = rec])
      BY <1>3, <2>2
    <3> QED BY <1>1, <2>2, <3>1, GotoIs DEF Reviewed
  <2>3. CASE loc[r].next = "evaluating"
    <3>1. PICK m : m = [loc[r] EXCEPT !.rec = rec]
      OBVIOUS
    <3>2. m.tested = loc[r].tested
      BY <1>1, <3>1, WithRec
    <3>3. Goto(r, "evaluate", m)
      BY <1>3, <2>3, <3>1
    <3> QED BY <1>1, <2>3, <3>2, <3>3, GotoIs
  <2>4. CASE loc[r].next \notin {"writing", "verifying", "evaluating"}
    <3>1. Finish(r)
      BY <1>3, <2>4
    <3> QED BY <1>1, <3>1, GotoIs DEF Finish
  <2> QED BY <2>1, <2>2, <2>3, <2>4
<1>5. \A q \in Runners : q = r
  BY DEF OneOfEach
<1>6. Shows(r)'
  BY <1>1, <1>4 DEF Reviews, Shows, Passed
<1>7. \A h \in Humans : Decides(h)'
  <2>1. \A h \in Humans : pc'[h] = pc[h] /\ loc'[h] = loc[h]
    BY <1>4, TaskAssumption DEF Procs
  <2> QED BY <1>1, <2>1, BusyIsUnseen DEF Decides
<1>8. ReviewStands'
  <2>1. CASE loc[r].next \in Reviewed
    <3>1. Passed' /\ evidence'.reviewed = content'
      BY <1>1, <2>1 DEF Reviews, Shows, Passed
    <3>2. pc'[r] = "idle"
      BY <1>4, <2>1 DEF Reviewed
    <3> QED BY <1>5, <3>1, <3>2
            DEF ReviewStands, ReviewedIsVerified, ReviewedIsQuiet, Passed
  <2>2. CASE loc[r].next \notin Reviewed
    <3>1. Shown' = {}
      BY <1>2, <2>2 DEF Shown
    <3> QED BY <3>1 DEF ReviewStands, ReviewedIsVerified, ReviewedIsQuiet
  <2> QED BY <2>1, <2>2
<1> QED BY <1>5, <1>6, <1>7, <1>8 DEF Reviews

\* A step of the human that shows nothing new.
LEMMA HumanReviews ==
  ASSUME OneOfEach, Reviews, NEW h \in Humans, Decides(h)', Shown' # {} => Shown # {},
         UNCHANGED <<content, evidence>>,
         \A q \in Procs \ {h} : pc'[q] = pc[q] /\ loc'[q] = loc[q]
  PROVE  Reviews'
<1>1. \A r \in Runners : pc'[r] = pc[r] /\ loc'[r] = loc[r]
  BY TaskAssumption DEF Procs
<1>2. \A r \in Runners : Shows(r)'
  BY <1>1 DEF Reviews, Shows, Passed
<1>3. \A k \in Humans : Decides(k)'
  <2>1. \A k \in Humans : k = h
    BY DEF OneOfEach
  <2> QED BY <2>1
<1>4. ReviewStands'
  BY <1>1 DEF Reviews, ReviewStands, ReviewedIsVerified, ReviewedIsQuiet
<1> QED BY <1>2, <1>3, <1>4 DEF Reviews

LEMMA TakesReviews ==
  ASSUME Types, OneOfEach, Whereabouts, Reviews, NEW h \in Humans,
         \/ AddFeedback(h) \/ DeployPpe(h)
         \/ \E action \in DOMAIN Target : ApplyGate(h, action)
  PROVE  Reviews'
<1>1. PICK rec \in Loads, new \in Records :
        /\ new.result = rec.result /\ Place(new) = Place(rec)
        /\ pc'[h] \in Writing /\ loc'[h].rec = new
        /\ \A q \in Procs \ {h} : pc'[q] = pc[q] /\ loc'[q] = loc[q]
        /\ pc[h] = "idle" /\ home' = home
        /\ pc'[h] = "deploy" \/ new.state \in Reviewed => rec.state \in Reviewed
        /\ rec.state = "archived" => pc'[h] = "write"
  BY TakesIs
<1>2. Loads' = Loads /\ Shown' = Shown
  BY <1>1 DEF Loads, Shown, Found
<1>3. Decides(h)'
  BY <1>1, <1>2, OneIsLoaded DEF Decides
<1>4. UNCHANGED <<content, evidence>>
  BY DEF AddFeedback, DeployPpe, ApplyGate
<1> QED BY <1>1, <1>2, <1>3, <1>4, HumanReviews

\* A command that leaves the directories and is not about to write.
LEMMA PlainReviews ==
  ASSUME Types, OneOfEach, Reviews, NEW h \in Humans, NEW label \in {"idle", "mark", "move"},
         NEW m, Goto(h, label, m), Shown' # {} => Shown # {},
         UNCHANGED <<content, evidence>>
  PROVE  Reviews'
<1>1. pc'[h] = label /\ \A q \in Procs \ {h} : pc'[q] = pc[q] /\ loc'[q] = loc[q]
  BY GotoIs DEF Procs
<1>2. Decides(h)'
  BY <1>1 DEF Decides
<1> QED BY <1>1, <1>2, HumanReviews

LEMMA ArchiveReviews ==
  ASSUME Types, OneOfEach, Reviews, NEW h \in Humans, NEW result \in Results,
         Archive(h, result)
  PROVE  Reviews'
<1>1. Shown' = Shown
  BY DEF Archive, Shown, Loads, Found
<1> QED BY <1>1, PlainReviews DEF Archive

LEMMA DeployedReviews ==
  ASSUME Types, OneOfEach, Whereabouts, Reviews, NEW h \in Humans,
         NEW outcome \in {"ppe_deployed", "blocked"}, Deployed(h, outcome)
  PROVE  Reviews'
<1>1. /\ pc[h] = "deploy" /\ home' = home
      /\ \A q \in Procs \ {h} : pc'[q] = pc[q] /\ loc'[q] = loc[q]
  BY DeployedIs
<1>2. Loads' = Loads /\ Shown' = Shown
  BY <1>1 DEF Loads, Shown, Found
<1>3. Decides(h)'
  BY <1>1, <1>2 DEF Reviews, Decides
<1>4. UNCHANGED <<content, evidence>>
  BY DEF Deployed
<1> QED BY <1>1, <1>2, <1>3, <1>4, HumanReviews

LEMMA WriteReviews ==
  ASSUME Types, OneOfEach, Whereabouts, Reviews, NEW h \in Humans, Write(h)
  PROVE  Reviews'
<1>1. pc[h] = "write" /\ Finish(h) /\ UNCHANGED <<content, evidence>>
  BY DEF Write
<1>2. CASE Loads' = {loc[h].rec}
  <2>1. Shown' # {} => loc[h].rec.state \in Reviewed
    BY <1>2 DEF Shown
  <2>2. Shown' # {} => Shown # {}
    BY <1>1, <2>1, OneIsLoaded DEF Reviews, Decides, Shown
  <2> QED BY <1>1, <2>2, PlainReviews DEF Finish
<1>3. CASE Loads' = Loads
  <2>1. Shown' = Shown
    BY <1>3 DEF Shown
  <2> QED BY <1>1, <2>1, PlainReviews DEF Finish
<1> QED BY <1>2, <1>3, WriteIs

LEMMA MarkReviews ==
  ASSUME Types, OneOfEach, Whereabouts, Reviews, NEW h \in Humans, ArchiveMark(h)
  PROVE  Reviews'
<1>1. h \in Procs /\ loc[h].place \in Results /\ UNCHANGED <<content, evidence>>
  BY DEF ArchiveMark, Procs, Types, Copies
<1>2. CASE Finish(h) /\ UNCHANGED home
  <2>1. Shown' = Shown
    BY <1>2 DEF Shown, Loads, Found
  <2> QED BY <1>1, <1>2, <2>1, PlainReviews DEF Finish
<1>3. CASE /\ home["active"].rec # NoRecord
           /\ Goto(h, "move", loc[h])
           /\ home'["active"].rec = [state |-> "archived", result |-> loc[h].place]
           /\ home'["active"].dir = home["active"].dir
  <2>1. Found(home') = {"active"}
    <3>1. home["active"].dir # "none"
      BY <1>3, TypeParts DEF Places
    <3> QED BY <1>3, <3>1 DEF Found
  <2>2. \A rec \in Loads' : rec = [state |-> "archived", result |-> loc[h].place]
    BY <1>3, <2>1 DEF Loads
  <2>3. Shown' = {}
    BY <2>2 DEF Shown, Reviewed
  <2> QED BY <1>1, <1>3, <2>3, PlainReviews
<1> QED BY <1>2, <1>3, MarkIs

LEMMA MoveReviews ==
  ASSUME Types, OneOfEach, Whereabouts, Reviews, NEW h \in Humans, ArchiveMove(h),
         regime' = regime
  PROVE  Reviews'
<1>1. Loads' = Loads
  BY MoveWhere
<1>2. Shown' = Shown
  BY <1>1 DEF Shown
<1> QED BY <1>2, PlainReviews DEF ArchiveMove, Finish

LEMMA InitReviews == Init => Reviews
<1> SUFFICES ASSUME Init PROVE Reviews
  OBVIOUS
<1>1. \A p \in Procs : pc[p] = "idle"
  BY DEF Init
<1>2. Runners \subseteq Procs /\ Humans \subseteq Procs
  BY DEF Procs
<1>3. (\A r \in Runners : Shows(r)) /\ (\A h \in Humans : Decides(h)) /\ ReviewedIsQuiet
  BY <1>1, <1>2 DEF Shows, Decides, ReviewedIsQuiet
<1>4. Shown = {}
  <2>1. "active" \in Places
    BY DEF Places
  <2>2. /\ home["active"].dir = "full"
        /\ home["active"].rec = [state |-> "ready", result |-> "none"]
    BY <2>1 DEF Init
  <2>3. Found(home) = {"active"}
    BY <2>2 DEF Found
  <2>4. \A rec \in Loads : rec.state = "ready"
    BY <2>2, <2>3 DEF Loads
  <2> QED BY <2>4 DEF Shown, Reviewed
<1> QED BY <1>3, <1>4 DEF Reviews, ReviewStands, ReviewedIsVerified

LEMMA NextReviews ==
  ASSUME Types, OneOfEach, Whereabouts, Reviews, [Next]_vars
  PROVE  Reviews'
<1>1. CASE UNCHANGED vars
  <2>1. UNCHANGED <<home, content, evidence, pc, loc>>
    BY <1>1 DEF vars
  <2>2. Loads' = Loads
    BY <2>1 DEF Loads, Found
  <2> QED BY <2>1, <2>2 DEF Reviews, Shows, Passed, Decides, ReviewStands,
             ReviewedIsVerified, ReviewedIsQuiet, Shown
<1>2. ASSUME NEW r \in Runners, RunnerStep(r) PROVE Reviews'
  BY <1>2, SaveStateReviews, WriterReviews, EvidenceReviews, VerifyReviews, EvaluateReviews
     DEF RunnerStep
<1>3. ASSUME NEW r \in Runners, BackendRaises(r) PROVE Reviews'
  <2>1. pc[r] # "idle" /\ Finish(r) /\ home' = home
    BY <1>3 DEF BackendRaises
  <2> QED BY <2>1, RunnerStops
<1>4. ASSUME NEW h \in Humans, Command(h) PROVE Reviews'
  BY <1>4, TakesReviews, ArchiveReviews DEF Command
<1>5. ASSUME NEW h \in Humans, HumanStep(h), regime' = regime PROVE Reviews'
  BY <1>5, DeployedReviews, WriteReviews, MarkReviews, MoveReviews DEF HumanStep
<1>6. ASSUME NEW p \in Procs, Crash(p) PROVE Reviews'
  <2>1. pc[p] # "idle" /\ Finish(p) /\ UNCHANGED <<home, content, evidence>>
    BY <1>6 DEF Crash
  <2>2. Shown' = Shown
    BY <2>1 DEF Shown, Loads, Found
  <2>3. CASE p \in Runners
    BY <2>1, <2>3, RunnerStops
  <2>4. CASE p \in Humans
    BY <2>1, <2>2, <2>4, PlainReviews DEF Finish
  <2> QED BY <2>3, <2>4 DEF Procs
<1> QED BY <1>1, <1>2, <1>3, <1>4, <1>5, <1>6, RunReviews DEF Next

\* What the human is asked to review, approves, deploys or accepts is the
\* worktree that the verifier and the evaluator passed, and nobody runs the
\* task meanwhile: with one runner and one human, whatever raises or crashes,
\* whether the human's commands overlap the run or archive the task.
THEOREM ReviewsStand == OneOfEach /\ Spec => []ReviewStands
<1>1. OneOfEach /\ Init => IInv
  BY InitTypes, InitWhere, InitReviews DEF IInv
<1>2. OneOfEach /\ IInv /\ [Next]_vars => IInv'
  BY NextTypes, NextWhere, NextReviews DEF IInv
<1>3. IInv => ReviewStands
  BY DEF IInv, Reviews
<1>4. OneOfEach => (Init /\ [][Next]_vars => []ReviewStands)
  <2> SUFFICES ASSUME OneOfEach PROVE Init /\ [][Next]_vars => []ReviewStands
    OBVIOUS
  <2>1. Init => IInv
    BY <1>1
  <2>2. IInv /\ [Next]_vars => IInv'
    BY <1>2
  <2> QED BY <1>3, <2>1, <2>2, PTL
<1> QED BY <1>4 DEF Spec
=============================================================================
