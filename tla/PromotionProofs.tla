--------------------------- MODULE PromotionProofs ---------------------------
(***************************************************************************)
(* Proofs about Promotion, for any number of commands, requests,           *)
(* promotions and pull requests: what holds whatever crashes, overlaps or  *)
(* loses its lease; what holds while no lease is lost; and what the link,  *)
(* the rows and the requests say of one another where nothing crashes.     *)
(***************************************************************************)
EXTENDS Promotion, TLAPS

\* What every step does to the facts that rows rely on: it adds to them.
Grows ==
  /\ regime' = regime
  /\ good \subseteq good' /\ releases \subseteq releases'
  /\ \A r \in Requests : passed[r] \subseteq passed'[r]
  /\ \A n \in DOMAIN pulls :
       /\ n \in DOMAIN pulls'
       /\ pulls'[n].req = pulls[n].req
       /\ pulls[n].state = "merged" => pulls'[n] = pulls[n]

LEMMA KnownKept ==
  ASSUME Grows, NEW x, Known(x)
  PROVE  Known(x)'
  BY DEF Grows, Known

\* A row that was sound stays sound.
LEMMA RowKept ==
  ASSUME Grows, NEW row \in Rows, RowSound(row)
  PROVE  /\ RowSound(row)'
         /\ row.pull # 0 /\ MergedRow(row) => MergedRow(row)'
<1>1. row.req \in Requests
  BY DEF Rows
<1>2. row.head \in passed'[row.req]
  BY <1>1 DEF Grows, RowSound
<1>3. Known(row.prev)'
  BY KnownKept DEF RowSound
<1>4. ASSUME row.pull # 0
      PROVE  row.pull \in DOMAIN pulls' /\ pulls'[row.pull].req = row.req
  BY <1>4 DEF Grows, RowSound
<1>5. ASSUME row.pull # 0, MergedRow(row)
      PROVE  MergedRow(row)'
  <2>1. row.pull \in DOMAIN pulls
    BY <1>5 DEF RowSound
  <2>2. pulls[row.pull].state = "merged"
    BY <1>5 DEF MergedRow
  <2> QED BY <1>5, <2>1, <2>2 DEF Grows, MergedRow
<1> QED BY <1>2, <1>3, <1>4, <1>5 DEF RowSound

\* Rows that nobody writes stay sound.
LEMMA RowsKept ==
  ASSUME IInv, Grows, NEW p \in Proms, prom'[p] = prom[p], Prepared(p)'
  PROVE  RowSound(prom[p])'
<1>1. prom[p] \in Rows /\ RowSound(prom[p])
  BY DEF IInv, TypeOK, Prepared
<1>2. PICK row \in Rows : row = prom[p]
  BY <1>1
<1>3. RowSound(row)'
  BY <1>1, <1>2, RowKept
<1> QED BY <1>2, <1>3

\* A command that stays where it is keeps a sound memory.
LEMMA LocalKept ==
  ASSUME IInv, Grows, NEW c \in Procs, pc'[c] = pc[c], loc'[c] = loc[c]
  PROVE  LocalSound(c)'
<1> SUFFICES ASSUME pc[c] # "idle" PROVE LocalSound(c)'
  BY DEF LocalSound
<1>1. LocalSound(c)
  BY DEF IInv
<1>2. PICK row \in Rows : row = loc[c].row
  BY <1>1 DEF LocalSound
<1>3. RowSound(row)' /\ (row.pull # 0 /\ MergedRow(row) => MergedRow(row)')
  BY <1>1, <1>2, RowKept DEF LocalSound
<1> QED BY <1>1, <1>2, <1>3 DEF LocalSound, Mine, Grows, MergedRow

\* The commands after a step of one of them.
LEMMA Moved ==
  ASSUME IInv, Grows, NEW c \in Procs, LocalSound(c)',
         \A d \in Procs : d # c => pc'[d] = pc[d] /\ loc'[d] = loc[d]
  PROVE  \A d \in Procs : LocalSound(d)'
  BY LocalKept

\* A step that gives pc and loc back as they were for everybody but c.
LEMMA Steps ==
  ASSUME TypeOK, NEW c \in Procs, NEW label, NEW memory,
         Goto(c, label), loc' = [loc EXCEPT ![c] = memory]
  PROVE  /\ pc'[c] = label /\ loc'[c] = memory
         /\ \A d \in Procs : d # c => pc'[d] = pc[d] /\ loc'[d] = loc[d]
  BY DEF TypeOK, Goto

LEMMA Stays ==
  ASSUME TypeOK, NEW c \in Procs, NEW label, Goto(c, label), loc' = loc
  PROVE  /\ pc'[c] = label /\ loc'[c] = loc[c]
         /\ \A d \in Procs : d # c => pc'[d] = pc[d] /\ loc'[d] = loc[d]
  BY DEF TypeOK, Goto

LEMMA Finished ==
  ASSUME IInv, Grows, NEW c \in Procs, Goto(c, "idle"), loc' = [loc EXCEPT ![c] = Idle]
  PROVE  \A d \in Procs : LocalSound(d)'
<1>1. /\ pc'[c] = "idle"
      /\ \A d \in Procs : d # c => pc'[d] = pc[d] /\ loc'[d] = loc[d]
  BY Steps DEF IInv
<1>2. LocalSound(c)'
  BY <1>1 DEF LocalSound
<1> QED BY <1>1, <1>2, Moved

\* A step that changes the request, GitHub or the disk, but no command.
LEMMA Outside ==
  ASSUME IInv, TypeOK', Grows, UNCHANGED <<prom, link, pc, loc>>,
         \A r \in Requests : req'[r].verified \in passed'[r]
  PROVE  IInv'
<1>1. Known(link)'
  BY KnownKept DEF IInv
<1>2. \A p \in Proms : Prepared(p)' => RowSound(prom[p])'
  BY RowsKept
<1>3. \A c \in Procs : LocalSound(c)'
  BY LocalKept
<1> QED BY <1>1, <1>2, <1>3 DEF IInv

\* A step of a command that writes no row.
LEMMA NoRow ==
  ASSUME IInv, TypeOK', Grows, prom' = prom, req' = req \/ passed' = passed,
         \A r \in Requests : req'[r].verified = req[r].verified,
         Known(link)', \A d \in Procs : LocalSound(d)'
  PROVE  IInv'
<1>1. \A p \in Proms : Prepared(p)' => RowSound(prom[p])'
  BY RowsKept
<1>2. \A r \in Requests : req'[r].verified \in passed'[r]
  BY DEF IInv, Grows
<1> QED BY <1>1, <1>2 DEF IInv

\* A step of a command that writes its row.
LEMMA OwnRow ==
  ASSUME IInv, TypeOK', Grows, NEW p \in Proms, NEW row \in Rows, RowSound(row)',
         prom' = [prom EXCEPT ![p] = row],
         req' = req, link' = link, \A d \in Procs : LocalSound(d)'
  PROVE  IInv'
<1>1. prom'[p] = row /\ \A q \in Proms : q # p => prom'[q] = prom[q]
  BY DEF IInv, TypeOK
<1>2. \A q \in Proms : Prepared(q)' => RowSound(prom[q])'
  BY <1>1, RowsKept
<1>3. Known(link)' /\ \A r \in Requests : req'[r].verified \in passed'[r]
  BY KnownKept DEF IInv, Grows
<1> QED BY <1>2, <1>3 DEF IInv

\* update_promotion with a status that the row's pull request has reached.
LEMMA UpdateSound ==
  ASSUME IInv, Grows, NEW c \in Procs, pc[c] # "idle", NEW status \in Statuses,
         loc[c].row.pull # 0,
         status # "PR_OPEN" => MergedRow(loc[c].row),
         status # "PREPARED"
  PROVE  \E new \in Rows :
           /\ new = [loc[c].row EXCEPT !.status = status]
           /\ RowSound(new)'
           /\ MergedRow(loc[c].row) => MergedRow(new)'
<1>1. loc[c].row \in Rows /\ RowSound(loc[c].row)
  BY DEF IInv, LocalSound
<1>2. PICK old \in Rows : old = loc[c].row
  BY <1>1
<1>3. PICK new \in Rows : new = [old EXCEPT !.status = status]
  BY DEF Rows
<1>4. RowSound(old)' /\ (MergedRow(old) => MergedRow(old)')
  BY <1>1, <1>2, RowKept
<1>5. /\ new.req = old.req /\ new.head = old.head /\ new.prev = old.prev
      /\ new.pull = old.pull /\ new.status = status
  BY <1>3 DEF Rows
<1>6. MergedRow(old) => MergedRow(new)'
  BY <1>4, <1>5 DEF MergedRow
<1>7. RowSound(new)'
  BY <1>2, <1>4, <1>5, <1>6 DEF RowSound
<1> QED BY <1>2, <1>3, <1>6, <1>7

-----------------------------------------------------------------------------
(* The initial states, and the steps that no command makes.                *)

LEMMA InitIInv == Init => IInv
<1> SUFFICES ASSUME Init PROVE IInv
  OBVIOUS
<1>0. regime.first \in {Base, NoRelease}
  BY PromotionAssumption DEF Init
<1>1. TypeOK
  <2>1. 0 \in Heads /\ 1 \in Heads
    BY PromotionAssumption DEF Heads
  <2>2. /\ req \in [Requests -> [phase : {"ACTIVE", "VERIFIED", "CLOSED"},
                                 candidate : Heads, verified : Heads]]
        /\ passed \in [Requests -> SUBSET Heads] /\ branch \in [Requests -> Heads]
    BY <2>1 DEF Init
  <2>3. pulls \in Seq(Pulls) /\ Len(pulls) <= MaxPulls
    BY PromotionAssumption DEF Init
  <2> QED BY <1>0, <2>2, <2>3 DEF Init, TypeOK, Labels, Idle
<1>2. Known(link)
  BY DEF Init, Known
<1> QED BY <1>1, <1>2 DEF Init, IInv, LocalSound, Prepared

LEMMA RequestSteps ==
  ASSUME IInv, regime' = regime, NEW r \in Requests,
         Reopen(r) \/ CloseRequest(r) \/ Reverify(r) \/ Edit(r) \/ PrepareReopens(r)
  PROVE  IInv'
<1>1. TypeOK
  BY DEF IInv
<1>2. /\ prom' = prom /\ branch' = branch /\ pulls' = pulls /\ revert' = revert
      /\ releases' = releases /\ link' = link /\ sandbox' = sandbox
      /\ lease' = lease /\ pc' = pc /\ loc' = loc /\ good' = good
  BY DEF Reopen, CloseRequest, Reverify, Edit, PrepareReopens, Says, github, disk
<1>3. CASE Reverify(r)
  <2>1. PICK k \in {req[r].verified, req[r].verified + 1} :
          /\ k <= MaxHead
          /\ req' = [req EXCEPT ![r] = [phase |-> "VERIFIED", candidate |-> k, verified |-> k]]
          /\ passed' = [passed EXCEPT ![r] = @ \cup {k}]
    BY <1>3 DEF Reverify
  <2>2. k \in Heads
    BY <1>1, <2>1, PromotionAssumption DEF TypeOK, Heads
  <2>3. /\ req' \in [Requests -> [phase : {"ACTIVE", "VERIFIED", "CLOSED"},
                                  candidate : Heads, verified : Heads]]
        /\ passed' \in [Requests -> SUBSET Heads]
    BY <1>1, <2>1, <2>2 DEF TypeOK
  <2>4. TypeOK'
    BY <1>1, <1>2, <2>3 DEF TypeOK
  <2>5. Grows /\ \A s \in Requests : req'[s].verified \in passed'[s]
    BY <1>1, <1>2, <2>1 DEF TypeOK, Grows, IInv
  <2> QED BY <1>2, <2>4, <2>5, Outside
<1>4. CASE ~ Reverify(r)
  <2> DEFINE Req == [phase : {"ACTIVE", "VERIFIED", "CLOSED"}, candidate : Heads, verified : Heads]
  <2>1. /\ passed' = passed
        /\ \/ req' = [req EXCEPT ![r].phase = "ACTIVE"]
           \/ req' = [req EXCEPT ![r].phase = "CLOSED"]
           \/ req' = [req EXCEPT ![r].candidate = 0]
    BY <1>4 DEF Reopen, CloseRequest, Edit, PrepareReopens, Says
  <2>2. 0 \in Heads /\ req \in [Requests -> Req] /\ req[r] \in Req
    BY <1>1, PromotionAssumption DEF TypeOK, Heads
  <2>3. \E new \in Req : req' = [req EXCEPT ![r] = new] /\ new.verified = req[r].verified
    <3>1. CASE req' = [req EXCEPT ![r].phase = "ACTIVE"]
      <4>1. [req[r] EXCEPT !.phase = "ACTIVE"] \in Req
        BY <2>2
      <4> QED BY <2>2, <3>1, <4>1
    <3>2. CASE req' = [req EXCEPT ![r].phase = "CLOSED"]
      <4>1. [req[r] EXCEPT !.phase = "CLOSED"] \in Req
        BY <2>2
      <4> QED BY <2>2, <3>2, <4>1
    <3>3. CASE req' = [req EXCEPT ![r].candidate = 0]
      <4>1. [req[r] EXCEPT !.candidate = 0] \in Req
        BY <2>2
      <4> QED BY <2>2, <3>3, <4>1
    <3> QED BY <2>1, <3>1, <3>2, <3>3
  <2>4. /\ req' \in [Requests -> Req]
        /\ \A s \in Requests : req'[s].verified = req[s].verified
    BY <2>2, <2>3
  <2>5. TypeOK'
    BY <1>1, <1>2, <2>1, <2>4 DEF TypeOK
  <2>6. Grows
    BY <1>2, <2>1 DEF Grows
  <2> QED BY <1>2, <2>1, <2>4, <2>5, <2>6, Outside DEF IInv
<1> QED BY <1>3, <1>4

LEMMA PullSteps ==
  ASSUME IInv, regime' = regime, NEW n \in DOMAIN pulls, Merge(n) \/ Decline(n)
  PROVE  IInv'
<1>1. TypeOK
  BY DEF IInv
<1>2. pulls \in Seq(Pulls) /\ pulls[n] \in Pulls
  BY <1>1 DEF TypeOK
<1>3. PICK new \in Pulls :
        pulls[n].state = "open" /\ new.req = pulls[n].req /\ pulls' = [pulls EXCEPT ![n] = new]
  BY <1>1, <1>2 DEF Merge, Decline, TypeOK, Pulls
<1>4. /\ pulls' \in Seq(Pulls) /\ Len(pulls') = Len(pulls)
      /\ DOMAIN pulls' = DOMAIN pulls /\ pulls'[n] = new
      /\ \A m \in DOMAIN pulls : m # n => pulls'[m] = pulls[m]
  BY <1>2, <1>3
<1>5. UNCHANGED <<req, passed, prom, branch, revert, disk, lease, pc, loc, good>>
  BY DEF Merge, Decline
<1>6. TypeOK'
  BY <1>1, <1>4, <1>5 DEF TypeOK, disk
<1>7. Grows
  BY <1>3, <1>4, <1>5 DEF Grows, disk
<1> QED BY <1>5, <1>6, <1>7, Outside DEF IInv, disk

LEMMA LeaseSteps ==
  ASSUME IInv, regime' = regime, NEW r \in Requests, LeaseExpires(r)
  PROVE  IInv'
<1>1. TypeOK /\ UNCHANGED <<req, passed, prom, github, disk, pc, loc, good>>
  BY DEF IInv, LeaseExpires
<1>2. lease' \in [Requests -> Procs \cup {Nobody, Ghost}]
  BY <1>1 DEF TypeOK, LeaseExpires
<1>3. TypeOK'
  BY <1>1, <1>2 DEF TypeOK, github, disk
<1>4. Grows
  BY <1>1 DEF Grows, github, disk
<1> QED BY <1>1, <1>3, <1>4, Outside DEF IInv, disk

-----------------------------------------------------------------------------
(* The commands begin.                                                     *)

Memories == [prom : Proms \cup {None}, row : Rows \cup {None}]

LEMMA MemoryTyped ==
  ASSUME TypeOK, NEW c \in Procs, NEW label \in Labels, NEW memory \in Memories,
         Goto(c, label), loc' = [loc EXCEPT ![c] = memory]
  PROVE  pc' \in [Procs -> Labels] /\ loc' \in [Procs -> Memories]
  BY DEF TypeOK, Goto, Memories

LEMMA FinishTyped ==
  ASSUME TypeOK, NEW c \in Procs, Finish(c)
  PROVE  /\ pc' \in [Procs -> Labels] /\ loc' \in [Procs -> Memories]
         /\ lease' \in [Requests -> Procs \cup {Nobody, Ghost}]
<1>1. "idle" \in Labels /\ Idle \in Memories
  BY DEF Labels, Memories, Idle
<1>2. pc' \in [Procs -> Labels] /\ loc' \in [Procs -> Memories]
  BY <1>1, MemoryTyped DEF Finish
<1> QED BY <1>2 DEF TypeOK, Finish

Reverts == {"none", "branch", "open"}

LEMMA BeginIInv ==
  ASSUME IInv, regime' = regime, NEW c \in Procs, NEW p \in Proms, NEW row \in Rows,
         NEW label \in Labels, Begin(c, label, p, row), RowSound(row),
         label \notin {"opened", "release", "switch"},
         label \in BeforeOpen => row.status = "PREPARED",
         label \in AfterMerge => row.pull # 0 /\ MergedRow(row),
         UNCHANGED <<req, passed, prom, branch, pulls, releases, link, good>>,
         sandbox' \subseteq Proms, revert' \in [Proms -> Reverts]
  PROVE  IInv'
<1> DEFINE memory == [prom |-> p, row |-> row]
<1>1. TypeOK /\ memory \in Memories
  BY DEF IInv, Memories
<1>2. Goto(c, label) /\ loc' = [loc EXCEPT ![c] = memory]
  BY DEF Begin
<1>3. pc' \in [Procs -> Labels] /\ loc' \in [Procs -> Memories]
  BY <1>1, <1>2, MemoryTyped
<1>4. lease' \in [Requests -> Procs \cup {Nobody, Ghost}]
  BY <1>1 DEF Begin, TypeOK
<1>5. TypeOK'
  BY <1>1, <1>3, <1>4 DEF TypeOK, Memories, Reverts
<1>6. Grows
  BY DEF Grows
<1>7. /\ pc'[c] = label /\ loc'[c] = memory
      /\ \A d \in Procs : d # c => pc'[d] = pc[d] /\ loc'[d] = loc[d]
  BY <1>1, <1>2, Steps
<1>8. RowSound(row)' /\ (label \in AfterMerge => MergedRow(row)')
  BY <1>6, RowKept
<1>9. LocalSound(c)'
  BY <1>7, <1>8 DEF LocalSound, Mine, MergedRow
<1>10. \A d \in Procs : LocalSound(d)'
  BY <1>6, <1>7, <1>9, Moved
<1>11. Known(link)'
  BY <1>6, KnownKept DEF IInv
<1> QED BY <1>5, <1>6, <1>10, <1>11, NoRow

LEMMA StartSteps ==
  ASSUME IInv, regime' = regime, NEW c \in Procs, Starts(c)
  PROVE  IInv'
<1>1. TypeOK
  BY DEF IInv
<1>2. ASSUME NEW p \in Proms, NEW r \in Requests, Prepare(c, p, r)
      PROVE  IInv'
  <2>1. PICK row \in Rows : row = Draft(r, req[r].candidate)
    <3>1. req[r].candidate \in Heads /\ link \in Proms \cup {Base, NoRelease}
      BY <1>1 DEF TypeOK
    <3>2. Draft(r, req[r].candidate) \in Rows
      BY <3>1, PromotionAssumption DEF Draft, Rows, Statuses
    <3> QED BY <3>2
  <2>2. RowSound(row)
    BY <1>2, <2>1 DEF Prepare, IInv, RowSound, Draft
  <2>3. Begin(c, "receipt", p, row) /\ row.status = "PREPARED"
    BY <1>2, <2>1 DEF Prepare, Draft
  <2>4. /\ UNCHANGED <<req, passed, prom, branch, pulls, releases, link, good>>
        /\ sandbox' \subseteq Proms /\ revert' \in [Proms -> Reverts]
    BY <1>1, <1>2 DEF Prepare, github, disk, TypeOK, Reverts
  <2> QED BY <2>2, <2>3, <2>4, BeginIInv DEF Labels, BeforeOpen, AfterMerge
<1>3. ASSUME NEW p \in Proms, NEW label \in {"push", "merged", "canary_row", "restore", "revert"},
             Prepared(p), Begin(c, label, p, prom[p]),
             label = "push" => prom[p].status = "PREPARED",
             label # "push" => prom[p].status # "PREPARED" /\ MergedRow(prom[p]),
             UNCHANGED <<req, passed, prom, branch, pulls, releases, link, good>>,
             sandbox' \subseteq Proms, revert' \in [Proms -> Reverts]
      PROVE  IInv'
  <2>1. PICK row \in Rows : row = prom[p]
    BY <1>1, <1>3 DEF TypeOK, Prepared
  <2>2. RowSound(row)
    BY <1>3, <2>1 DEF IInv
  <2>3. label # "push" => row.pull # 0 /\ MergedRow(row)
    BY <1>3, <2>1, <2>2 DEF RowSound
  <2>4. Begin(c, label, p, row)
    BY <1>3, <2>1
  <2>5. /\ label \in Labels /\ label \notin {"opened", "release", "switch"}
        /\ label \in BeforeOpen => row.status = "PREPARED"
        /\ label \in AfterMerge => row.pull # 0 /\ MergedRow(row)
    BY <1>3, <2>1, <2>3 DEF Labels, BeforeOpen, AfterMerge
  <2> QED BY <1>3, <2>2, <2>4, <2>5, BeginIInv
<1>4. ASSUME NEW p \in Proms, Prepared(p),
             prom[p].status \notin {"PREPARED", "PR_OPEN"}
      PROVE  MergedRow(prom[p])
  BY <1>4 DEF IInv, RowSound
<1>5. ASSUME NEW p \in Proms, OpenPr(c, p)
      PROVE  IInv'
  <2>1. Prepared(p) /\ prom[p].status = "PREPARED" /\ Begin(c, "push", p, prom[p])
    BY <1>5 DEF OpenPr, Command, Status
  <2>2. /\ UNCHANGED <<req, passed, prom, branch, pulls, releases, link, good>>
        /\ sandbox' \subseteq Proms /\ revert' \in [Proms -> Reverts]
    BY <1>1, <1>5 DEF OpenPr, github, disk, TypeOK, Reverts
  <2> QED BY <1>3, <2>1, <2>2
<1>6. ASSUME NEW p \in Proms, ObserveMerge(c, p)
      PROVE  IInv'
  <2>1. /\ Prepared(p) /\ prom[p].status = "PR_OPEN"
        /\ Begin(c, "merged", p, prom[p])
    BY <1>6 DEF ObserveMerge, Command, Status
  <2>2. MergedRow(prom[p])
    <3>1. prom[p].pull \in DOMAIN pulls /\ pulls[prom[p].pull].req = prom[p].req
      BY <2>1 DEF IInv, RowSound
    <3>2. pulls[prom[p].pull] \in Pulls
      BY <1>1, <3>1 DEF TypeOK
    <3>3. pulls[prom[p].pull].state = "merged" /\ pulls[prom[p].pull].head = prom[p].head
      BY <1>6 DEF ObserveMerge
    <3> QED BY <3>1, <3>2, <3>3 DEF MergedRow, Pulls
  <2>3. /\ UNCHANGED <<req, passed, prom, branch, pulls, releases, link, good>>
        /\ sandbox' \subseteq Proms /\ revert' \in [Proms -> Reverts]
    BY <1>1, <1>6 DEF ObserveMerge, github, disk, TypeOK, Reverts
  <2> QED BY <1>3, <2>1, <2>2, <2>3
<1>7. ASSUME NEW p \in Proms, RunCanary(c, p)
      PROVE  IInv'
  <2>1. /\ Prepared(p) /\ prom[p].status = "MERGED"
        /\ Begin(c, "canary_row", p, prom[p])
    BY <1>7 DEF RunCanary, Command, Status
  <2>2. /\ UNCHANGED <<req, passed, prom, branch, pulls, releases, link, good>>
        /\ sandbox' \subseteq Proms /\ revert' \in [Proms -> Reverts]
    BY <1>1, <1>7 DEF RunCanary, github, TypeOK, Reverts
  <2> QED BY <1>3, <1>4, <2>1, <2>2
<1>8. ASSUME NEW p \in Proms, RollBack(c, p)
      PROVE  IInv'
  <2>1. /\ Prepared(p) /\ prom[p].status \in {"ACTIVE", "FAILED", "CANARY"}
        /\ Begin(c, "restore", p, prom[p])
    BY <1>8 DEF RollBack, Command, Status
  <2>2. /\ UNCHANGED <<req, passed, prom, branch, pulls, releases, link, good>>
        /\ sandbox' \subseteq Proms /\ revert' \in [Proms -> Reverts]
    BY <1>1, <1>8 DEF RollBack, github, disk, TypeOK, Reverts
  <2> QED BY <1>3, <1>4, <2>1, <2>2
<1>9. ASSUME NEW p \in Proms, OpenRevert(c, p)
      PROVE  IInv'
  <2>1. /\ Prepared(p) /\ prom[p].status = "ROLLED_BACK"
        /\ Begin(c, "revert", p, prom[p])
    BY <1>9 DEF OpenRevert, Command, Status
  <2>2. /\ UNCHANGED <<req, passed, prom, branch, pulls, releases, link, good>>
        /\ sandbox' \subseteq Proms /\ revert' \in [Proms -> Reverts]
    BY <1>1, <1>9 DEF OpenRevert, disk, TypeOK, Reverts
  <2> QED BY <1>3, <1>4, <2>1, <2>2
<1> QED BY <1>2, <1>5, <1>6, <1>7, <1>8, <1>9 DEF Starts

-----------------------------------------------------------------------------
(* The commands go on, and end.                                            *)

\* What a command that is under way may rely on.
LEMMA UnderWay ==
  ASSUME IInv, NEW c \in Procs, pc[c] # "idle"
  PROVE  /\ Mine(c) \in Proms /\ loc[c].row \in Rows /\ loc[c] \in Memories
         /\ RowSound(loc[c].row)
         /\ pc[c] \in BeforeOpen => loc[c].row.status = "PREPARED"
         /\ pc[c] = "opened" => loc[c].row.pull # 0
         /\ pc[c] \in AfterMerge => loc[c].row.pull # 0 /\ MergedRow(loc[c].row)
         /\ pc[c] \in {"release", "switch"} => Mine(c) \in good
         /\ pc[c] = "switch" => Mine(c) \in releases
<1>1. LocalSound(c) /\ loc[c] \in Memories
  BY DEF IInv, TypeOK, Memories
<1> QED BY <1>1 DEF LocalSound

\* A command ends, and leaves the rows alone.
LEMMA EndIInv ==
  ASSUME IInv, regime' = regime, NEW c \in Procs, pc[c] # "idle",
         Goto(c, "idle"), loc' = [loc EXCEPT ![c] = Idle],
         lease' \in [Requests -> Procs \cup {Nobody, Ghost}],
         UNCHANGED <<passed, prom, github, disk, good>>,
         req' = req \/ req' = [req EXCEPT ![RequestOf(c)].phase = "CLOSED"]
  PROVE  IInv'
<1>1. TypeOK /\ "idle" \in Labels /\ Idle \in Memories
  BY DEF IInv, Labels, Memories, Idle
<1>2. pc' \in [Procs -> Labels] /\ loc' \in [Procs -> Memories]
  BY <1>1, MemoryTyped
<1>3. /\ req' \in [Requests -> [phase : {"ACTIVE", "VERIFIED", "CLOSED"},
                                candidate : Heads, verified : Heads]]
      /\ \A r \in Requests : req'[r].verified = req[r].verified
  <2> DEFINE r == RequestOf(c)
             new == [req[r] EXCEPT !.phase = "CLOSED"]
  <2>1. r \in Requests
    BY UnderWay DEF RequestOf, Rows
  <2>2. /\ new \in [phase : {"ACTIVE", "VERIFIED", "CLOSED"}, candidate : Heads, verified : Heads]
        /\ new.verified = req[r].verified
    BY <1>1, <2>1 DEF TypeOK
  <2>3. req' = req \/ req' = [req EXCEPT ![r] = new]
    OBVIOUS
  <2>4. req \in [Requests -> [phase : {"ACTIVE", "VERIFIED", "CLOSED"},
                              candidate : Heads, verified : Heads]]
    BY <1>1 DEF TypeOK
  <2> HIDE DEF r, new
  <2>5. CASE req' = req
    BY <2>4, <2>5
  <2>6. CASE req' = [req EXCEPT ![r] = new]
    BY <2>1, <2>2, <2>4, <2>6
  <2> QED BY <2>3, <2>5, <2>6
<1>4. TypeOK'
  BY <1>1, <1>2, <1>3 DEF TypeOK, Memories, github, disk
<1>5. Grows
  BY DEF Grows, github, disk
<1>6. \A d \in Procs : LocalSound(d)'
  BY <1>5, Finished
<1>7. Known(link)'
  BY <1>5, KnownKept DEF IInv, disk
<1> QED BY <1>3, <1>4, <1>5, <1>6, <1>7, NoRow

\* A command goes on with the same memory, and leaves the rows alone.
LEMMA GoOnIInv ==
  ASSUME IInv, regime' = regime, NEW c \in Procs, pc[c] # "idle", NEW label \in Labels,
         Goto(c, label), loc' = loc, lease' = lease,
         UNCHANGED <<req, passed, prom, pulls, revert>>,
         branch' \in [Requests -> Heads],
         sandbox' \subseteq Proms,
         good \subseteq good' /\ good' \subseteq Proms,
         releases \subseteq releases' /\ releases' \subseteq Proms \cup {Base},
         link' \in Proms \cup {Base, NoRelease}, Known(link)',
         label # "opened",
         label \in BeforeOpen => pc[c] \in BeforeOpen,
         label \in AfterMerge => pc[c] \in AfterMerge,
         label \in {"release", "switch"} => Mine(c) \in good',
         label = "switch" => Mine(c) \in releases'
  PROVE  IInv'
<1>1. TypeOK
  BY DEF IInv
<1>2. pc' \in [Procs -> Labels]
  BY <1>1 DEF TypeOK, Goto
<1>3. TypeOK'
  BY <1>1, <1>2 DEF TypeOK
<1>4. Grows
  BY DEF Grows
<1>5. /\ pc'[c] = label /\ loc'[c] = loc[c]
      /\ \A d \in Procs : d # c => pc'[d] = pc[d] /\ loc'[d] = loc[d]
  BY <1>1, Stays
<1>6. PICK row \in Rows : row = loc[c].row /\ RowSound(row)
  BY UnderWay
<1>7. RowSound(row)' /\ (row.pull # 0 /\ MergedRow(row) => MergedRow(row)')
  BY <1>4, <1>6, RowKept
<1>8. /\ label \in AfterMerge => row.pull # 0 /\ MergedRow(row)
      /\ label \in BeforeOpen => row.status = "PREPARED"
  BY <1>6, UnderWay
<1>9. Mine(c)' = Mine(c) /\ Mine(c) \in Proms
  BY <1>5, UnderWay DEF Mine
<1>10. LocalSound(c)'
  BY <1>5, <1>6, <1>7, <1>8, <1>9 DEF LocalSound, MergedRow
<1>11. \A d \in Procs : LocalSound(d)'
  BY <1>4, <1>5, <1>10, Moved
<1> QED BY <1>3, <1>4, <1>11, NoRow

\* update_promotion, and the command ends or goes on.
LEMMA WriteIInv ==
  ASSUME IInv, regime' = regime, NEW c \in Procs, pc[c] # "idle", NEW status \in Statuses,
         prom' = Updated(c, status), status # "PREPARED",
         loc[c].row.pull # 0, status # "PR_OPEN" => MergedRow(loc[c].row),
         UNCHANGED <<req, passed, branch, pulls, disk, good>>, revert' \in [Proms -> Reverts],
         \/ Finish(c)
         \/ \E label \in {"profiles", "close"} :
              Goto(c, label) /\ loc' = loc /\ lease' = lease /\ status # "PR_OPEN"
         \/ /\ Goto(c, "restore") /\ lease' = lease /\ status # "PR_OPEN"
            /\ loc' = [loc EXCEPT ![c].row.status = status]
  PROVE  IInv'
<1>1. TypeOK
  BY DEF IInv
<1>2. Grows
  BY DEF Grows, disk
<1>3. PICK new \in Rows :
        /\ new = [loc[c].row EXCEPT !.status = status]
        /\ RowSound(new)'
        /\ MergedRow(loc[c].row) => MergedRow(new)'
  BY <1>2, UpdateSound
<1>4. PICK p \in Proms : p = Mine(c)
  BY UnderWay
<1>5. prom' = [prom EXCEPT ![p] = new] /\ prom' \in [Proms -> Rows \cup {None}]
  BY <1>1, <1>3, <1>4 DEF Updated, TypeOK
<1>6. /\ pc' \in [Procs -> Labels] /\ loc' \in [Procs -> Memories]
      /\ lease' \in [Requests -> Procs \cup {Nobody, Ghost}]
      /\ \A d \in Procs : LocalSound(d)'
  <2>1. CASE Finish(c)
    BY <1>1, <1>2, <2>1, FinishTyped, Finished DEF Finish
  <2>2. ASSUME NEW label \in {"profiles", "close"},
               Goto(c, label), loc' = loc, lease' = lease, status # "PR_OPEN"
        PROVE  /\ pc' \in [Procs -> Labels] /\ loc' \in [Procs -> Memories]
               /\ lease' \in [Requests -> Procs \cup {Nobody, Ghost}]
               /\ \A d \in Procs : LocalSound(d)'
    <3>1. pc' \in [Procs -> Labels] /\ loc' \in [Procs -> Memories]
      BY <1>1, <2>2 DEF TypeOK, Goto, Labels, Memories
    <3>2. /\ pc'[c] = label /\ loc'[c] = loc[c]
          /\ \A d \in Procs : d # c => pc'[d] = pc[d] /\ loc'[d] = loc[d]
      BY <1>1, <2>2, Stays
    <3>3. PICK row \in Rows : row = loc[c].row /\ RowSound(row) /\ MergedRow(row)
      BY <2>2, UnderWay
    <3>4. RowSound(row)' /\ MergedRow(row)' /\ row.pull # 0
      BY <1>2, <3>3, RowKept
    <3>5. LocalSound(c)'
      BY <1>4, <3>2, <3>3, <3>4 DEF LocalSound, Mine, MergedRow, BeforeOpen
    <3>6. \A d \in Procs : LocalSound(d)'
      BY <1>2, <3>2, <3>5, Moved
    <3> QED BY <1>1, <2>2, <3>1, <3>6 DEF TypeOK
  <2>3. CASE /\ Goto(c, "restore") /\ lease' = lease /\ status # "PR_OPEN"
             /\ loc' = [loc EXCEPT ![c].row.status = status]
    <3> DEFINE memory == [prom |-> p, row |-> new]
    <3>1. memory \in Memories /\ "restore" \in Labels
      BY DEF Memories, Labels
    <3>2. loc' = [loc EXCEPT ![c] = memory]
      <4>1. loc' = [loc EXCEPT ![c] = [loc[c] EXCEPT !.row = [loc[c].row EXCEPT !.status = status]]]
        BY <2>3
      <4>2. [loc[c] EXCEPT !.row = new] = memory
        BY <1>4, UnderWay DEF Mine, Memories
      <4> QED BY <1>3, <4>1, <4>2
    <3>3. pc' \in [Procs -> Labels] /\ loc' \in [Procs -> Memories]
      BY <1>1, <2>3, <3>1, <3>2, MemoryTyped
    <3>4. /\ pc'[c] = "restore" /\ loc'[c] = memory
          /\ \A d \in Procs : d # c => pc'[d] = pc[d] /\ loc'[d] = loc[d]
      BY <1>1, <2>3, <3>2, Steps
    <3>5. new.pull # 0 /\ MergedRow(new)'
      BY <1>3, <2>3 DEF Rows
    <3>6. LocalSound(c)'
      <4>1. loc'[c].row = new /\ loc'[c].prom = p
        BY <3>4
      <4> QED BY <1>3, <3>4, <3>5, <4>1 DEF LocalSound, Mine, MergedRow, RowSound, Known, BeforeOpen
    <3>7. \A d \in Procs : LocalSound(d)'
      BY <1>2, <3>4, <3>6, Moved
    <3> QED BY <1>1, <2>3, <3>3, <3>7 DEF TypeOK
  <2> QED BY <2>1, <2>2, <2>3
<1>7. TypeOK'
  BY <1>1, <1>5, <1>6 DEF TypeOK, Memories, Reverts, disk
<1> QED BY <1>2, <1>3, <1>5, <1>6, <1>7, OwnRow DEF disk

LEMMA RowSteps ==
  ASSUME IInv, regime' = regime, NEW c \in Procs,
         \/ PrOpened(c) \/ MergeObserved(c) \/ CanaryStarts(c) \/ CanaryFails(c)
         \/ Activated(c) \/ RolledBack(c) \/ RevertOpened(c)
  PROVE  IInv'
<1>1. TypeOK
  BY DEF IInv
<1>2. CASE PrOpened(c)
  BY <1>1, <1>2, UnderWay, WriteIInv DEF PrOpened, Statuses, Reverts, TypeOK, github
<1>3. CASE MergeObserved(c)
  BY <1>1, <1>3, UnderWay, WriteIInv DEF MergeObserved, Statuses, Reverts, TypeOK, github, AfterMerge
<1>4. CASE CanaryStarts(c)
  BY <1>1, <1>4, UnderWay, WriteIInv DEF CanaryStarts, Statuses, Reverts, TypeOK, github, AfterMerge
<1>5. CASE CanaryFails(c)
  BY <1>1, <1>5, UnderWay, WriteIInv DEF CanaryFails, Statuses, Reverts, TypeOK, github, AfterMerge
<1>6. CASE Activated(c)
  BY <1>1, <1>6, UnderWay, WriteIInv DEF Activated, Statuses, Reverts, TypeOK, github, AfterMerge
<1>7. CASE RolledBack(c)
  BY <1>1, <1>7, UnderWay, WriteIInv DEF RolledBack, Statuses, Reverts, TypeOK, github, AfterMerge
<1>8. CASE RevertOpened(c)
  <2>1. revert' \in [Proms -> Reverts]
    BY <1>1, <1>8 DEF RevertOpened, TypeOK, Reverts
  <2> QED BY <1>8, <2>1, UnderWay, WriteIInv DEF RevertOpened, Statuses, AfterMerge
<1> QED BY <1>2, <1>3, <1>4, <1>5, <1>6, <1>7, <1>8

\* The row of a new promotion is what prepare_promotion made of the request.
LEMMA ReceiptStep ==
  ASSUME IInv, regime' = regime, NEW c \in Procs, Receipt(c)
  PROVE  IInv'
<1>1. TypeOK /\ pc[c] # "idle"
  BY DEF IInv, Receipt
<1>2. PICK row \in Rows : row = loc[c].row /\ RowSound(row)
  BY <1>1, UnderWay
<1>3. PICK p \in Proms : p = Mine(c)
  BY <1>1, UnderWay
<1>4. prom' = [prom EXCEPT ![p] = row] /\ prom' \in [Proms -> Rows \cup {None}]
  BY <1>1, <1>2, <1>3 DEF Receipt, TypeOK
<1>5. Finish(c) /\ UNCHANGED <<req, passed, github, disk, good>>
  BY DEF Receipt
<1>6. Grows
  BY <1>5 DEF Grows, github, disk
<1>7. /\ pc' \in [Procs -> Labels] /\ loc' \in [Procs -> Memories]
      /\ lease' \in [Requests -> Procs \cup {Nobody, Ghost}]
  BY <1>1, <1>5, FinishTyped
<1>8. TypeOK'
  BY <1>1, <1>4, <1>5, <1>7 DEF TypeOK, Memories, github, disk
<1>9. RowSound(row)'
  BY <1>2, <1>6, RowKept
<1>10. \A d \in Procs : LocalSound(d)'
  BY <1>5, <1>6, Finished DEF Finish
<1> QED BY <1>4, <1>5, <1>6, <1>8, <1>9, <1>10, OwnRow DEF disk

\* The number of a new pull request is kept until the row has it.
LEMMA CreateStep ==
  ASSUME IInv, regime' = regime, NEW c \in Procs, CreatePr(c)
  PROVE  IInv'
<1>1. TypeOK /\ pc[c] # "idle" /\ Goto(c, "opened")
  BY DEF IInv, CreatePr
<1>2. PICK old \in Rows : old = loc[c].row /\ RowSound(old)
  BY <1>1, UnderWay
<1>3. PICK p \in Proms : p = Mine(c)
  BY <1>1, UnderWay
<1>4. PICK pull \in Pulls : pull = [req |-> old.req, state |-> "open", head |-> 0]
  <2>1. old.req \in Requests /\ 0 \in Heads
    BY <1>2, PromotionAssumption DEF Rows, Heads
  <2> QED BY <2>1 DEF Pulls
<1>5. /\ pulls \in Seq(Pulls) /\ Len(pulls) < MaxPulls /\ pulls' = Append(pulls, pull)
  BY <1>1, <1>2, <1>4 DEF CreatePr, TypeOK, RequestOf
<1>6. PICK n \in 1 .. MaxPulls : n = Len(pulls) + 1
  BY <1>5, PromotionAssumption
<1>7. /\ pulls' \in Seq(Pulls) /\ Len(pulls') = n /\ n \in DOMAIN pulls' /\ pulls'[n] = pull
      /\ \A m \in DOMAIN pulls : m \in DOMAIN pulls' /\ pulls'[m] = pulls[m]
  BY <1>5, <1>6
<1>8. UNCHANGED <<req, passed, prom, branch, revert, disk, lease, good>>
  BY DEF CreatePr
<1>9. Grows
  BY <1>7, <1>8 DEF Grows, disk
<1>10. PICK row \in Rows : row = [old EXCEPT !.pull = n]
  <2>1. n \in 0 .. MaxPulls
    BY <1>6, PromotionAssumption
  <2>2. [old EXCEPT !.pull = n] \in Rows
    BY <1>2, <2>1 DEF Rows
  <2> QED BY <2>2
<1> DEFINE memory == [prom |-> p, row |-> row]
<1>11. memory \in Memories /\ "opened" \in Labels
  BY DEF Memories, Labels
<1>12. loc' = [loc EXCEPT ![c] = memory]
  <2>1. loc' = [loc EXCEPT ![c] = [loc[c] EXCEPT !.row = [loc[c].row EXCEPT !.pull = n]]]
    BY <1>6 DEF CreatePr
  <2>2. [loc[c] EXCEPT !.row = row] = memory
    BY <1>1, <1>3, UnderWay DEF Mine, Memories
  <2> QED BY <1>2, <1>10, <2>1, <2>2
<1>13. pc' \in [Procs -> Labels] /\ loc' \in [Procs -> Memories]
  BY <1>1, <1>11, <1>12, MemoryTyped
<1>14. TypeOK'
  <2>1. Len(pulls') <= MaxPulls
    BY <1>6, <1>7
  <2> QED BY <1>1, <1>7, <1>8, <1>13, <2>1 DEF TypeOK, Memories, disk
<1>15. /\ pc'[c] = "opened" /\ loc'[c] = memory
       /\ \A d \in Procs : d # c => pc'[d] = pc[d] /\ loc'[d] = loc[d]
  BY <1>1, <1>12, Steps
<1>16. /\ row.req = old.req /\ row.head = old.head /\ row.prev = old.prev
       /\ row.status = old.status /\ row.pull = n /\ n # 0
  BY <1>10 DEF Rows
<1>17. RowSound(old)' /\ old.status = "PREPARED"
  <2>1. pc[c] = "create"
    BY DEF CreatePr
  <2>2. old.status = "PREPARED"
    BY <1>1, <1>2, <2>1, UnderWay DEF BeforeOpen
  <2> QED BY <1>2, <1>9, <2>2, RowKept
<1>18. RowSound(row)'
  BY <1>4, <1>7, <1>16, <1>17 DEF RowSound
<1>19. loc'[c].row = row /\ loc'[c].prom = p
  BY <1>15
<1>20. LocalSound(c)'
  BY <1>15, <1>16, <1>18, <1>19 DEF LocalSound, Mine, RowSound, Known, MergedRow, BeforeOpen, AfterMerge
<1>21. \A d \in Procs : LocalSound(d)'
  BY <1>9, <1>15, <1>20, Moved
<1>22. Known(link)'
  BY <1>8, <1>9, KnownKept DEF IInv, disk
<1> QED BY <1>8, <1>9, <1>14, <1>21, <1>22, NoRow

LEMMA OtherSteps ==
  ASSUME IInv, regime' = regime, NEW c \in Procs,
         \/ Push(c) \/ CreateRefused(c) \/ (\E pass \in BOOLEAN : Profiles(c, pass))
         \/ Release(c) \/ ReleaseFails(c) \/ Switch(c) \/ Closes(c)
         \/ Restore(c) \/ RevertFails(c) \/ Crash(c)
  PROVE  IInv'
<1>1. TypeOK /\ Known(link)
  BY DEF IInv
<1>2. CASE Push(c)
  <2>1. pc[c] # "idle" /\ Goto(c, "create") /\ pc[c] = "push"
    BY <1>2 DEF Push
  <2>2. RequestOf(c) \in Requests
    BY <2>1, UnderWay DEF RequestOf, Rows
  <2>3. branch' \in [Requests -> Heads]
    BY <1>1, <1>2, <2>2 DEF Push, TypeOK
  <2>4. Known(link)'
    BY <1>1, <1>2 DEF Push, Known, disk
  <2>5. /\ "create" \in Labels \cap BeforeOpen /\ "push" \in BeforeOpen
        /\ "create" \notin AfterMerge \cup {"release", "switch", "opened"}
    BY DEF Labels, BeforeOpen, AfterMerge
  <2> QED BY <1>1, <1>2, <2>1, <2>3, <2>4, <2>5, GoOnIInv DEF Push, TypeOK, disk
<1>3. CASE CreateRefused(c) \/ ReleaseFails(c) \/ Closes(c) \/ RevertFails(c)
  <2>1. pc[c] # "idle" /\ Finish(c)
    BY <1>3 DEF CreateRefused, ReleaseFails, Closes, RevertFails
  <2>2. /\ UNCHANGED <<passed, prom, github, disk, good>>
        /\ req' = req \/ req' = [req EXCEPT ![RequestOf(c)].phase = "CLOSED"]
    BY <1>3 DEF CreateRefused, ReleaseFails, Closes, RevertFails
  <2>3. lease' \in [Requests -> Procs \cup {Nobody, Ghost}]
    BY <1>1, <2>1, FinishTyped
  <2> QED BY <2>1, <2>2, <2>3, EndIInv DEF Finish
<1>4. CASE Crash(c)
  <2>1. lease' \in [Requests -> Procs \cup {Nobody, Ghost}]
    BY <1>1, <1>4 DEF Crash, TypeOK
  <2> QED BY <1>4, <2>1, EndIInv DEF Crash
<1>5. ASSUME NEW pass \in BOOLEAN, Profiles(c, pass)
      PROVE  IInv'
  <2>1. pc[c] = "profiles" /\ Mine(c) \in Proms
    BY <1>5, UnderWay DEF Profiles
  <2>2. /\ good \subseteq good' /\ good' \subseteq Proms /\ sandbox' \subseteq Proms
        /\ pass => Mine(c) \in good'
    BY <1>1, <1>5, <2>1 DEF Profiles, TypeOK
  <2>3. Known(link)'
    BY <1>1, <1>5, <2>2 DEF Profiles, Known
  <2>4. /\ {"release", "canary_fails"} \subseteq Labels \ (BeforeOpen \cup {"opened", "switch"})
        /\ "profiles" \in AfterMerge
    BY DEF Labels, BeforeOpen, AfterMerge
  <2>5. CASE pass
    BY <1>1, <1>5, <2>1, <2>2, <2>3, <2>4, <2>5, GoOnIInv DEF Profiles, TypeOK, github
  <2>6. CASE ~ pass
    BY <1>1, <1>5, <2>1, <2>2, <2>3, <2>4, <2>6, GoOnIInv DEF Profiles, TypeOK, github
  <2> QED BY <2>5, <2>6
<1>6. CASE Release(c)
  <2>1. pc[c] = "release" /\ Mine(c) \in Proms /\ Mine(c) \in good
    BY <1>6, UnderWay DEF Release
  <2>2. /\ releases \subseteq releases' /\ releases' \subseteq Proms \cup {Base}
        /\ Mine(c) \in releases'
    BY <1>1, <1>6, <2>1 DEF Release, TypeOK
  <2>3. Known(link)'
    BY <1>1, <1>6, <2>2 DEF Release, Known
  <2>4. /\ "switch" \in Labels \ (BeforeOpen \cup {"opened"})
        /\ "release" \in AfterMerge
    BY DEF Labels, BeforeOpen, AfterMerge
  <2> QED BY <1>1, <1>6, <2>1, <2>2, <2>3, <2>4, GoOnIInv DEF Release, TypeOK, github
<1>7. CASE Switch(c)
  <2>1. /\ pc[c] = "switch" /\ Mine(c) \in Proms /\ Mine(c) \in good
        /\ Mine(c) \in releases
    BY <1>7, UnderWay DEF Switch
  <2>2. link' \in Proms \cup {Base, NoRelease} /\ Known(link)'
    BY <1>7, <2>1 DEF Switch, Known
  <2>3. /\ "active_row" \in Labels \ (BeforeOpen \cup {"opened", "release", "switch"})
        /\ "switch" \in AfterMerge
    BY DEF Labels, BeforeOpen, AfterMerge
  <2> QED BY <1>1, <1>7, <2>1, <2>2, <2>3, GoOnIInv DEF Switch, TypeOK, github
<1>8. CASE Restore(c)
  <2>1. /\ pc[c] = "restore" /\ loc[c].row \in Rows /\ Known(loc[c].row.prev)
    BY <1>8, UnderWay DEF Restore, RowSound
  <2>2. link' \in Proms \cup {Base, NoRelease} /\ Known(link)'
    BY <1>1, <1>8, <2>1 DEF Restore, Known, Rows, TypeOK
  <2>3. /\ "rolled_back" \in Labels \ (BeforeOpen \cup {"opened", "release", "switch"})
        /\ "restore" \in AfterMerge
    BY DEF Labels, BeforeOpen, AfterMerge
  <2> QED BY <1>1, <1>8, <2>1, <2>2, <2>3, GoOnIInv DEF Restore, TypeOK, github
<1> QED BY <1>2, <1>3, <1>4, <1>5, <1>6, <1>7, <1>8

\* Every step preserves the invariant.
LEMMA NextIInv == IInv /\ [Next]_vars => IInv'
<1> SUFFICES ASSUME IInv, [Next]_vars PROVE IInv'
  OBVIOUS
<1>1. CASE UNCHANGED vars
  BY <1>1 DEF vars, github, disk, IInv, TypeOK, Known, Prepared, RowSound, MergedRow,
     LocalSound, Mine
<1>2. CASE Next
  <2>1. regime' = regime
    BY <1>2 DEF Next
  <2>2. ASSUME NEW c \in Procs, Step(c)
        PROVE  IInv'
    BY <2>1, <2>2, RowSteps, ReceiptStep, CreateStep, OtherSteps DEF Step
  <2>3. ASSUME NEW c \in Procs, Starts(c)
        PROVE  IInv'
    BY <2>1, <2>3, StartSteps
  <2>4. ASSUME NEW c \in Procs, Crash(c) \/ ReleaseFails(c) \/ RevertFails(c)
        PROVE  IInv'
    BY <2>1, <2>4, OtherSteps
  <2>5. ASSUME NEW r \in Requests,
               \/ Reopen(r) \/ CloseRequest(r) \/ Reverify(r) \/ Edit(r)
               \/ PrepareReopens(r) \/ LeaseExpires(r)
        PROVE  IInv'
    BY <2>1, <2>5, RequestSteps, LeaseSteps
  <2>6. ASSUME NEW n \in DOMAIN pulls, Merge(n) \/ Decline(n)
        PROVE  IInv'
    BY <2>1, <2>6, PullSteps
  <2> QED BY <1>2, <2>2, <2>3, <2>4, <2>5, <2>6 DEF Next
<1> QED BY <1>1, <1>2

-----------------------------------------------------------------------------
(* The theorems that hold whatever fails.                                 *)

\* The invariant holds whatever crashes, overlaps or loses its lease.
THEOREM Sound == Spec => []IInv
<1> QED BY InitIInv, NextIInv, PTL DEF Spec

\* Every row and every command's memory keeps its type.
THEOREM TypeCorrect == Spec => []TypeOK
<1>1. IInv => TypeOK
  BY DEF IInv
<1> QED BY <1>1, Sound, PTL

\* What the active-release link names was active at first or passed its
\* canary, and its directory exists: run_canary and rollback together.
THEOREM ActivePassed == Spec => []ActivePassedCanary
<1>1. IInv => ActivePassedCanary
  BY DEF IInv, Known, ActivePassedCanary
<1> QED BY <1>1, Sound, PTL

\* A promotion whose merge was observed was merged with a head that passed a
\* full check of its request: prepare_promotion and observe_merge together.
THEOREM MergedVerified == Spec => []MergedWasVerified
<1>1. IInv => MergedWasVerified
  <2> SUFFICES ASSUME IInv, NEW p \in Proms, Status(p) \in Statuses \ {"PREPARED", "PR_OPEN"}
               PROVE  /\ pulls[prom[p].pull] =
                           [req |-> prom[p].req, state |-> "merged", head |-> prom[p].head]
                      /\ prom[p].head \in passed[prom[p].req]
    BY DEF MergedWasVerified
  <2>1. Prepared(p) /\ prom[p].status \notin {"PREPARED", "PR_OPEN"}
    BY DEF Status, Statuses
  <2> QED BY <2>1 DEF IInv, RowSound, MergedRow
<1> QED BY <1>1, Sound, PTL
-----------------------------------------------------------------------------
(* What the steps do to leases, to rows and to the link: a command begins, *)
(* advances, or nothing of the promotions moves.                           *)

\* The statuses of its promotion that a command meets at a label.
Reaches(label, status) ==
  /\ label \in {"push", "create", "opened"} => status = "PREPARED"
  /\ label = "merged" => status = "PR_OPEN"
  /\ label = "canary_row" => status = "MERGED"
  /\ label \in {"profiles", "canary_fails", "release", "switch", "active_row"} =>
       status = "CANARY"
  /\ label \in {"restore", "rolled_back"} => status \in {"ACTIVE", "FAILED", "CANARY"}
  /\ label = "close" => status \in {"ACTIVE", "ROLLED_BACK"}
  /\ label = "revert" => status = "ROLLED_BACK"

\* The steps of a command that write no row, and those that write one.
Passes(from, to) ==
  \/ from = "push" /\ to = "create"
  \/ from = "create" /\ to \in {"opened", "idle"}
  \/ from = "profiles" /\ to \in {"release", "canary_fails"}
  \/ from = "release" /\ to = "switch"
  \/ from = "switch" /\ to = "active_row"
  \/ from = "restore" /\ to = "rolled_back"
  \/ from = "close" /\ to = "idle"
  \/ from \in {"release", "revert"} /\ to = "idle" /\ "git" \in regime.faults
  \/ to = "idle" /\ "crash" \in regime.faults

Writes(from, status, to) ==
  \/ from = "receipt" /\ status = "PREPARED" /\ to = "idle"
  \/ from = "opened" /\ status = "PR_OPEN" /\ to = "idle"
  \/ from = "merged" /\ status = "MERGED" /\ to = "idle"
  \/ from = "canary_row" /\ status = "CANARY" /\ to = "profiles"
  \/ from = "canary_fails" /\ status = "FAILED" /\ to = "restore"
  \/ from = "active_row" /\ status = "ACTIVE" /\ to = "close"
  \/ from = "rolled_back" /\ status = "ROLLED_BACK" /\ to = "close"
  \/ from = "revert" /\ status = "ROLLED_BACK" /\ to = "idle"

LEMMA TablesAgree ==
  ASSUME NEW from, NEW to, NEW status
  PROVE  /\ Reaches(from, status) /\ Passes(from, to) => to = "idle" \/ Reaches(to, status)
         /\ Writes(from, status, to) => to = "idle" \/ Reaches(to, status)
         /\ Passes(from, to) \/ Writes(from, status, to) => to # "receipt"
  BY DEF Reaches, Passes, Writes

Released(c) ==
  /\ pc'[c] = "idle" /\ loc'[c] = Idle
  /\ lease' \in [Requests -> Procs \cup {Nobody, Ghost}]
  /\ \A r \in Requests : lease[r] # c => lease'[r] = lease[r]

Proceeds(c) ==
  /\ pc[c] # "receipt" /\ pc'[c] # "idle" /\ lease' = lease
  /\ loc'[c].prom = loc[c].prom
  /\ loc'[c].row.req = loc[c].row.req /\ loc'[c].row.prev = loc[c].row.prev

\* The row of a command's promotion is written from its copy.
OwnWrite(c) ==
  /\ prom'[Mine(c)] # None
  /\ prom'[Mine(c)].req = loc[c].row.req /\ prom'[Mine(c)].prev = loc[c].row.prev
  /\ Writes(pc[c], prom'[Mine(c)].status, pc'[c])

Advances(c) ==
  /\ pc[c] # "idle"
  /\ \A d \in Procs \ {c} : pc'[d] = pc[d] /\ loc'[d] = loc[d]
  /\ \A q \in Proms \ {Mine(c)} : prom'[q] = prom[q]
  /\ Released(c) \/ Proceeds(c)
  /\ \/ prom' = prom /\ Passes(pc[c], pc'[c])
     \/ OwnWrite(c)
  /\ link' = CASE pc'[c] = "active_row" -> Mine(c)
               [] pc'[c] = "rolled_back" /\ loc[c].row.prev # NoRelease -> loc[c].row.prev
               [] OTHER -> link
  /\ pc[c] = "close" /\ pc'[c] = "idle" =>
       "crash" \in regime.faults \/ req'[RequestOf(c)].phase = "CLOSED"

Starting(c, p, row, label) ==
  /\ Begin(c, label, p, row)
  /\ UNCHANGED <<prom, link>>
  /\ \/ label = "receipt" /\ p \notin Started /\ MayPrepare /\ row.prev = link
     \/ /\ label \in {"push", "merged", "canary_row", "restore", "revert"}
        /\ Prepared(p) /\ row = prom[p] /\ Reaches(label, Status(p))
        /\ label = "merged" => pulls[row.pull].state # "closed"
        /\ label = "restore" => MayRollBack(p) /\ (Status(p) = "ACTIVE" => row.prev # NoRelease)

Elsewhere ==
  UNCHANGED <<prom, link, pc, loc>> /\ (LeasesHold => lease' = lease)

\* Closed requests stay closed, and so do closed pull requests.
Keeps ==
  /\ regime' = regime
  /\ \A r \in Requests : req[r].phase = "CLOSED" => req'[r].phase = "CLOSED"
  /\ \A n \in DOMAIN pulls : n \in DOMAIN pulls' /\ (pulls[n].state = "closed" => pulls'[n].state = "closed")

LEMMA CommandAdvances ==
  ASSUME IInv, NEW c \in Procs, Step(c) \/ ReleaseFails(c) \/ RevertFails(c) \/ Crash(c)
  PROVE  Advances(c)
<1>1. TypeOK /\ pc[c] # "idle"
  BY DEF IInv, Step, ReleaseFails, RevertFails, Crash, Receipt, Push, CreatePr, CreateRefused,
     PrOpened, MergeObserved, CanaryStarts, Profiles, CanaryFails, Release, Switch, Activated,
     Closes, Restore, RolledBack, RevertOpened
<1>2. PICK p \in Proms, old \in Rows : p = Mine(c) /\ old = loc[c].row
  BY <1>1, UnderWay
<1>3. /\ pc \in [Procs -> Labels] /\ loc \in [Procs -> Memories]
      /\ prom \in [Proms -> Rows \cup {None}]
      /\ lease \in [Requests -> Procs \cup {Nobody, Ghost}]
      /\ req \in [Requests -> [phase : {"ACTIVE", "VERIFIED", "CLOSED"},
                               candidate : Heads, verified : Heads]]
  BY <1>1 DEF TypeOK, Memories
<1>4. ASSUME Finish(c)
      PROVE  Released(c) /\ \A d \in Procs \ {c} : pc'[d] = pc[d] /\ loc'[d] = loc[d]
  BY <1>3, <1>4 DEF Finish, Goto, Released
<1>5. ASSUME NEW label, label # "idle", pc[c] # "receipt", Goto(c, label), loc' = loc, lease' = lease
      PROVE  /\ Proceeds(c) /\ pc'[c] = label
             /\ \A d \in Procs \ {c} : pc'[d] = pc[d] /\ loc'[d] = loc[d]
  BY <1>3, <1>5 DEF Goto, Proceeds
<1>6. ASSUME NEW status \in Statuses, prom' = Updated(c, status), Writes(pc[c], status, pc'[c])
      PROVE  OwnWrite(c) /\ \A q \in Proms \ {Mine(c)} : prom'[q] = prom[q]
  <2>1. PICK new \in Rows : new = [old EXCEPT !.status = status]
    BY DEF Rows
  <2>2. prom' = [prom EXCEPT ![p] = new]
    BY <1>2, <1>6, <2>1 DEF Updated
  <2>3. new.status = status /\ new.req = old.req /\ new.prev = old.prev
    BY <2>1 DEF Rows
  <2>4. new # None
    BY PromotionAssumption
  <2>5. prom'[p] = new /\ \A q \in Proms \ {p} : prom'[q] = prom[q]
    BY <1>3, <2>2
  <2>6. /\ prom'[p] # None /\ prom'[p].status = status
        /\ prom'[p].req = old.req /\ prom'[p].prev = old.prev
    BY <2>3, <2>4, <2>5
  <2> QED BY <1>2, <1>6, <2>5, <2>6, Zenon DEF OwnWrite, Prepared, Mine
<1>7. ASSUME pc'[c] \notin {"active_row", "rolled_back"}, link' = link
      PROVE  link' = CASE pc'[c] = "active_row" -> Mine(c)
                       [] pc'[c] = "rolled_back" /\ loc[c].row.prev # NoRelease -> loc[c].row.prev
                       [] OTHER -> link
  BY <1>7
\* The commands that end without a row.
<1>8. CASE CreateRefused(c) \/ ReleaseFails(c) \/ RevertFails(c) \/ Closes(c)
  <2>1. Released(c) /\ \A d \in Procs \ {c} : pc'[d] = pc[d] /\ loc'[d] = loc[d]
    BY <1>4, <1>8 DEF CreateRefused, ReleaseFails, RevertFails, Closes
  <2>2. prom' = prom /\ link' = link
    BY <1>8 DEF CreateRefused, ReleaseFails, RevertFails, Closes, disk
  <2>3. Passes(pc[c], pc'[c])
    BY <1>8, <2>1 DEF CreateRefused, ReleaseFails, RevertFails, Closes, Passes, Released
  <2>4. pc[c] = "close" => req'[RequestOf(c)].phase = "CLOSED"
    <3>1. old.req \in Requests /\ RequestOf(c) = old.req
      BY <1>2 DEF Rows, RequestOf
    <3>2. pc[c] = "close" => req' = [req EXCEPT ![old.req].phase = "CLOSED"]
      BY <1>8, <3>1 DEF CreateRefused, ReleaseFails, RevertFails, Closes
    <3> QED BY <1>3, <3>1, <3>2
  <2>5. pc'[c] = "idle"
    BY <2>1 DEF Released
  <2> QED BY <1>1, <1>7, <2>1, <2>2, <2>3, <2>4, <2>5 DEF Advances
<1>9. CASE Crash(c)
  <2>1. Released(c) /\ \A d \in Procs \ {c} : pc'[d] = pc[d] /\ loc'[d] = loc[d]
    BY <1>3, <1>9 DEF Crash, Goto, Released
  <2>2. prom' = prom /\ link' = link /\ pc'[c] = "idle" /\ "crash" \in regime.faults
    BY <1>9, <2>1 DEF Crash, disk, Released
  <2> QED BY <1>1, <1>7, <2>1, <2>2 DEF Advances, Passes
\* The commands that go on without a row.
<1>10. CASE Push(c) \/ Release(c)
  <2>1. /\ Proceeds(c) /\ pc'[c] \in {"create", "switch"} /\ prom' = prom /\ link' = link
        /\ \/ pc[c] = "push" /\ pc'[c] = "create"
           \/ pc[c] = "release" /\ pc'[c] = "switch"
        /\ \A d \in Procs \ {c} : pc'[d] = pc[d] /\ loc'[d] = loc[d]
    BY <1>5, <1>10 DEF Push, Release, disk
  <2> QED BY <1>1, <1>7, <2>1 DEF Advances, Passes
<1>11. ASSUME NEW pass \in BOOLEAN, Profiles(c, pass)
       PROVE  Advances(c)
  <2>1. /\ Proceeds(c) /\ pc'[c] \in {"release", "canary_fails"} /\ prom' = prom /\ link' = link
        /\ \A d \in Procs \ {c} : pc'[d] = pc[d] /\ loc'[d] = loc[d]
    BY <1>5, <1>11 DEF Profiles
  <2>2. pc[c] = "profiles"
    BY <1>11 DEF Profiles
  <2> QED BY <1>1, <1>7, <2>1, <2>2 DEF Advances, Passes
<1>12. CASE CreatePr(c)
  <2>1. PICK new \in Rows : /\ loc' = [loc EXCEPT ![c] = [loc[c] EXCEPT !.row = new]]
                            /\ new.req = old.req /\ new.prev = old.prev
    <3>1. PICK n \in 0 .. MaxPulls : n = Len(pulls) + 1
      BY <1>1, <1>12, PromotionAssumption DEF CreatePr, TypeOK
    <3>2. PICK new \in Rows : new = [old EXCEPT !.pull = n]
      BY <3>1 DEF Rows
    <3>3. new.req = old.req /\ new.prev = old.prev
      BY <3>2 DEF Rows
    <3>4. loc' = [loc EXCEPT ![c] = [loc[c] EXCEPT !.row = [loc[c].row EXCEPT !.pull = n]]]
      BY <1>12, <3>1 DEF CreatePr
    <3> QED BY <1>2, <3>2, <3>3, <3>4
  <2>2. loc'[c].prom = loc[c].prom /\ loc'[c].row = new
    BY <1>3, <2>1 DEF Memories
  <2>3. \A d \in Procs \ {c} : pc'[d] = pc[d] /\ loc'[d] = loc[d]
    BY <1>3, <1>12, <2>1 DEF CreatePr, Goto
  <2>4. pc[c] = "create" /\ pc'[c] = "opened" /\ lease' = lease /\ prom' = prom /\ link' = link
    BY <1>3, <1>12 DEF CreatePr, Goto, disk
  <2>5. Proceeds(c)
    BY <1>2, <2>1, <2>2, <2>4 DEF Proceeds
  <2> QED BY <1>1, <1>7, <2>3, <2>4, <2>5 DEF Advances, Passes
<1>13. CASE Switch(c)
  <2>1. /\ Proceeds(c) /\ pc'[c] = "active_row" /\ prom' = prom /\ link' = Mine(c)
        /\ \A d \in Procs \ {c} : pc'[d] = pc[d] /\ loc'[d] = loc[d]
    BY <1>5, <1>13 DEF Switch
  <2>2. pc[c] = "switch"
    BY <1>13 DEF Switch
  <2> QED BY <1>1, <2>1, <2>2 DEF Advances, Passes
<1>14. CASE Restore(c)
  <2>1. /\ Proceeds(c) /\ pc'[c] = "rolled_back" /\ prom' = prom
        /\ link' = IF loc[c].row.prev = NoRelease THEN link ELSE loc[c].row.prev
        /\ \A d \in Procs \ {c} : pc'[d] = pc[d] /\ loc'[d] = loc[d]
    BY <1>5, <1>14 DEF Restore
  <2>2. pc[c] = "restore"
    BY <1>14 DEF Restore
  <2> QED BY <1>1, <2>1, <2>2 DEF Advances, Passes
\* The commands that write their row.
<1>15. CASE Receipt(c)
  <2>1. Released(c) /\ \A d \in Procs \ {c} : pc'[d] = pc[d] /\ loc'[d] = loc[d]
    BY <1>4, <1>15 DEF Receipt
  <2>2. prom' = [prom EXCEPT ![p] = old] /\ link' = link /\ pc[c] = "receipt"
    BY <1>2, <1>15 DEF Receipt, disk
  <2>3. old # None /\ old.status = "PREPARED" /\ pc'[c] = "idle"
    BY <1>1, <1>2, <2>1, <2>2, PromotionAssumption, UnderWay DEF Released, BeforeOpen
  <2>4. prom'[p] = old /\ \A q \in Proms \ {Mine(c)} : prom'[q] = prom[q]
    BY <1>2, <1>3, <2>2
  <2>5. OwnWrite(c)
    <3>1. Writes(pc[c], "PREPARED", pc'[c])
      BY <2>2, <2>3 DEF Writes
    <3>2. prom'[p] # None /\ prom'[p].status = "PREPARED" /\ p = loc[c].prom
      BY <1>2, <2>3, <2>4 DEF Mine
    <3> QED BY <1>2, <2>4, <3>1, <3>2, Zenon DEF OwnWrite, Prepared, Mine
  <2> QED BY <1>1, <1>7, <2>1, <2>2, <2>3, <2>4, <2>5 DEF Advances
<1>16. CASE PrOpened(c) \/ MergeObserved(c) \/ RevertOpened(c)
  <2>1. Released(c) /\ \A d \in Procs \ {c} : pc'[d] = pc[d] /\ loc'[d] = loc[d]
    BY <1>4, <1>16 DEF PrOpened, MergeObserved, RevertOpened
  <2>2. pc'[c] = "idle" /\ link' = link /\ pc[c] # "close"
    BY <1>16, <2>1 DEF PrOpened, MergeObserved, RevertOpened, disk, Released
  <2>3. \E status \in Statuses : prom' = Updated(c, status) /\ Writes(pc[c], status, pc'[c])
    BY <1>16, <2>2 DEF PrOpened, MergeObserved, RevertOpened, Writes, Statuses
  <2> QED BY <1>1, <1>6, <1>7, <2>1, <2>2, <2>3 DEF Advances
<1>17. CASE CanaryStarts(c) \/ Activated(c) \/ RolledBack(c)
  <2>1. /\ Proceeds(c) /\ pc'[c] \in {"profiles", "close"} /\ link' = link /\ pc[c] # "close"
        /\ \A d \in Procs \ {c} : pc'[d] = pc[d] /\ loc'[d] = loc[d]
    BY <1>5, <1>17 DEF CanaryStarts, Activated, RolledBack, disk
  <2>2. \E status \in Statuses : prom' = Updated(c, status) /\ Writes(pc[c], status, pc'[c])
    <3>1. CASE CanaryStarts(c)
      BY <1>3, <3>1 DEF CanaryStarts, Writes, Statuses, Goto
    <3>2. CASE Activated(c)
      BY <1>3, <3>2 DEF Activated, Writes, Statuses, Goto
    <3>3. CASE RolledBack(c)
      BY <1>3, <3>3 DEF RolledBack, Writes, Statuses, Goto
    <3> QED BY <1>17, <3>1, <3>2, <3>3
  <2> QED BY <1>1, <1>6, <1>7, <2>1, <2>2 DEF Advances
<1>18. CASE CanaryFails(c)
  <2>1. PICK new \in Rows : /\ loc' = [loc EXCEPT ![c] = [loc[c] EXCEPT !.row = new]]
                            /\ new.req = old.req /\ new.prev = old.prev
    <3>1. PICK new \in Rows : new = [old EXCEPT !.status = "FAILED"]
      BY DEF Rows, Statuses
    <3>2. new.req = old.req /\ new.prev = old.prev
      BY <3>1 DEF Rows
    <3>3. loc' = [loc EXCEPT ![c] = [loc[c] EXCEPT !.row = [loc[c].row EXCEPT !.status = "FAILED"]]]
      BY <1>18 DEF CanaryFails
    <3> QED BY <1>2, <3>1, <3>2, <3>3
  <2>2. loc'[c].prom = loc[c].prom /\ loc'[c].row = new
    BY <1>3, <2>1 DEF Memories
  <2>3. \A d \in Procs \ {c} : pc'[d] = pc[d] /\ loc'[d] = loc[d]
    BY <1>3, <1>18, <2>1 DEF CanaryFails, Goto
  <2>4. pc[c] = "canary_fails" /\ pc'[c] = "restore" /\ lease' = lease /\ link' = link
    BY <1>3, <1>18 DEF CanaryFails, Goto, disk
  <2>5. Proceeds(c)
    BY <1>2, <2>1, <2>2, <2>4 DEF Proceeds
  <2>6. prom' = Updated(c, "FAILED") /\ Writes(pc[c], "FAILED", pc'[c]) /\ "FAILED" \in Statuses
    BY <1>18, <2>4 DEF CanaryFails, Writes, Statuses
  <2> QED BY <1>1, <1>6, <1>7, <2>3, <2>4, <2>5, <2>6 DEF Advances
<1> QED BY <1>8, <1>9, <1>10, <1>11, <1>12, <1>13, <1>14, <1>15, <1>16, <1>17, <1>18 DEF Step

LEMMA CommandStarts ==
  ASSUME IInv, NEW c \in Procs, Starts(c)
  PROVE  \E p \in Proms, row \in Rows, label \in Labels : Starting(c, p, row, label)
<1>1. /\ link \in Proms \cup {Base, NoRelease}
      /\ req \in [Requests -> [phase : {"ACTIVE", "VERIFIED", "CLOSED"},
                               candidate : Heads, verified : Heads]]
      /\ prom \in [Proms -> Rows \cup {None}]
  BY DEF IInv, TypeOK
<1>2. ASSUME NEW p \in Proms, NEW r \in Requests, Prepare(c, p, r)
      PROVE  \E row \in Rows, label \in Labels : Starting(c, p, row, label)
  <2>1. PICK row \in Rows : row = Draft(r, req[r].candidate)
    <3>1. req[r].candidate \in Heads /\ 0 \in 0 .. MaxPulls
      BY <1>1, PromotionAssumption
    <3>2. Draft(r, req[r].candidate) \in Rows
      BY <1>1, <3>1 DEF Draft, Rows, Statuses
    <3> QED BY <3>2
  <2>2. Starting(c, p, row, "receipt")
    BY <1>2, <2>1 DEF Prepare, Starting, Draft, disk
  <2> QED BY <2>2 DEF Labels
<1>3. ASSUME NEW p \in Proms, OpenPr(c, p) \/ ObserveMerge(c, p) \/ RunCanary(c, p)
      PROVE  \E row \in Rows, label \in Labels : Starting(c, p, row, label)
  <2>1. Prepared(p) /\ prom[p] \in Rows
    BY <1>1, <1>3 DEF OpenPr, ObserveMerge, RunCanary, Command, Status, Prepared
  <2>2. \E label \in {"push", "merged", "canary_row"} : Starting(c, p, prom[p], label)
    BY <1>3, <2>1 DEF OpenPr, ObserveMerge, RunCanary, Command, Starting, Reaches, disk
  <2> QED BY <2>1, <2>2 DEF Labels
<1>4. ASSUME NEW p \in Proms, RollBack(c, p) \/ OpenRevert(c, p)
      PROVE  \E row \in Rows, label \in Labels : Starting(c, p, row, label)
  <2>1. Prepared(p) /\ prom[p] \in Rows
    BY <1>1, <1>4 DEF RollBack, OpenRevert, Command, Status, Prepared
  <2>2. Status(p) = prom[p].status
    BY <2>1 DEF Status
  <2>3. Starting(c, p, prom[p], "restore") \/ Starting(c, p, prom[p], "revert")
    BY <1>4, <2>1, <2>2 DEF RollBack, OpenRevert, Command, Starting, Reaches, disk
  <2> QED BY <2>1, <2>3 DEF Labels
<1> QED BY <1>2, <1>3, <1>4 DEF Starts

\* Every step is one of the three.
LEMMA NextMoves ==
  ASSUME IInv, Next
  PROVE  \/ Elsewhere
         \/ \E c \in Procs : Advances(c)
         \/ \E c \in Procs, p \in Proms, row \in Rows, label \in Labels : Starting(c, p, row, label)
<1>1. ASSUME NEW r \in Requests,
             \/ Reopen(r) \/ CloseRequest(r) \/ Reverify(r) \/ Edit(r)
             \/ PrepareReopens(r) \/ LeaseExpires(r)
      PROVE  Elsewhere
  BY <1>1 DEF Reopen, CloseRequest, Reverify, Edit, PrepareReopens, LeaseExpires, Says,
     Elsewhere, LeasesHold, disk
<1>2. ASSUME NEW n \in DOMAIN pulls, Merge(n) \/ Decline(n)
      PROVE  Elsewhere
  BY <1>2 DEF Merge, Decline, Elsewhere, disk
<1> QED BY <1>1, <1>2, CommandAdvances, CommandStarts DEF Next

LEMMA NextKeeps ==
  ASSUME IInv, Next
  PROVE  Keeps
<1>1. /\ req \in [Requests -> [phase : {"ACTIVE", "VERIFIED", "CLOSED"},
                               candidate : Heads, verified : Heads]]
      /\ pulls \in Seq(Pulls) /\ regime' = regime
  BY DEF IInv, TypeOK, Next
<1>2. \A r \in Requests : req[r].phase = "CLOSED" => req'[r].phase = "CLOSED"
  <2>1. ASSUME NEW c \in Procs, Starts(c) \/ Step(c) \/ Crash(c) \/ ReleaseFails(c) \/ RevertFails(c)
        PROVE  req' = req \/ Closes(c)
    BY <2>1 DEF Starts, Step, Crash, ReleaseFails, RevertFails, Prepare, OpenPr, ObserveMerge,
       RunCanary, RollBack, OpenRevert, Receipt, Push, CreatePr, CreateRefused, PrOpened,
       MergeObserved, CanaryStarts, Profiles, CanaryFails, Release, Switch, Activated, Restore,
       RolledBack, RevertOpened
  <2>2. ASSUME NEW c \in Procs, Closes(c)
        PROVE  \A r \in Requests : req[r].phase = "CLOSED" => req'[r].phase = "CLOSED"
    BY <1>1, <2>2 DEF Closes
  <2>3. ASSUME NEW r \in Requests,
               \/ Reopen(r) \/ CloseRequest(r) \/ Reverify(r) \/ Edit(r)
               \/ PrepareReopens(r) \/ LeaseExpires(r)
        PROVE  \A s \in Requests : req[s].phase = "CLOSED" => req'[s].phase = "CLOSED"
    BY <1>1, <2>3 DEF Reopen, CloseRequest, Reverify, Edit, PrepareReopens, LeaseExpires, Says
  <2>4. ASSUME NEW n \in DOMAIN pulls, Merge(n) \/ Decline(n)
        PROVE  req' = req
    BY <2>4 DEF Merge, Decline
  <2> QED BY <2>1, <2>2, <2>3, <2>4 DEF Next
<1>3. \A n \in DOMAIN pulls :
        n \in DOMAIN pulls' /\ (pulls[n].state = "closed" => pulls'[n].state = "closed")
  <2>1. ASSUME NEW c \in Procs, Starts(c) \/ Step(c) \/ Crash(c) \/ ReleaseFails(c) \/ RevertFails(c)
        PROVE  pulls' = pulls \/ CreatePr(c)
    BY <2>1 DEF Starts, Step, Crash, ReleaseFails, RevertFails, Prepare, OpenPr, ObserveMerge,
       RunCanary, RollBack, OpenRevert, Receipt, Push, CreateRefused, PrOpened, Closes, github,
       MergeObserved, CanaryStarts, Profiles, CanaryFails, Release, Switch, Activated, Restore,
       RolledBack, RevertOpened
  <2>2. ASSUME NEW c \in Procs, CreatePr(c)
        PROVE  \A n \in DOMAIN pulls : n \in DOMAIN pulls' /\ pulls'[n] = pulls[n]
    <3>1. RequestOf(c) \in Requests /\ 0 \in Heads
      BY <2>2, UnderWay, PromotionAssumption DEF CreatePr, Rows, Heads, RequestOf
    <3>2. PICK pull \in Pulls : pull = [req |-> RequestOf(c), state |-> "open", head |-> 0]
      BY <3>1 DEF Pulls
    <3>3. pulls' = Append(pulls, pull)
      BY <2>2, <3>2 DEF CreatePr
    <3> QED BY <1>1, <3>3
  <2>3. ASSUME NEW r \in Requests,
               \/ Reopen(r) \/ CloseRequest(r) \/ Reverify(r) \/ Edit(r)
               \/ PrepareReopens(r) \/ LeaseExpires(r)
        PROVE  pulls' = pulls
    BY <2>3 DEF Reopen, CloseRequest, Reverify, Edit, PrepareReopens, LeaseExpires, Says, github
  <2>4. ASSUME NEW n \in DOMAIN pulls, Merge(n) \/ Decline(n)
        PROVE  \A m \in DOMAIN pulls :
                 m \in DOMAIN pulls' /\ (pulls[m].state = "closed" => pulls'[m].state = "closed")
    <3>1. DOMAIN pulls' = DOMAIN pulls /\ \A m \in DOMAIN pulls : m # n => pulls'[m] = pulls[m]
      BY <1>1, <2>4 DEF Merge, Decline
    <3>2. pulls[n].state # "closed"
      BY <2>4 DEF Merge, Decline
    <3> QED BY <3>1, <3>2
  <2> QED BY <2>1, <2>2, <2>3, <2>4 DEF Next
<1> QED BY <1>1, <1>2, <1>3 DEF Keeps

-----------------------------------------------------------------------------
(* While leases hold, a promotion has one command at a time.               *)

HoldsLease(c) ==
  /\ pc[c] = "idle" => loc[c] = Idle
  /\ pc[c] # "idle" => lease[RequestOf(c)] = c

Fresh(c) ==
  pc[c] = "receipt" =>
    ~ Prepared(Mine(c)) /\ \A d \in Procs \ {c} : Mine(d) # Mine(c)

InStep(c) ==
  pc[c] \notin {"idle", "receipt"} =>
    /\ Prepared(Mine(c))
    /\ prom[Mine(c)].req = RequestOf(c) /\ prom[Mine(c)].prev = loc[c].row.prev
    /\ Reaches(pc[c], Status(Mine(c)))

Guarded == \A c \in Procs : HoldsLease(c) /\ Fresh(c) /\ InStep(c)

LEMMA Alone ==
  ASSUME IInv, Guarded, NEW c \in Procs, NEW d \in Procs, pc[c] # "idle", Mine(c) = Mine(d)
  PROVE  c = d
<1>1. pc[d] # "idle"
  BY UnderWay, PromotionAssumption DEF Guarded, HoldsLease, Mine, Idle
<1>2. CASE pc[c] = "receipt" \/ pc[d] = "receipt"
  BY <1>2 DEF Guarded, Fresh
<1>3. CASE pc[c] # "receipt" /\ pc[d] # "receipt"
  BY <1>1, <1>3 DEF Guarded, InStep, HoldsLease
<1> QED BY <1>2, <1>3

LEMMA AdvanceGuarded ==
  ASSUME IInv, IInv', Guarded, NEW c \in Procs, Advances(c)
  PROVE  Guarded'
<1> DEFINE p == Mine(c)
<1>1. /\ pc[c] # "idle" /\ p \in Proms /\ p # None
  BY UnderWay, PromotionAssumption DEF Advances
<1>2. ASSUME NEW d \in Procs, d # c
      PROVE  HoldsLease(d)' /\ Fresh(d)' /\ InStep(d)'
  <2>1. pc'[d] = pc[d] /\ loc'[d] = loc[d] /\ Mine(d) # p
    BY <1>1, <1>2, Alone DEF Advances
  <2>2. HoldsLease(d)'
    <3>1. CASE pc[d] = "idle"
      BY <2>1, <3>1 DEF HoldsLease, Guarded
    <3>2. CASE pc[d] # "idle"
      <4>1. lease[RequestOf(d)] = d /\ RequestOf(d) \in Requests
        BY <3>2, UnderWay DEF HoldsLease, Guarded, RequestOf, Rows
      <4>2. lease'[RequestOf(d)] = d
        BY <1>2, <4>1 DEF Advances, Released, Proceeds
      <4> QED BY <2>1, <3>2, <4>2 DEF HoldsLease, RequestOf
    <3> QED BY <3>1, <3>2
  <2>3. pc[d] # "idle" => Mine(d) \in Proms /\ prom'[Mine(d)] = prom[Mine(d)]
    BY <2>1, UnderWay DEF Advances
  <2>4. Fresh(d)'
    <3> SUFFICES ASSUME pc[d] = "receipt" PROVE Fresh(d)'
      BY <2>1 DEF Fresh
    <3>1. ~ Prepared(Mine(d)) /\ \A e \in Procs \ {d} : Mine(e) # Mine(d)
      BY DEF Guarded, Fresh
    <3>2. Mine(d)' = Mine(d) /\ ~ Prepared(Mine(d))'
      BY <2>1, <2>3, <3>1 DEF Mine, Prepared
    <3>3. \A e \in Procs \ {c} : Mine(e)' = Mine(e)
      BY DEF Advances, Mine
    <3>4. Mine(c)' = None \/ Mine(c)' = p
      BY DEF Advances, Released, Proceeds, Idle, Mine
    <3>5. Mine(d) # None
      BY <2>3, PromotionAssumption
    <3> QED BY <2>1, <3>1, <3>2, <3>3, <3>4, <3>5 DEF Fresh
  <2>5. InStep(d)'
    BY <2>1, <2>3 DEF Guarded, InStep, Prepared, Status, Mine, RequestOf
  <2> QED BY <2>2, <2>4, <2>5
<1>3. HoldsLease(c)' /\ Fresh(c)' /\ InStep(c)'
  <2>1. CASE Released(c)
    BY <2>1 DEF Released, HoldsLease, Fresh, InStep
  <2>2. CASE Proceeds(c)
    <3>1. /\ Mine(c)' = p /\ RequestOf(c)' = RequestOf(c) /\ pc'[c] # "idle"
          /\ loc'[c].row.prev = loc[c].row.prev /\ pc[c] # "receipt"
      BY <2>2 DEF Proceeds, Mine, RequestOf
    <3>2. HoldsLease(c)'
      BY <1>1, <2>2, <3>1 DEF Guarded, HoldsLease, Proceeds
    <3>3. /\ Prepared(p) /\ Reaches(pc[c], Status(p))
          /\ prom[p].req = RequestOf(c) /\ prom[p].prev = loc[c].row.prev
      BY <1>1, <3>1 DEF Guarded, InStep
    <3>4. Status(p) = prom[p].status
      BY <3>3 DEF Status
    <3>5. /\ prom'[p] # None /\ pc'[c] # "receipt" /\ Reaches(pc'[c], prom'[p].status)
          /\ prom'[p].req = RequestOf(c) /\ prom'[p].prev = loc[c].row.prev
      <4>1. CASE prom' = prom /\ Passes(pc[c], pc'[c])
        BY <3>1, <3>3, <3>4, <4>1, TablesAgree DEF Prepared
      <4>2. CASE OwnWrite(c)
        BY <3>1, <4>2, TablesAgree DEF OwnWrite, RequestOf
      <4> QED BY <4>1, <4>2 DEF Advances
    <3>6. Fresh(c)' /\ InStep(c)'
      BY <3>1, <3>5 DEF Fresh, InStep, Prepared, Status
    <3> QED BY <3>2, <3>6
  <2> QED BY <2>1, <2>2 DEF Advances
<1> QED BY <1>2, <1>3 DEF Guarded

LEMMA StartGuarded ==
  ASSUME IInv, Guarded, NEW c \in Procs, NEW p \in Proms, NEW row \in Rows, NEW label \in Labels,
         Starting(c, p, row, label)
  PROVE  Guarded'
<1>1. /\ pc[c] = "idle" /\ Acquirable(row.req) /\ row.req \in Requests
      /\ lease' = [lease EXCEPT ![row.req] = c]
      /\ Goto(c, label) /\ loc' = [loc EXCEPT ![c] = [prom |-> p, row |-> row]]
  BY DEF Starting, Begin, Rows
<1>2. TypeOK /\ p # None
  BY PromotionAssumption DEF IInv
<1>3. /\ pc'[c] = label /\ loc'[c] = [prom |-> p, row |-> row]
      /\ \A d \in Procs : d # c => pc'[d] = pc[d] /\ loc'[d] = loc[d]
  BY <1>1, <1>2, Steps
<1>4. prom' = prom /\ lease'[row.req] = c /\ \A r \in Requests : r # row.req => lease'[r] = lease[r]
  BY <1>1, <1>2 DEF Starting, TypeOK
<1>5. label = "receipt" => ~ Prepared(p) /\ \A d \in Procs : Mine(d) # p
  BY DEF Starting, Started
<1>6. label # "receipt" => Prepared(p) /\ row = prom[p] /\ Reaches(label, Status(p))
  BY DEF Starting
<1>7. label # "idle"
  BY DEF Starting
<1>8. ASSUME NEW d \in Procs, d # c
      PROVE  HoldsLease(d)' /\ Fresh(d)' /\ InStep(d)'
  <2>1. pc'[d] = pc[d] /\ loc'[d] = loc[d]
    BY <1>3, <1>8
  <2>2. HoldsLease(d)'
    <3>1. CASE pc[d] = "idle"
      BY <2>1, <3>1 DEF HoldsLease, Guarded
    <3>2. CASE pc[d] # "idle"
      <4>1. lease[RequestOf(d)] = d /\ RequestOf(d) \in Requests
        BY <3>2, UnderWay DEF HoldsLease, Guarded, RequestOf, Rows
      <4>2. lease'[RequestOf(d)] = d
        BY <1>1, <1>4, <4>1, PromotionAssumption DEF Acquirable
      <4> QED BY <2>1, <3>2, <4>2 DEF HoldsLease, RequestOf
    <3> QED BY <3>1, <3>2
  <2>3. Fresh(d)'
    <3> SUFFICES ASSUME pc[d] = "receipt" PROVE Fresh(d)'
      BY <2>1 DEF Fresh
    <3>1. ~ Prepared(Mine(d)) /\ \A e \in Procs \ {d} : Mine(e) # Mine(d)
      BY DEF Guarded, Fresh
    <3>2. Mine(d)' = Mine(d) /\ ~ Prepared(Mine(d))'
      BY <1>4, <2>1, <3>1 DEF Mine, Prepared
    <3>3. \A e \in Procs \ {c} : Mine(e)' = Mine(e)
      BY <1>3 DEF Mine
    <3>4. Mine(c)' = p /\ p # Mine(d)
      BY <1>3, <1>5, <1>6, <3>1 DEF Mine
    <3> QED BY <2>1, <3>1, <3>2, <3>3, <3>4 DEF Fresh
  <2>4. InStep(d)'
    BY <1>4, <2>1 DEF Guarded, InStep, Prepared, Status, Mine, RequestOf
  <2> QED BY <2>2, <2>3, <2>4
<1>9. HoldsLease(c)' /\ Fresh(c)' /\ InStep(c)'
  <2>1. Mine(c)' = p /\ RequestOf(c)' = row.req /\ loc'[c].row.prev = row.prev
    BY <1>3 DEF Mine, RequestOf
  <2>2. HoldsLease(c)'
    BY <1>3, <1>4, <1>7, <2>1 DEF HoldsLease
  <2>3. Fresh(c)'
    <3>1. \A d \in Procs \ {c} : Mine(d)' = Mine(d)
      BY <1>3 DEF Mine
    <3> QED BY <1>3, <1>4, <1>5, <2>1, <3>1 DEF Fresh, Prepared
  <2>4. InStep(c)'
    BY <1>3, <1>4, <1>6, <2>1 DEF InStep, Prepared, Status
  <2> QED BY <2>2, <2>3, <2>4
<1> QED BY <1>8, <1>9 DEF Guarded

LEMMA ElsewhereGuarded ==
  ASSUME Guarded, LeasesHold, Elsewhere
  PROVE  Guarded'
BY DEF Elsewhere, Guarded, HoldsLease, Fresh, InStep, Prepared, Status, Mine, RequestOf

\* The invariant of this section.
Leased == LeasesHold => Guarded

LEMMA InitLeased == Init => Leased
BY DEF Init, Leased, Guarded, HoldsLease, Fresh, InStep

LEMMA NextLeased == IInv /\ IInv' /\ Leased /\ [Next]_vars => Leased'
<1> SUFFICES ASSUME IInv, IInv', Leased, [Next]_vars, LeasesHold' PROVE Guarded'
  BY DEF Leased
<1>1. regime' = regime
  BY DEF Next, vars
<1>2. LeasesHold /\ Guarded
  BY <1>1 DEF Leased, LeasesHold
<1>3. CASE UNCHANGED vars
  BY <1>2, <1>3 DEF vars, Guarded, HoldsLease, Fresh, InStep, Prepared, Status, Mine, RequestOf
<1>4. CASE Next
  BY <1>2, <1>4, NextMoves, AdvanceGuarded, StartGuarded, ElsewhereGuarded
<1> QED BY <1>3, <1>4

\* While no lease is lost, the commands of a promotion exclude one another.
THEOREM CommandsExclude == Spec => []Leased
<1> QED BY InitLeased, NextLeased, Sound, PTL DEF Spec

LEMMA FinalStep ==
  ASSUME IInv, Leased, [Next]_vars, NEW p \in Proms, LeasesHold, Status(p) = "ROLLED_BACK"
  PROVE  Status(p)' = "ROLLED_BACK"
<1>1. Guarded
  BY DEF Leased
<1>2. CASE prom' = prom
  BY <1>2 DEF Status, Prepared
<1>3. ASSUME NEW c \in Procs, Advances(c)
      PROVE  Status(p)' = "ROLLED_BACK"
  <2>1. CASE p # Mine(c) \/ prom' = prom
    BY <1>3, <2>1 DEF Advances, Status, Prepared
  <2>2. CASE p = Mine(c) /\ OwnWrite(c)
    <3>1. pc[c] # "receipt"
      BY <1>1, <2>2 DEF Guarded, Fresh, Status
    <3>2. Reaches(pc[c], "ROLLED_BACK")
      BY <1>1, <1>3, <2>2, <3>1 DEF Guarded, InStep, Advances
    <3>3. prom'[p] # None /\ Writes(pc[c], prom'[p].status, pc'[c])
      BY <2>2 DEF OwnWrite
    <3>4. prom'[p].status = "ROLLED_BACK"
      BY <3>1, <3>2, <3>3 DEF Reaches, Writes
    <3> QED BY <3>3, <3>4 DEF Status, Prepared
  <2> QED BY <1>3, <2>1, <2>2 DEF Advances
<1>4. prom' = prom \/ \E c \in Procs : Advances(c)
  BY NextMoves DEF vars, Elsewhere, Starting
<1> QED BY <1>2, <1>3, <1>4

\* The row of a promotion that was rolled back is not written again by a
\* canary, a rollback or a merge that read it earlier, while no lease is lost:
\* the lease that run_canary and rollback take is the one of the row's request.
THEOREM RolledBackStays == Spec => RolledBackIsFinal
<1>1. IInv /\ Leased /\ [Next]_vars =>
        [\A p \in Proms :
           LeasesHold /\ Status(p) = "ROLLED_BACK" => Status(p)' = "ROLLED_BACK"]_vars
  BY FinalStep
<1> QED BY <1>1, Sound, CommandsExclude, PTL DEF Spec, RolledBackIsFinal

-----------------------------------------------------------------------------
(* A promotion that ended closes its request, and a canary has a command   *)
(* that ends it, unless processes die or git fails.                        *)

HasEnded(p) == Status(p) \in {"ACTIVE", "ROLLED_BACK"}
Closed(p)   == req[prom[p].req].phase = "CLOSED"
Closing(p)  == \E c \in Procs : Mine(c) = p /\ pc[c] = "close"

EndsClosed == NoFaults => \A p \in Proms : HasEnded(p) => Closed(p) \/ Closing(p)

CanaryLabels == {"profiles", "canary_fails", "release", "switch", "active_row", "restore", "rolled_back"}

LEMMA FaultFree ==
  ASSUME IInv, NoFaults
  PROVE  "crash" \notin regime.faults /\ LeasesHold
  BY DEF NoFaults, LeasesHold

LEMMA RowRequest ==
  ASSUME IInv, NEW p \in Proms, Prepared(p)
  PROVE  prom[p].req \in Requests /\ prom[p].status \in Statuses
  BY DEF IInv, TypeOK, Prepared, Rows

LEMMA EndedStep ==
  ASSUME IInv, IInv', Leased, EndsClosed, [Next]_vars
  PROVE  EndsClosed'
<1> SUFFICES ASSUME NoFaults, NEW p \in Proms, HasEnded(p)' PROVE (Closed(p) \/ Closing(p))'
  BY DEF EndsClosed, NoFaults, Next, vars
<1>1. Guarded /\ "crash" \notin regime.faults
  BY FaultFree DEF Leased
<1>2. HasEnded(p) => Closed(p) \/ Closing(p)
  BY DEF EndsClosed
<1>3. ASSUME Prepared(p), Closed(p), prom'[p].req = prom[p].req
      PROVE  Closed(p)'
  BY <1>3, RowRequest, NextKeeps DEF Closed, Keeps, vars
<1>4. CASE UNCHANGED <<prom, pc, loc>>
  BY <1>2, <1>3, <1>4 DEF HasEnded, Status, Prepared, Closing, Mine
<1>5. ASSUME NEW c \in Procs, Advances(c)
      PROVE  (Closed(p) \/ Closing(p))'
  <2>1. ASSUME HasEnded(p), prom'[p].req = prom[p].req
        PROVE  (Closed(p) \/ Closing(p))'
    <3>1. Prepared(p)
      BY <2>1 DEF HasEnded, Status
    <3>2. CASE Closed(p)
      BY <1>3, <2>1, <3>1, <3>2
    <3>3. ASSUME NEW d \in Procs, Mine(d) = p, pc[d] = "close", d # c
          PROVE  Closing(p)'
      BY <1>5, <3>3 DEF Advances, Closing, Mine
    <3>4. CASE Mine(c) = p /\ pc[c] = "close"
      <4>1. pc'[c] = "idle"
        BY <1>1, <1>5, <3>4 DEF Advances, Passes, OwnWrite, Writes
      <4>2. prom[p].req = RequestOf(c)
        BY <1>1, <3>4 DEF Guarded, InStep
      <4>3. req'[RequestOf(c)].phase = "CLOSED"
        BY <1>1, <1>5, <3>4, <4>1 DEF Advances
      <4> QED BY <2>1, <4>2, <4>3 DEF Closed
    <3> QED BY <1>2, <2>1, <3>2, <3>3, <3>4 DEF Closing
  <2>2. CASE p # Mine(c) \/ prom' = prom
    BY <1>5, <2>1, <2>2 DEF Advances, HasEnded, Status, Prepared
  <2>3. CASE p = Mine(c) /\ OwnWrite(c)
    <3>1. prom'[p] # None /\ prom'[p].req = RequestOf(c) /\ Writes(pc[c], prom'[p].status, pc'[c])
      BY <2>3 DEF OwnWrite, RequestOf
    <3>2. prom'[p].status \in {"ACTIVE", "ROLLED_BACK"}
      BY <3>1 DEF HasEnded, Status, Prepared
    <3>3. CASE pc'[c] = "close"
      <4>1. Proceeds(c)
        BY <1>5, <3>3 DEF Advances, Released
      <4> QED BY <2>3, <3>3, <4>1 DEF Closing, Proceeds, Mine
    <3>4. CASE pc[c] = "revert"
      <4>1. prom[p].req = RequestOf(c) /\ Status(p) = "ROLLED_BACK"
        BY <1>1, <2>3, <3>4 DEF Guarded, InStep, Reaches
      <4> QED BY <2>1, <3>1, <4>1 DEF HasEnded
    <3> QED BY <3>1, <3>2, <3>3, <3>4 DEF Writes
  <2> QED BY <1>5, <2>2, <2>3 DEF Advances
<1>6. ASSUME NEW c \in Procs, NEW q \in Proms, NEW row \in Rows, NEW label \in Labels,
             Starting(c, q, row, label)
      PROVE  (Closed(p) \/ Closing(p))'
  <2>1. prom' = prom /\ HasEnded(p)
    BY <1>6 DEF Starting, HasEnded, Status, Prepared
  <2>2. \A d \in Procs : pc[d] = "close" => pc'[d] = "close" /\ Mine(d)' = Mine(d)
    BY <1>6 DEF Starting, Begin, Goto, Mine, IInv, TypeOK
  <2>3. Closing(p) => Closing(p)'
    BY <2>2 DEF Closing
  <2> QED BY <1>2, <1>3, <2>1, <2>3 DEF HasEnded, Status
<1> QED BY <1>4, <1>5, <1>6, NextMoves DEF Elsewhere, vars

LEMMA TendedStep ==
  ASSUME IInv, IInv', CanaryIsRun, [Next]_vars
  PROVE  CanaryIsRun'
<1> SUFFICES ASSUME regime.faults \subseteq {"edit"}, NEW p \in Proms, Status(p)' = "CANARY"
             PROVE  \E c \in Procs : Mine(c)' = p /\ pc'[c] \in CanaryLabels
  BY DEF CanaryIsRun, CanaryLabels, Next, vars
<1>1. "crash" \notin regime.faults /\ "git" \notin regime.faults
  OBVIOUS
<1>2. Status(p) = "CANARY" => \E c \in Procs : Mine(c) = p /\ pc[c] \in CanaryLabels
  BY DEF CanaryIsRun, CanaryLabels
<1>3. CASE UNCHANGED <<prom, pc, loc>>
  BY <1>2, <1>3 DEF Status, Prepared, Mine
<1>4. ASSUME NEW c \in Procs, Advances(c)
      PROVE  \E d \in Procs : Mine(d)' = p /\ pc'[d] \in CanaryLabels
  <2>1. ASSUME Mine(c) = p, pc'[c] \in CanaryLabels
        PROVE  Mine(c)' = p
    BY <1>4, <2>1 DEF Advances, Released, Proceeds, Mine, CanaryLabels
  <2>2. CASE p = Mine(c) /\ OwnWrite(c)
    <3>1. prom'[p].status = "CANARY" /\ Writes(pc[c], prom'[p].status, pc'[c])
      BY <2>2 DEF OwnWrite, Status, Prepared
    <3>2. pc'[c] \in CanaryLabels
      BY <3>1 DEF Writes, CanaryLabels
    <3> QED BY <2>1, <2>2, <3>2
  <2>3. CASE p # Mine(c) \/ (prom' = prom /\ Passes(pc[c], pc'[c]))
    <3>1. Status(p) = "CANARY"
      BY <1>4, <2>3 DEF Advances, Status, Prepared
    <3>2. PICK d \in Procs : Mine(d) = p /\ pc[d] \in CanaryLabels
      BY <1>2, <3>1
    <3>3. CASE d # c
      BY <1>4, <3>2, <3>3 DEF Advances, Mine
    <3>4. CASE d = c
      <4>1. Passes(pc[c], pc'[c])
        BY <2>3, <3>2, <3>4
      <4>2. pc'[c] \in CanaryLabels
        BY <1>1, <3>2, <3>4, <4>1 DEF Passes, CanaryLabels
      <4>3. Mine(c)' = p
        BY <2>1, <3>2, <3>4, <4>2
      <4> QED BY <4>2, <4>3
    <3> QED BY <3>3, <3>4
  <2>4. OwnWrite(c) \/ (prom' = prom /\ Passes(pc[c], pc'[c]))
    BY <1>4 DEF Advances
  <2> QED BY <2>2, <2>3, <2>4, Zenon
<1>5. ASSUME NEW c \in Procs, NEW q \in Proms, NEW row \in Rows, NEW label \in Labels,
             Starting(c, q, row, label)
      PROVE  \E d \in Procs : Mine(d)' = p /\ pc'[d] \in CanaryLabels
  <2>1. Status(p) = "CANARY"
    BY <1>5 DEF Starting, Status, Prepared
  <2>2. \A d \in Procs : pc[d] # "idle" => pc'[d] = pc[d] /\ Mine(d)' = Mine(d)
    BY <1>5 DEF Starting, Begin, Goto, Mine, IInv, TypeOK
  <2> QED BY <1>2, <2>1, <2>2 DEF CanaryLabels
<1> QED BY <1>3, <1>4, <1>5, NextMoves DEF Elsewhere, vars

-----------------------------------------------------------------------------
(* The link, where promotions follow one another.  At most one promotion   *)
(* may still move the link, and the active promotions are a chain: each    *)
(* one was prepared on the one before it.  Its end, t, is what the link    *)
(* shows, or will show when the one command that moves it goes on.         *)

Serial  == NoFaults /\ ~ regime.overlap
Targets == Proms \cup {Base, NoRelease}

Live(p)   == Unfinished(p) \/ \E c \in Procs : Mine(c) = p /\ pc[c] # "revert"
Active(p) == Status(p) = "ACTIVE"

OneLive == \A p, q \in Proms : Live(p) /\ Live(q) => p = q

Chain(t) ==
  /\ \A p \in Proms : Active(p) => p = t \/ Above(p) # {}
  /\ \A p \in Proms : Active(p) /\ prom[p].prev \in Proms => Active(prom[p].prev)
  /\ \A p, q \in Proms :
       Active(p) /\ Active(q) /\ prom[p].prev \in Proms /\ prom[p].prev = prom[q].prev => p = q
  /\ t \in Proms => Active(t) /\ Above(t) = {}

Placed(c, t) ==
  /\ pc[c] \notin {"idle", "revert", "close"} =>
       /\ Active(Mine(c)) => Mine(c) = t /\ loc[c].row.prev # NoRelease
       /\ ~ Active(Mine(c)) => loc[c].row.prev = t
  /\ pc[c] = "active_row" => link = Mine(c)
  /\ pc[c] = "rolled_back" => link = loc[c].row.prev

Between == {"active_row", "rolled_back"}

AtLink(t) ==
  /\ \A p \in Proms : Unfinished(p) => prom[p].prev = t
  /\ \A c \in Procs : Placed(c, t)
  /\ (\A c \in Procs : pc[c] \notin Between) => link = t

InOrder == \E t \in Targets : Chain(t) /\ AtLink(t)

Ordered == Serial => OneLive /\ InOrder

\* Nothing revives a promotion whose pull request was declined.
LEMMA NotRevived ==
  ASSUME IInv, Keeps, NEW q \in Proms, prom'[q] = prom[q], Unfinished(q)'
  PROVE  Unfinished(q)
<1>1. Status(q)' = Status(q)
  BY DEF Status, Prepared
<1>2. CASE Status(q) = "PR_OPEN" /\ pulls'[prom[q].pull].state # "closed"
  <2>1. Prepared(q) /\ prom[q].status = "PR_OPEN"
    BY <1>2 DEF Status
  <2>2. prom[q].pull \in DOMAIN pulls
    BY <2>1 DEF IInv, RowSound
  <2>3. pulls[prom[q].pull].state # "closed"
    BY <1>2, <2>2 DEF Keeps
  <2> QED BY <1>2, <2>3 DEF Unfinished
<1> QED BY <1>1, <1>2 DEF Unfinished

LEMMA AdvanceLive ==
  ASSUME IInv, Guarded, Serial, Keeps, NEW c \in Procs, Advances(c), NEW q \in Proms, Live(q)'
  PROVE  Live(q)
<1>1. "crash" \notin regime.faults
  BY FaultFree DEF Serial
<1>2. Mine(c)' \in {None, Mine(c)} /\ q # None
  BY PromotionAssumption DEF Advances, Released, Proceeds, Idle, Mine
<1>3. \A d \in Procs \ {c} : Mine(d)' = Mine(d) /\ pc'[d] = pc[d]
  BY DEF Advances, Mine
<1>4. CASE q # Mine(c)
  <2>1. Unfinished(q)' => Unfinished(q)
    BY <1>4, NotRevived DEF Advances
  <2>2. ASSUME NEW d \in Procs, Mine(d)' = q, pc'[d] # "revert"
        PROVE  Mine(d) = q /\ pc[d] # "revert"
    BY <1>2, <1>3, <1>4, <2>2
  <2> QED BY <2>1, <2>2 DEF Live
<1>5. CASE q = Mine(c) /\ pc[c] # "revert"
  BY <1>5 DEF Live
<1>6. CASE q = Mine(c) /\ pc[c] = "revert"
  <2>1. pc'[c] = "idle" /\ Status(q) = "ROLLED_BACK"
    BY <1>1, <1>6 DEF Advances, OwnWrite, Passes, Writes, Guarded, InStep, Reaches
  <2>2. Status(q)' = "ROLLED_BACK"
    <3>1. CASE prom' = prom
      BY <2>1, <3>1 DEF Status, Prepared
    <3>2. CASE OwnWrite(c)
      BY <1>6, <3>2 DEF OwnWrite, Writes, Status, Prepared
    <3> QED BY <3>1, <3>2 DEF Advances
  <2>3. ~ Unfinished(q)'
    BY <2>2 DEF Unfinished
  <2>4. Mine(c)' = None
    BY <2>1 DEF Advances, Released, Proceeds, Mine, Idle
  <2>5. ASSUME NEW d \in Procs, Mine(d)' = q
        PROVE  FALSE
    BY <1>2, <1>3, <1>6, <2>4, <2>5, Alone
  <2> QED BY <2>3, <2>5 DEF Live
<1> QED BY <1>4, <1>5, <1>6

\* When a promotion may be prepared, no other one is under way.
LEMMA NobodyLive ==
  ASSUME IInv, Serial, MayPrepare
  PROVE  /\ \A q \in Proms : ~ Live(q)
         /\ \A c \in Procs : pc[c] = "idle"
<1>1. \A q \in Started : ~ Unfinished(q) /\ \A c \in Procs : Mine(c) # q
  BY DEF MayPrepare, Serial
<1>2. \A q \in Proms : q \notin Started => ~ Unfinished(q) /\ \A c \in Procs : Mine(c) # q
  BY DEF Started, Unfinished, Status
<1>3. \A q \in Proms : ~ Live(q)
  BY <1>1, <1>2 DEF Live
<1>4. ASSUME NEW c \in Procs, pc[c] # "idle"
      PROVE  FALSE
  BY <1>1, <1>2, <1>4, UnderWay
<1> QED BY <1>3, <1>4

LEMMA StartLive ==
  ASSUME IInv, Serial, Keeps, NEW c \in Procs, NEW p \in Proms, NEW row \in Rows,
         NEW label \in Labels, Starting(c, p, row, label)
  PROVE  \/ \A q \in Proms : Live(q)' => Live(q)
         \/ (\A q \in Proms : ~ Live(q)) /\ (\A q \in Proms : Live(q)' => q = p)
<1>1. /\ pc'[c] = label /\ Mine(c)' = p /\ prom' = prom
      /\ \A d \in Procs \ {c} : pc'[d] = pc[d] /\ Mine(d)' = Mine(d)
  BY DEF Starting, Begin, Goto, Mine, IInv, TypeOK
<1>2. ASSUME NEW q \in Proms, Live(q)', q # p
      PROVE  Live(q)
  <2>1. Unfinished(q)' => Unfinished(q)
    BY <1>1, NotRevived
  <2>2. ASSUME NEW d \in Procs, Mine(d)' = q, pc'[d] # "revert"
        PROVE  Mine(d) = q /\ pc[d] # "revert"
    BY <1>1, <1>2, <2>2
  <2> QED BY <1>2, <2>1, <2>2 DEF Live
<1>3. CASE MayPrepare
  BY <1>2, <1>3, NobodyLive
<1>4. CASE ~ MayPrepare /\ label # "revert"
  <2>1. Unfinished(p)
    BY <1>4 DEF Starting, MayRollBack, Unfinished, Reaches, Serial
  <2> QED BY <1>2, <2>1 DEF Live
<1>5. CASE label = "revert"
  <2>1. Unfinished(p)' => Unfinished(p)
    BY <1>1, NotRevived
  <2>2. ASSUME NEW d \in Procs, Mine(d)' = p, pc'[d] # "revert"
        PROVE  Mine(d) = p /\ pc[d] # "revert"
    BY <1>1, <1>5, <2>2
  <2>3. Live(p)' => Live(p)
    BY <2>1, <2>2 DEF Live
  <2> QED BY <1>2, <2>3
<1> QED BY <1>3, <1>4, <1>5

LEMMA OneLiveStep ==
  ASSUME IInv, Guarded, Serial, OneLive, Next
  PROVE  OneLive'
<1>1. Keeps
  BY NextKeeps
<1>2. CASE Elsewhere
  <2>1. \A q \in Proms : Unfinished(q)' => Unfinished(q)
    BY <1>1, <1>2, NotRevived DEF Elsewhere
  <2>2. \A q \in Proms : Live(q)' => Live(q)
    BY <1>2, <2>1 DEF Elsewhere, Live, Mine
  <2> QED BY <2>2 DEF OneLive
<1>3. ASSUME NEW c \in Procs, Advances(c)
      PROVE  OneLive'
  BY <1>1, <1>3, AdvanceLive DEF OneLive
<1>4. ASSUME NEW c \in Procs, NEW p \in Proms, NEW row \in Rows, NEW label \in Labels,
             Starting(c, p, row, label)
      PROVE  OneLive'
  BY <1>1, <1>4, StartLive DEF OneLive
<1> QED BY <1>2, <1>3, <1>4, NextMoves

\* Where one command moves, the others rest or open a revert.
LEMMA Lonely ==
  ASSUME IInv, Guarded, OneLive, NEW c \in Procs, pc[c] \notin {"idle", "revert"},
         NEW d \in Procs, d # c
  PROVE  pc[d] \in {"idle", "revert"}
<1> SUFFICES ASSUME pc[d] \notin {"idle", "revert"} PROVE FALSE
  OBVIOUS
<1>1. Mine(c) \in Proms /\ Mine(d) \in Proms
  BY UnderWay
<1>2. Live(Mine(c)) /\ Live(Mine(d))
  BY DEF Live
<1> QED BY <1>1, <1>2, Alone DEF OneLive

-----------------------------------------------------------------------------
(* How the chain of active promotions changes.                             *)

LEMMA ChainSame ==
  ASSUME NEW t, Chain(t),
         \A p \in Proms : (Active(p)' <=> Active(p)) /\ (Active(p) => prom'[p].prev = prom[p].prev)
  PROVE  Chain(t)'
<1>1. \A p \in Proms : Above(p)' = Above(p)
  BY DEF Above, Active
<1>2. \A p \in Proms : Active(p)' => p = t \/ Above(p)' # {}
  BY <1>1 DEF Chain
<1>3. \A p \in Proms : Active(p)' /\ prom'[p].prev \in Proms => Active(prom[p].prev)'
  <2> SUFFICES ASSUME NEW p \in Proms, Active(p)', prom'[p].prev \in Proms
               PROVE  Active(prom[p].prev)'
    OBVIOUS
  <2>1. PICK q \in Proms : q = prom[p].prev /\ q = prom'[p].prev
    OBVIOUS
  <2>2. Active(q)'
    BY <2>1 DEF Chain
  <2> QED BY <2>1, <2>2 DEF Active, Status, Prepared
<1>4. \A p, q \in Proms :
        Active(p)' /\ Active(q)' /\ prom'[p].prev \in Proms /\ prom'[p].prev = prom'[q].prev => p = q
  BY DEF Chain
<1>5. t \in Proms => Active(t)' /\ Above(t)' = {}
  BY <1>1 DEF Chain
<1> QED BY <1>2, <1>3, <1>4, <1>5 DEF Chain, Active, Status, Prepared, Above

\* A promotion becomes active on top of the one that it was prepared on.
LEMMA ChainGrows ==
  ASSUME NEW t, Chain(t), NEW p \in Proms, ~ Active(p), Active(p)', prom'[p].prev = t,
         \A q \in Proms \ {p} : prom'[q] = prom[q]
  PROVE  Chain(p)'
<1>1. \A q \in Proms \ {p} : (Active(q)' <=> Active(q)) /\ prom'[q].prev = prom[q].prev
  BY DEF Active, Status, Prepared
<1>2. \A q \in Proms : Above(q) \subseteq Above(q)' /\ (q # t => Above(q)' \subseteq Above(q))
  BY <1>1 DEF Above, Active
<1>3. t \in Proms => p \in Above(t)' /\ t # p /\ Active(t)
  BY DEF Above, Active, Chain
<1>4. \A q \in Proms : Active(q)' => q = p \/ Above(q)' # {}
  BY <1>1, <1>2, <1>3 DEF Chain
<1>5. \A q, x \in Proms : Active(q)' /\ prom'[q].prev = x => Active(x)'
  BY <1>1, <1>3 DEF Chain
<1>6. ASSUME NEW q \in Proms, NEW x \in Proms, Active(q)', Active(x)', q # x,
             prom'[q].prev \in Proms, prom'[q].prev = prom'[x].prev
      PROVE  FALSE
  <2>1. CASE q # p /\ x # p
    BY <1>1, <1>6, <2>1 DEF Chain
  <2>2. CASE q = p
    BY <1>1, <1>6, <2>2 DEF Chain, Above, Active
  <2>3. CASE x = p
    BY <1>1, <1>6, <2>3 DEF Chain, Above, Active
  <2> QED BY <2>1, <2>2, <2>3
<1>7. Above(p)' = {}
  <2> SUFFICES ASSUME NEW q \in Proms, Active(q)', prom'[q].prev = p PROVE FALSE
    BY DEF Above, Active
  <2>1. q # p
    BY <1>3
  <2> QED BY <1>1, <2>1 DEF Chain
<1> QED BY <1>4, <1>5, <1>6, <1>7 DEF Chain, Active, Status, Prepared, Above

\* The last active promotion is rolled back to the one below it.
LEMMA ChainShrinks ==
  ASSUME NEW t, NEW p \in Proms, Chain(p), Active(p), ~ Active(p)', prom[p].prev = t,
         \A q \in Proms \ {p} : prom'[q] = prom[q]
  PROVE  Chain(t)'
<1>1. \A q \in Proms \ {p} : (Active(q)' <=> Active(q)) /\ prom'[q].prev = prom[q].prev
  BY DEF Active, Status, Prepared
<1>2. \A q \in Proms : Above(q)' = Above(q) \ {p}
  BY <1>1 DEF Above, Active
<1>3. Above(p) = {} /\ t # p
  BY DEF Chain, Above, Active
<1>4. \A q \in Proms : Active(q)' => q = t \/ Above(q)' # {}
  <2> SUFFICES ASSUME NEW q \in Proms, Active(q)', q # t PROVE Above(q)' # {}
    OBVIOUS
  <2>1. p \notin Above(q)
    BY DEF Above
  <2>2. Above(q) # {}
    BY <1>1 DEF Chain
  <2> QED BY <1>2, <2>1, <2>2
<1>5. \A q, x \in Proms : Active(q)' /\ prom'[q].prev = x => Active(x)'
  <2> SUFFICES ASSUME NEW q \in Proms, NEW x \in Proms, Active(q)', prom'[q].prev = x
               PROVE  Active(x)'
    OBVIOUS
  <2>1. Active(q) /\ prom[q].prev = x /\ Active(x)
    BY <1>1 DEF Chain
  <2>2. x # p
    BY <1>3, <2>1 DEF Above, Active
  <2> QED BY <1>1, <2>1, <2>2
<1>6. \A q, x \in Proms :
        Active(q)' /\ Active(x)' /\ prom'[q].prev \in Proms /\ prom'[q].prev = prom'[x].prev => q = x
  BY <1>1 DEF Chain
<1>7. t \in Proms => Active(t)' /\ Above(t)' = {}
  <2> SUFFICES ASSUME t \in Proms PROVE Active(t)' /\ Above(t)' = {}
    OBVIOUS
  <2>1. Active(t)'
    BY <1>1, <1>3 DEF Chain
  <2>2. ASSUME NEW q \in Proms, Active(q), prom[q].prev = t, q # p
        PROVE  FALSE
    BY <2>2 DEF Chain
  <2> QED BY <1>2, <2>1, <2>2 DEF Above, Active
<1> QED BY <1>4, <1>5, <1>6, <1>7 DEF Chain, Active, Status, Prepared, Above

LEMMA AdvanceInOrder ==
  ASSUME IInv, IInv', Guarded, Serial, OneLive, InOrder, Keeps, NEW c \in Procs, Advances(c)
  PROVE  InOrder'
<1>1. PICK t \in Targets : Chain(t) /\ AtLink(t)
  BY DEF InOrder
<1>0. PICK p \in Proms, prev \in Targets : p = Mine(c) /\ prev = loc[c].row.prev
  BY UnderWay DEF Advances, Rows, Targets
<1>2. "crash" \notin regime.faults /\ pc[c] # "idle" /\ p # None
  BY FaultFree, PromotionAssumption DEF Serial, Advances
<1>3. \A d \in Procs \ {c} : pc'[d] = pc[d] /\ loc'[d] = loc[d] /\ Mine(d)' = Mine(d)
  BY DEF Advances, Mine
<1>4. /\ \A q \in Proms \ {p} : prom'[q] = prom[q]
      /\ \A q \in Proms \ {p} : Status(q)' = Status(q) /\ (Unfinished(q)' => Unfinished(q))
  BY <1>0, NotRevived DEF Advances, Status, Prepared
<1>5. ASSUME pc[c] # "receipt"
      PROVE  /\ Prepared(p) /\ prom[p].prev = prev /\ Status(p) = prom[p].status
             /\ Reaches(pc[c], Status(p))
  BY <1>0, <1>2, <1>5 DEF Guarded, InStep, Status
\* What is left to show when everybody else rests or opens a revert.
<1>6. ASSUME pc[c] \notin {"idle", "revert"}, NEW u \in Targets, Chain(u)',
             Unfinished(p)' => prom'[p].prev = u, u = t \/ \A q \in Proms \ {p} : ~ Unfinished(q),
             Placed(c, u)', pc'[c] \notin Between => link' = u
      PROVE  InOrder'
  <2>1. \A d \in Procs \ {c} : pc'[d] \in {"idle", "revert"}
    BY <1>3, <1>6, Lonely
  <2>2. \A d \in Procs : Placed(d, u)'
    BY <1>6, <2>1 DEF Placed
  <2>3. \A q \in Proms : Unfinished(q)' => prom'[q].prev = u
    BY <1>1, <1>4, <1>6 DEF AtLink
  <2>4. (\A d \in Procs : pc'[d] \notin Between) => link' = u
    BY <1>6
  <2> QED BY <1>6, <2>2, <2>3, <2>4 DEF InOrder, AtLink, Targets
<1>7. CASE pc[c] = "revert"
  <2>1. pc'[c] = "idle" /\ link' = link
    BY <1>2, <1>7 DEF Advances, OwnWrite, Passes, Writes
  <2>2. Status(p) = "ROLLED_BACK" /\ Status(p)' = "ROLLED_BACK"
    <3>1. Status(p) = "ROLLED_BACK"
      BY <1>5, <1>7 DEF Reaches
    <3>2. CASE prom' = prom
      BY <3>1, <3>2 DEF Status, Prepared
    <3>3. CASE OwnWrite(c)
      BY <1>0, <1>7, <3>1, <3>3 DEF OwnWrite, Writes, Status, Prepared
    <3>4. prom' = prom \/ OwnWrite(c)
      BY DEF Advances
    <3> QED BY <3>1, <3>2, <3>3, <3>4
  <2>3. \A q \in Proms : (Active(q)' <=> Active(q)) /\ (Active(q) => prom'[q].prev = prom[q].prev)
    BY <1>4, <2>2 DEF Active
  <2>4. Chain(t)'
    BY <1>1, <2>3, ChainSame
  <2>5. \A q \in Proms : Unfinished(q)' => prom'[q].prev = t
    BY <1>1, <1>4, <2>2 DEF Unfinished, AtLink
  <2>6. ASSUME NEW d \in Procs
        PROVE  Placed(d, t)'
    <3>1. CASE d = c
      BY <2>1, <3>1 DEF Placed
    <3>2. CASE d # c
      <4>1. Placed(d, t) /\ (pc[d] # "idle" => Mine(d) \in Proms)
        BY <1>1, UnderWay DEF AtLink
      <4>2. pc[d] # "idle" => (Active(Mine(d))' <=> Active(Mine(d)))
        BY <1>3, <2>3, <3>2, <4>1 DEF Active, Status, Prepared
      <4> QED BY <1>3, <2>1, <3>2, <4>1, <4>2 DEF Placed
    <3> QED BY <3>1, <3>2
  <2>7. (\A d \in Procs : pc'[d] \notin Between) => link' = t
    BY <1>1, <1>3, <1>7, <2>1 DEF AtLink, Between
  <2> QED BY <2>4, <2>5, <2>6, <2>7 DEF InOrder, AtLink, Targets
<1>8. ASSUME pc[c] \notin {"idle", "revert"}
      PROVE  /\ pc[c] \notin Between => link = t
             /\ \A q \in Proms \ {p} : ~ Unfinished(q)
             /\ Placed(c, t)
  <2>1. \A d \in Procs \ {c} : pc[d] \notin Between
    BY <1>8, Lonely DEF Between
  <2>2. Live(p)
    BY <1>0, <1>8 DEF Live
  <2> QED BY <1>1, <1>2, <2>1, <2>2 DEF AtLink, OneLive, Live
\* The promotion becomes active.
<1>9. CASE pc[c] = "active_row"
  <2>1. OwnWrite(c) /\ pc'[c] = "close" /\ prom'[p].status = "ACTIVE" /\ link' = link
    BY <1>0, <1>2, <1>9 DEF Advances, OwnWrite, Passes, Writes
  <2>2. Status(p) = "CANARY" /\ Status(p)' = "ACTIVE" /\ prom'[p].prev = prev
    BY <1>0, <1>5, <1>9, <2>1 DEF Reaches, OwnWrite, Status, Prepared
  <2>3. prev = t /\ link = p
    BY <1>0, <1>8, <1>9, <2>2 DEF Placed, Active
  <2>4. Chain(p)'
    BY <1>1, <1>2, <1>4, <2>2, <2>3, ChainGrows DEF Active
  <2>5. ~ Unfinished(p)' /\ Placed(c, p)'
    BY <2>1, <2>2 DEF Unfinished, Placed
  <2> QED BY <1>2, <1>6, <1>8, <1>9, <2>1, <2>3, <2>4, <2>5 DEF Targets
\* The promotion is rolled back.
<1>10. CASE pc[c] = "rolled_back"
  <2>1. OwnWrite(c) /\ pc'[c] = "close" /\ prom'[p].status = "ROLLED_BACK" /\ link' = link
    BY <1>0, <1>2, <1>10 DEF Advances, OwnWrite, Passes, Writes
  <2>2. Status(p)' = "ROLLED_BACK" /\ prom[p].prev = prev /\ link = prev
    BY <1>0, <1>5, <1>8, <1>10, <2>1 DEF OwnWrite, Status, Prepared, Placed
  <2>3. Chain(prev)'
    <3>1. CASE Active(p)
      <4>1. p = t
        BY <1>0, <1>8, <1>10, <3>1 DEF Placed
      <4> QED BY <1>1, <1>2, <1>4, <2>2, <3>1, <4>1, ChainShrinks DEF Active
    <3>2. CASE ~ Active(p)
      <4>1. prev = t
        BY <1>0, <1>8, <1>10, <3>2 DEF Placed
      <4> QED BY <1>1, <1>4, <2>2, <3>2, <4>1, ChainSame DEF Active
    <3> QED BY <3>1, <3>2
  <2>4. ~ Unfinished(p)' /\ Placed(c, prev)'
    BY <2>1, <2>2 DEF Unfinished, Placed
  <2> QED BY <1>2, <1>6, <1>8, <1>10, <2>1, <2>2, <2>3, <2>4
\* Nothing becomes active, and nothing active is rolled back.
<1>11. CASE pc[c] \in {"close", "restore", "switch"}
  <2>1. prom' = prom /\ Passes(pc[c], pc'[c])
    BY <1>11 DEF Advances, OwnWrite, Writes
  <2>2. \A q \in Proms : Status(q)' = Status(q)
    BY <2>1 DEF Status, Prepared
  <2>3. Chain(t)'
    BY <1>1, <2>1, <2>2, ChainSame DEF Active
  <2>4. link = t
    BY <1>8, <1>11 DEF Between
  <2>5. Unfinished(p)' => prom'[p].prev = t
    BY <1>1, <1>2, <2>1, NotRevived DEF AtLink
  <2>6. ASSUME pc'[c] # "idle"
        PROVE  Mine(c)' = p /\ loc'[c].row.prev = prev
    BY <1>0, <2>6 DEF Advances, Released, Proceeds, Mine
  <2>7. CASE pc[c] = "close"
    <3>1. pc'[c] = "idle" /\ link' = link
      BY <1>2, <2>1, <2>7 DEF Passes, Advances
    <3>2. Placed(c, t)'
      BY <3>1 DEF Placed
    <3> QED BY <1>6, <2>3, <2>4, <2>5, <2>7, <3>1, <3>2
  <2>8. CASE pc[c] = "switch"
    <3>1. pc'[c] = "active_row" /\ link' = p
      BY <1>0, <1>2, <2>1, <2>8 DEF Passes, Advances
    <3>2. prev = t /\ ~ Active(p)
      BY <1>0, <1>5, <1>8, <2>8 DEF Placed, Active, Reaches
    <3>3. ~ Active(Mine(c))'
      BY <1>2, <2>2, <2>6, <3>1, <3>2 DEF Active, Status, Prepared
    <3>4. Placed(c, t)'
      BY <2>6, <3>1, <3>2, <3>3 DEF Placed
    <3> QED BY <1>6, <2>3, <2>5, <2>8, <3>1, <3>4 DEF Between
  <2>9. CASE pc[c] = "restore"
    <3>1. pc'[c] = "rolled_back" /\ link' = IF prev # NoRelease THEN prev ELSE link
      BY <1>0, <1>2, <2>1, <2>9 DEF Passes, Advances
    <3>2. /\ Active(p) => p = t /\ prev # NoRelease
          /\ ~ Active(p) => prev = t
      BY <1>0, <1>8, <2>9 DEF Placed
    <3>3. Active(Mine(c))' <=> Active(p)
      BY <1>2, <2>1, <2>6, <3>1 DEF Active, Status, Prepared
    <3>4. link' = prev
      BY <2>4, <3>1, <3>2
    <3>5. Placed(c, t)'
      BY <2>6, <3>1, <3>2, <3>3, <3>4 DEF Placed
    <3> QED BY <1>6, <2>3, <2>5, <2>9, <3>1, <3>5 DEF Between
  <2> QED BY <1>11, <2>7, <2>8, <2>9
<1>12. CASE pc[c] \notin {"revert", "active_row", "rolled_back", "close", "restore", "switch"}
  <2>1. link = t /\ Placed(c, t)
    BY <1>2, <1>8, <1>12 DEF Between
  <2>2. ~ Active(p)
    <3>1. CASE pc[c] = "receipt"
      BY <1>0, <3>1 DEF Guarded, Fresh, Active, Status
    <3>2. CASE pc[c] # "receipt"
      <4>1. pc[c] \in Labels
        BY DEF IInv, TypeOK
      <4> QED BY <1>2, <1>5, <1>12, <3>2, <4>1 DEF Active, Reaches, Labels
    <3> QED BY <3>1, <3>2
  <2>3. prev = t
    BY <1>0, <1>2, <1>12, <2>1, <2>2 DEF Placed
  <2>4. /\ pc'[c] \notin {"active_row", "rolled_back"} /\ Status(p)' # "ACTIVE"
        /\ Status(p)' # "none" => prom'[p].prev = t
    <3>1. CASE prom' = prom /\ Passes(pc[c], pc'[c])
      <4>1. pc[c] # "receipt"
        BY <1>2, <3>1 DEF Passes
      <4> QED BY <1>2, <1>5, <1>12, <2>2, <2>3, <3>1, <4>1 DEF Passes, Active, Status, Prepared
    <3>2. CASE OwnWrite(c)
      BY <1>0, <1>2, <1>12, <2>3, <3>2 DEF OwnWrite, Writes, Status, Prepared
    <3> QED BY <3>1, <3>2 DEF Advances
  <2>5. link' = t
    BY <2>1, <2>4 DEF Advances
  <2>6. Chain(t)'
    BY <1>1, <1>4, <2>2, <2>4, ChainSame DEF Active
  <2>7. Unfinished(p)' => prom'[p].prev = t
    BY <2>4 DEF Unfinished
  <2>8. Placed(c, t)'
    <3>1. CASE pc'[c] = "idle"
      BY <3>1 DEF Placed
    <3>2. CASE pc'[c] # "idle"
      <4>1. Mine(c)' = p /\ loc'[c].row.prev = t
        BY <1>0, <2>3, <3>2 DEF Advances, Released, Proceeds, Mine
      <4>2. ~ Active(Mine(c))'
        BY <2>4, <4>1 DEF Active, Status, Prepared
      <4> QED BY <2>4, <4>1, <4>2 DEF Placed
    <3> QED BY <3>1, <3>2
  <2> QED BY <1>2, <1>6, <1>12, <2>5, <2>6, <2>7, <2>8
<1> QED BY <1>7, <1>9, <1>10, <1>11, <1>12

LEMMA StartInOrder ==
  ASSUME IInv, Guarded, Serial, InOrder, Keeps, NEW c \in Procs, NEW p \in Proms,
         NEW row \in Rows, NEW label \in Labels, Starting(c, p, row, label)
  PROVE  InOrder'
<1>1. PICK t \in Targets : Chain(t) /\ AtLink(t)
  BY DEF InOrder
<1>2. /\ pc[c] = "idle" /\ prom' = prom /\ link' = link
      /\ pc'[c] = label /\ loc'[c].prom = p /\ loc'[c].row = row
      /\ \A d \in Procs \ {c} : pc'[d] = pc[d] /\ loc'[d] = loc[d]
  BY DEF Starting, Begin, Goto, IInv, TypeOK
<1>3. \A q \in Proms : Status(q)' = Status(q) /\ (Unfinished(q)' => Unfinished(q))
  BY <1>2, NotRevived DEF Status, Prepared
<1>4. Chain(t)'
  BY <1>1, <1>2, <1>3, ChainSame DEF Active
<1>5. \A q \in Proms : Unfinished(q)' => prom'[q].prev = t
  BY <1>1, <1>2, <1>3 DEF AtLink
<1>6. MayPrepare => link = t
  BY <1>1, NobodyLive DEF AtLink, Between
<1>7. label # "revert" =>
        IF Active(p) THEN p = t /\ row.prev # NoRelease ELSE row.prev = t
  <2>1. CASE label = "receipt"
    BY <1>6, <2>1 DEF Starting, Started, Active, Status
  <2>2. CASE label \in {"push", "merged", "canary_row"}
    <3>1. Unfinished(p) /\ ~ Active(p) /\ row = prom[p]
      BY <2>2 DEF Starting, Reaches, Unfinished, Active
    <3> QED BY <1>1, <3>1 DEF AtLink
  <2>3. CASE label = "restore" /\ Active(p)
    <3>1. link = p /\ MayPrepare /\ row.prev # NoRelease
      BY <2>3 DEF Starting, MayRollBack, Unfinished, Active, Serial
    <3> QED BY <1>6, <2>3, <3>1
  <2>4. CASE label = "restore" /\ ~ Active(p)
    <3>1. Unfinished(p) /\ row = prom[p]
      BY <2>4 DEF Starting, Reaches, Unfinished, Active
    <3> QED BY <1>1, <2>4, <3>1 DEF AtLink
  <2> QED BY <2>1, <2>2, <2>3, <2>4 DEF Starting
<1>8. label \notin Between /\ label # "idle"
  BY DEF Starting, Between
<1>9. Placed(c, t)'
  <2>1. Active(Mine(c))' <=> Active(p)
    BY <1>2, <1>3 DEF Active, Status, Prepared, Mine
  <2>2. Mine(c)' = p
    BY <1>2 DEF Mine
  <2> QED BY <1>2, <1>7, <1>8, <2>1, <2>2 DEF Placed, Between
<1>10. ASSUME NEW d \in Procs, d # c
       PROVE  Placed(d, t)'
  <2>1. Placed(d, t)
    BY <1>1 DEF AtLink
  <2>2. Mine(d)' = Mine(d) /\ (Active(Mine(d))' <=> Active(Mine(d)))
    BY <1>2, <1>10 DEF Active, Status, Prepared, Mine
  <2> QED BY <1>2, <1>10, <2>1, <2>2 DEF Placed
<1>11. (\A d \in Procs : pc'[d] \notin Between) => link' = t
  <2>1. (\A d \in Procs : pc'[d] \notin Between) => \A d \in Procs : pc[d] \notin Between
    BY <1>2 DEF Between
  <2> QED BY <1>1, <1>2, <2>1 DEF AtLink
<1> QED BY <1>4, <1>5, <1>9, <1>10, <1>11 DEF InOrder, AtLink, Targets

LEMMA ElsewhereInOrder ==
  ASSUME IInv, InOrder, Keeps, Elsewhere
  PROVE  InOrder'
<1>1. PICK t \in Targets : Chain(t) /\ AtLink(t)
  BY DEF InOrder
<1>2. prom' = prom /\ link' = link /\ pc' = pc /\ loc' = loc
  BY DEF Elsewhere
<1>3. \A q \in Proms : Status(q)' = Status(q) /\ (Unfinished(q)' => Unfinished(q))
  BY <1>2, NotRevived DEF Status, Prepared
<1>4. Chain(t)'
  BY <1>1, <1>2, <1>3, ChainSame DEF Active
<1>5. \A d \in Procs : Placed(d, t)'
  BY <1>1, <1>2 DEF AtLink, Placed, Active, Status, Prepared, Mine
<1> QED BY <1>1, <1>2, <1>3, <1>4, <1>5 DEF InOrder, AtLink, Targets

LEMMA InitOrdered == Init => Ordered
<1> SUFFICES ASSUME Init PROVE OneLive /\ InOrder
  BY DEF Ordered
<1>1. \A p \in Proms : ~ Prepared(p) /\ Status(p) = "none"
  BY DEF Init, Prepared, Status
<1>2. \A p \in Proms : ~ Live(p)
  BY <1>1, PromotionAssumption DEF Live, Unfinished, Init, Mine, Idle
<1>3. link \in Targets
  BY PromotionAssumption DEF Init, Targets
<1>4. link \notin Proms
  BY PromotionAssumption DEF Init
<1>5. Chain(link)
  BY <1>1, <1>4 DEF Chain, Active
<1>6. AtLink(link)
  BY <1>1 DEF AtLink, Unfinished, Placed, Init
<1> QED BY <1>2, <1>3, <1>5, <1>6 DEF OneLive, InOrder

LEMMA NextOrdered == IInv /\ IInv' /\ Leased /\ Ordered /\ [Next]_vars => Ordered'
<1> SUFFICES ASSUME IInv, IInv', Leased, Ordered, [Next]_vars, Serial'
             PROVE  OneLive' /\ InOrder'
  BY DEF Ordered
<1>1. regime' = regime
  BY DEF Next, vars
<1>2. Serial /\ OneLive /\ InOrder
  BY <1>1 DEF Ordered, Serial, NoFaults
<1>3. Guarded
  BY <1>2, FaultFree DEF Leased, Serial
<1>4. CASE Next
  BY <1>2, <1>3, <1>4, NextKeeps, NextMoves, OneLiveStep, AdvanceInOrder, StartInOrder, ElsewhereInOrder
<1>5. CASE UNCHANGED vars
  <2>1. Keeps /\ Elsewhere
    BY <1>5 DEF vars, github, disk, Keeps, Elsewhere
  <2>2. OneLive'
    BY <1>2, <1>5 DEF vars, github, OneLive, Live, Unfinished, Status, Prepared, Mine
  <2> QED BY <1>2, <2>1, <2>2, ElsewhereInOrder
<1> QED BY <1>4, <1>5

-----------------------------------------------------------------------------
(* The link, the rows and the requests.                                    *)

Agreement == Leased /\ EndsClosed /\ CanaryIsRun /\ Ordered

LEMMA InitAgreement == Init => Agreement
<1> SUFFICES ASSUME Init PROVE EndsClosed /\ CanaryIsRun
  BY InitLeased, InitOrdered DEF Agreement
<1>1. \A p \in Proms : Status(p) = "none"
  BY DEF Init, Status, Prepared
<1> QED BY <1>1 DEF EndsClosed, CanaryIsRun, HasEnded

LEMMA NextAgreement == IInv /\ IInv' /\ Agreement /\ [Next]_vars => Agreement'
  BY NextLeased, EndedStep, TendedStep, NextOrdered DEF Agreement

LEMMA AgreementAgrees == IInv /\ Agreement => LinkAndRowsAgree
<1> SUFFICES ASSUME IInv, Agreement PROVE LinkAndRowsAgree
  OBVIOUS
<1>1. EndedIsClosed
  BY DEF Agreement, EndsClosed, EndedIsClosed, HasEnded, Closed, Closing
<1>2. LatestStaysActive
  <2> SUFFICES ASSUME Serial, \A p \in Proms : Status(p) \notin {"CANARY", "FAILED"},
                      \A c \in Procs : pc[c] # "rolled_back"
               PROVE  /\ \A p \in Proms : Active(p) => link = p \/ Above(p) # {}
                      /\ link \in Proms => Active(link)
    BY DEF LatestStaysActive, Serial, Active
  <2>1. Guarded
    BY FaultFree DEF Agreement, Leased, Serial
  <2>2. PICK t \in Targets : Chain(t) /\ AtLink(t)
    BY DEF Agreement, Ordered, InOrder
  <2>3. ASSUME NEW c \in Procs, pc[c] = "active_row"
        PROVE  FALSE
    <3>1. Mine(c) \in Proms /\ Status(Mine(c)) = "CANARY"
      BY <2>1, <2>3, UnderWay DEF Guarded, InStep, Reaches
    <3> QED BY <3>1
  <2>4. link = t
    BY <2>2, <2>3 DEF AtLink, Between
  <2> QED BY <2>2, <2>4 DEF Chain
<1> QED BY <1>1, <1>2 DEF Agreement, LinkAndRowsAgree

\* Where promotions follow one another the link shows the newest active one;
\* a promotion that ended has closed its request, and one in CANARY has the
\* command that ends it: run_canary, rollback and the commands around them.
THEOREM LinkAgrees == Spec => []LinkAndRowsAgree
<1>1. Init => IInv /\ Agreement
  BY InitIInv, InitAgreement
<1>2. IInv /\ IInv' /\ Agreement /\ [Next]_vars => Agreement'
  BY NextAgreement
<1>3. IInv /\ Agreement => LinkAndRowsAgree
  BY AgreementAgrees
<1> QED BY <1>1, <1>2, <1>3, Sound, PTL DEF Spec
=============================================================================
