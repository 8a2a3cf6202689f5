---------------------------- MODULE BudgetProofs ----------------------------
(***************************************************************************)
(* Proofs about Budget, for any number of processes, requests, calls and   *)
(* cases, whichever of them crash or fail to settle.                       *)
(***************************************************************************)
EXTENDS Budget, FiniteSetTheorems, TLAPS

LEMMA AppendFacts ==
  ASSUME NEW S, NEW s \in Seq(S), NEW e \in S
  PROVE  /\ Append(s, e) \in Seq(S)
         /\ Len(s) \in Nat /\ DOMAIN s = 1 .. Len(s)
         /\ Len(Append(s, e)) = Len(s) + 1
         /\ DOMAIN Append(s, e) = 1 .. (Len(s) + 1)
         /\ \A i \in 1 .. Len(s) : s[i] \in S /\ Append(s, e)[i] = s[i]
         /\ Append(s, e)[Len(s) + 1] = e
  OBVIOUS

\* The latest grant is a granted wave and no later wave is granted.
LEMMA LatestFacts ==
  ASSUME TypeOK
  PROVE  /\ Latest \in Waves \cup {0}
         /\ Latest # 0 => Latest \in Granted
         /\ \A w \in Granted : w \in Waves /\ w <= Latest /\ Latest # 0
  BY DEF TypeOK, Latest, Granted, Waves

LEMMA FollowingType ==
  ASSUME NEW w \in Waves \cup {0}
  PROVE  Following(w) \in Waves \cup {0}
  BY DEF Following, Waves

\* The rows before a position, and the reserved rows, are finitely many.
LEMMA RowsAreFinite ==
  ASSUME TypeOK
  PROVE  /\ IsFiniteSet(Reserved) /\ Cardinality(Reserved) \in Nat
         /\ \A e : \A n \in Nat : Cardinality(Prior(e, n)) \in Nat
<1>1. Len(usage) \in Nat /\ DOMAIN usage = 1 .. Len(usage)
  BY DEF TypeOK
<1>2. IsFiniteSet(Reserved) /\ Cardinality(Reserved) \in Nat
  <2>1. IsFiniteSet(1 .. Len(usage))
    BY <1>1, FS_Interval
  <2>2. Reserved \in SUBSET (1 .. Len(usage))
    BY <1>1 DEF Reserved
  <2> QED BY <2>1, <2>2, FS_Subset, FS_CardinalityType
<1>3. ASSUME NEW e, NEW n \in Nat
      PROVE  Cardinality(Prior(e, n)) \in Nat
  <2>1. IsFiniteSet(1 .. n - 1)
    BY FS_Interval
  <2>2. Prior(e, n) \in SUBSET (1 .. n - 1)
    BY DEF Prior
  <2> QED BY <2>1, <2>2, FS_Subset, FS_CardinalityType
<1> QED BY <1>2, <1>3

LEMMA InitIInv == Init => IInv
<1> SUFFICES ASSUME Init PROVE IInv
  OBVIOUS
<1> USE BudgetAssumption DEF Init
<1>1. TypeOK
  BY DEF TypeOK, Granted, Waves, Labels, Memory
<1>2. usage = << >> /\ Granted = {}
  BY DEF Granted
<1>3. CallsWithinBudget /\ NumberedInTurn /\ KeysAreSpent /\ WavesInOrder
  BY <1>2 DEF CallsWithinBudget, NumberedInTurn, KeysAreSpent, WavesInOrder
<1>4. RunningCallsAreBooked /\ ChecksHold
  BY <1>2 DEF RunningCallsAreBooked, ChecksHold
<1> QED BY <1>1, <1>3, <1>4 DEF IInv

-----------------------------------------------------------------------------
(* Moves.                                                                  *)

\* Commands that stay where they are keep a memory of their place, as rows
\* are never removed.
LEMMA Moved ==
  ASSUME TypeOK, NEW p \in Procs, NEW label \in Labels, NEW memory,
         Goto(p, label, memory), memory \in Memory(label)',
         DOMAIN requests \subseteq DOMAIN requests',
         DOMAIN usage \subseteq DOMAIN usage'
  PROVE  /\ pc' \in [Procs -> Labels] /\ DOMAIN loc' = Procs
         /\ \A q \in Procs : (loc[q] \in Memory(pc[q]))'
         /\ pc'[p] = label /\ loc'[p] = memory
         /\ \A q \in Procs : q # p => pc'[q] = pc[q] /\ loc'[q] = loc[q]
<1>1. pc' = [pc EXCEPT ![p] = label] /\ loc' = [loc EXCEPT ![p] = memory]
  BY DEF Goto
<1>2. pc \in [Procs -> Labels] /\ DOMAIN loc = Procs
  BY DEF TypeOK
<1>3. pc' \in [Procs -> Labels] /\ DOMAIN loc' = Procs
  BY <1>1, <1>2
<1>4. pc'[p] = label /\ loc'[p] = memory
  BY <1>1, <1>2
<1>5. \A q \in Procs : q # p => pc'[q] = pc[q] /\ loc'[q] = loc[q]
  BY <1>1, <1>2
<1>6. ASSUME NEW q \in Procs PROVE (loc[q] \in Memory(pc[q]))'
  <2>1. CASE q = p
    BY <2>1, <1>4 DEF Memory, Labels
  <2>2. CASE q # p
    <3>1. loc[q] \in Memory(pc[q]) /\ pc[q] \in Labels
      BY DEF TypeOK
    <3> QED BY <2>2, <3>1, <1>5 DEF Memory, Labels
  <2> QED BY <2>1, <2>2
<1> QED BY <1>3, <1>4, <1>5, <1>6

\* A command that moves without touching a row disturbs nothing, unless it
\* comes to a place where its checks must hold.
LEMMA QuietMove ==
  ASSUME IInv, NEW p \in Procs, NEW label \in Labels, NEW memory,
         Goto(p, label, memory), memory \in Memory(label),
         label # "calling",
         label = "write_request" =>
           memory.offer.calls <= MaxCalls[memory.offer.wave],
         label = "write_grant" => Entitled(requests[memory.request]),
         UNCHANGED <<requests, grants, expired, usage>>
  PROVE  IInv'
<1>1. memory \in Memory(label)'
  BY DEF Memory, Labels
<1>2. /\ pc' \in [Procs -> Labels] /\ DOMAIN loc' = Procs
      /\ \A q \in Procs : (loc[q] \in Memory(pc[q]))'
      /\ pc'[p] = label /\ loc'[p] = memory
      /\ \A q \in Procs : q # p => pc'[q] = pc[q] /\ loc'[q] = loc[q]
  BY <1>1, Moved DEF IInv
<1>3. TypeOK'
  BY <1>2 DEF IInv, TypeOK, Granted, Grant
<1>4. (WavesInOrder /\ CallsWithinBudget /\ NumberedInTurn /\ KeysAreSpent)'
  BY DEF IInv, WavesInOrder, CallsWithinBudget, NumberedInTurn, KeysAreSpent,
         Granted, Grant, Prior, Same
<1>5. RunningCallsAreBooked'
  BY <1>2 DEF IInv, RunningCallsAreBooked, Reserved, Grant
<1>6. ChecksHold'
  <2>1. \A r : Entitled(r) => Entitled(r)'
    BY DEF Entitled, Granted, Grant
  <2>2. \A q \in Procs : pc'[q] = "write_request" =>
                          loc'[q].offer.calls <= MaxCalls[loc'[q].offer.wave]
    BY <1>2 DEF IInv, ChecksHold
  <2>3. \A q \in Procs : pc'[q] = "write_grant" => Entitled(requests[loc'[q].request])
    BY <1>2 DEF IInv, ChecksHold
  <2> QED BY <2>1, <2>2, <2>3 DEF IInv, ChecksHold
<1> QED BY <1>3, <1>4, <1>5, <1>6 DEF IInv

LEMMA IdleMove ==
  ASSUME IInv, NEW p \in Procs, Return(p),
         UNCHANGED <<requests, grants, expired, usage>>
  PROVE  IInv'
<1>1. Nothing \in Memory("idle") /\ "idle" \in Labels
  BY DEF Memory, Labels
<1>2. Goto(p, "idle", Nothing)
  BY DEF Return
<1> QED BY <1>1, <1>2, QuietMove

LEMMA RequestStartStep ==
  ASSUME IInv, NEW p \in Procs, NEW o \in Offers, RequestStart(p, o)
  PROVE  IInv'
<1> DEFINE memory == [op |-> "request", offer |-> o, prev |-> Latest]
<1>1. Latest \in Waves \cup {0}
  BY LatestFacts DEF IInv
<1>2. memory \in Memory("write_request") /\ "write_request" \in Labels
  BY <1>1 DEF Memory, Labels
<1>3. memory.offer.calls <= MaxCalls[memory.offer.wave]
  BY BudgetAssumption DEF RequestStart, WithinCeilings
<1>4. Goto(p, "write_request", memory) /\ UNCHANGED <<requests, grants, expired, usage>>
  BY DEF RequestStart
<1> HIDE DEF memory
<1> QED BY <1>2, <1>3, <1>4, QuietMove

LEMMA ApproveStartStep ==
  ASSUME IInv, NEW p \in Procs, NEW i \in DOMAIN requests, ApproveStart(p, i)
  PROVE  IInv'
<1> DEFINE memory == [op |-> "approve", request |-> i]
<1>1. memory \in Memory("write_grant") /\ "write_grant" \in Labels
  BY DEF Memory, Labels
<1>2. Entitled(requests[memory.request])
  BY LatestFacts DEF IInv, ApproveStart, StillNext, KeepsCases, Entitled
<1>3. Goto(p, "write_grant", memory) /\ UNCHANGED <<requests, grants, expired, usage>>
  BY DEF ApproveStart
<1> HIDE DEF memory
<1> QED BY <1>1, <1>2, <1>3, QuietMove

LEMMA PrepareStep ==
  ASSUME IInv, NEW p \in Procs, NEW w \in Waves, NEW role \in Roles,
         NEW exec \in Execs, NEW case \in Cases \cup {NoCase}, NEW key \in Keys,
         Prepare(p, w, role, exec, case, key)
  PROVE  IInv'
<1>1. PICK n \in Claims(w, role, exec) :
        Goto(p, "reserve", [op |-> "call", grant |-> w, role |-> role,
                            exec |-> exec, case |-> case, number |-> n,
                            key |-> key])
  BY DEF Prepare
<1>2. n \in Nat
  <2> DEFINE S == {j \in DOMAIN usage : /\ usage[j].grant = w
                                        /\ usage[j].exec = exec
                                        /\ usage[j].role = role}
  <2>1. Cardinality(S) \in Nat
    <3>1. Len(usage) \in Nat /\ DOMAIN usage = 1 .. Len(usage)
      BY DEF IInv, TypeOK
    <3>2. IsFiniteSet(1 .. Len(usage)) /\ S \in SUBSET (1 .. Len(usage))
      BY <3>1, FS_Interval
    <3> HIDE DEF S
    <3> QED BY <3>2, FS_Subset, FS_CardinalityType
  <2>2. CASE role \in OperatorRoles
    <3>1. n = 1 + Cardinality(S)
      BY <2>2 DEF Claims
    <3> QED BY <3>1, <2>1
  <2>3. CASE role \notin OperatorRoles
    BY <2>3, BudgetAssumption DEF Claims
  <2> QED BY <2>2, <2>3
<1> DEFINE memory == [op |-> "call", grant |-> w, role |-> role, exec |-> exec,
                      case |-> case, number |-> n, key |-> key]
<1>3. memory \in Memory("reserve") /\ "reserve" \in Labels
  BY <1>2, BudgetAssumption DEF Memory, Labels
<1>4. UNCHANGED <<requests, grants, expired, usage>>
  BY DEF Prepare
<1>5. Goto(p, "reserve", memory)
  BY <1>1
<1> HIDE DEF memory
<1> QED BY <1>3, <1>4, <1>5, QuietMove

LEMMA ExpireStep ==
  ASSUME IInv, NEW w \in Waves, Expire(w)
  PROVE  IInv'
<1>1. UNCHANGED <<requests, grants, usage, pc, loc>> /\ expired' \subseteq Granted
  BY DEF Expire, IInv, TypeOK
<1>2. TypeOK'
  <2>1. \A l \in Labels : Memory(l)' = Memory(l)
    BY <1>1 DEF Memory, Labels
  <2> QED BY <1>1, <2>1 DEF IInv, TypeOK, Granted, Grant
<1>3. (WavesInOrder /\ CallsWithinBudget /\ NumberedInTurn /\ KeysAreSpent)'
  BY <1>1 DEF IInv, WavesInOrder, CallsWithinBudget, NumberedInTurn, KeysAreSpent,
         Granted, Grant, Prior, Same
<1>4. (RunningCallsAreBooked /\ ChecksHold)'
  BY <1>1 DEF IInv, RunningCallsAreBooked, Reserved, Grant, ChecksHold, Entitled,
         Granted
<1> QED BY <1>2, <1>3, <1>4 DEF IInv

-----------------------------------------------------------------------------
(* Transactions.                                                           *)

LEMMA RequestWriteStep ==
  ASSUME IInv, NEW p \in Procs, NEW tied \in BOOLEAN, RequestWrite(p, tied)
  PROVE  IInv'
<1> DEFINE o == loc[p].offer
           r == [wave |-> o.wave, cases |-> o.cases, calls |-> o.calls,
                 conc |-> o.conc, tries |-> o.tries, revs |-> o.revs,
                 prev |-> loc[p].prev, tied |-> tied]
<1>1. /\ o \in Offers /\ loc[p].prev \in Waves \cup {0}
      /\ o.calls <= MaxCalls[o.wave]
  <2>1. loc[p] \in Memory("write_request")
    BY DEF IInv, TypeOK, RequestWrite
  <2> QED BY <2>1 DEF Memory, IInv, ChecksHold, RequestWrite
<1>2. r \in RequestRows
  BY <1>1, BudgetAssumption DEF RequestRows
<1>3. requests' = Append(requests, r)
  BY DEF RequestWrite
<1>4. /\ UNCHANGED <<grants, expired, usage>>
      /\ Goto(p, "idle", Nothing)
  BY DEF RequestWrite, Return
<1>5. r.calls <= MaxCalls[r.wave]
  BY <1>1
<1> HIDE DEF o, r
<1>6. /\ requests' \in Seq(RequestRows) /\ Len(requests) \in Nat
      /\ DOMAIN requests = 1 .. Len(requests)
      /\ DOMAIN requests' = 1 .. (Len(requests) + 1)
      /\ \A i \in DOMAIN requests : requests'[i] = requests[i]
      /\ requests'[Len(requests) + 1] = r
  BY <1>2, <1>3, AppendFacts DEF IInv, TypeOK
<1>7. Nothing \in Memory("idle")' /\ "idle" \in Labels
  BY DEF Memory, Labels
<1>8. /\ pc' \in [Procs -> Labels] /\ DOMAIN loc' = Procs
      /\ \A q \in Procs : (loc[q] \in Memory(pc[q]))'
      /\ pc'[p] = "idle" /\ loc'[p] = Nothing
      /\ \A q \in Procs : q # p => pc'[q] = pc[q] /\ loc'[q] = loc[q]
  BY <1>4, <1>6, <1>7, Moved DEF IInv
<1>9. Granted' = Granted /\ \A w \in Granted : Grant(w)' = Grant(w)
  BY <1>4, <1>6 DEF IInv, TypeOK, Granted, Grant
<1>10. TypeOK'
  BY <1>4, <1>6, <1>8, <1>9 DEF IInv, TypeOK
<1>11. (WavesInOrder /\ CallsWithinBudget /\ NumberedInTurn /\ KeysAreSpent)'
  <2>1. WavesInOrder'
    BY <1>9 DEF IInv, WavesInOrder
  <2>2. CallsWithinBudget'
    BY <1>4, <1>9 DEF IInv, CallsWithinBudget
  <2>3. \A i \in DOMAIN usage : usage[i].grant \in Granted
    BY DEF IInv, CallsWithinBudget
  <2>4. NumberedInTurn'
    BY <1>4, <1>9, <2>3 DEF IInv, NumberedInTurn, Prior, Same
  <2>5. KeysAreSpent'
    BY <1>4 DEF IInv, KeysAreSpent
  <2> QED BY <2>1, <2>2, <2>4, <2>5
<1>12. RunningCallsAreBooked'
  <2>1. usage # << >> => Grant(usage[Len(usage)].grant)' = Grant(usage[Len(usage)].grant)
    <3> SUFFICES ASSUME usage # << >>
                 PROVE  Grant(usage[Len(usage)].grant)' = Grant(usage[Len(usage)].grant)
      OBVIOUS
    <3>1. Len(usage) \in DOMAIN usage
      BY DEF IInv, TypeOK
    <3>2. usage[Len(usage)].grant \in Granted
      BY <3>1 DEF IInv, CallsWithinBudget
    <3> QED BY <3>2, <1>4, <1>6 DEF Grant, Granted, IInv, TypeOK
  <2> QED BY <1>4, <1>8, <2>1 DEF IInv, RunningCallsAreBooked, Reserved
<1>13. ChecksHold'
  <2>1. \A i \in DOMAIN requests' : requests'[i].calls <= MaxCalls[requests'[i].wave]
    BY <1>5, <1>6 DEF IInv, ChecksHold
  <2>2. ASSUME NEW q \in Procs, pc'[q] = "write_request"
        PROVE  loc'[q].offer.calls <= MaxCalls[loc'[q].offer.wave]
    BY <2>2, <1>8 DEF IInv, ChecksHold
  <2>3. ASSUME NEW q \in Procs, pc'[q] = "write_grant"
        PROVE  Entitled(requests[loc[q].request])'
    <3>1. q # p /\ pc[q] = "write_grant" /\ loc'[q] = loc[q]
      BY <2>3, <1>8
    <3>2. loc[q].request \in DOMAIN requests
      BY <3>1 DEF IInv, TypeOK, Memory
    <3>3. requests'[loc'[q].request] = requests[loc[q].request]
      BY <3>1, <3>2, <1>6
    <3>4. Entitled(requests[loc[q].request])
      BY <3>1 DEF IInv, ChecksHold
    <3> QED BY <3>3, <3>4, <1>9 DEF Entitled
  <2> QED BY <2>1, <2>2, <2>3 DEF ChecksHold
<1> QED BY <1>10, <1>11, <1>12, <1>13 DEF IInv

\* The wave of a grant is granted once and stays bound to the same request.
LEMMA GrantWriteStep ==
  ASSUME IInv, NEW p \in Procs, GrantWrite(p)
  PROVE  IInv'
<1> DEFINE i == loc[p].request
           w == requests[i].wave
<1>1. i \in DOMAIN requests
  BY DEF IInv, TypeOK, GrantWrite, Memory
<1>2. w \in Waves /\ i \in Nat \ {0} /\ Entitled(requests[i])
  <2>1. requests \in Seq(RequestRows) /\ DOMAIN requests = 1 .. Len(requests)
    BY DEF IInv, TypeOK
  <2>2. requests[i] \in RequestRows
    BY <1>1, <2>1
  <2>3. Entitled(requests[i])
    BY DEF IInv, ChecksHold, GrantWrite
  <2>4. requests[i].wave \in Waves
    BY <2>2 DEF RequestRows
  <2>5. i \in Nat \ {0}
    <3> HIDE DEF i
    <3> QED BY <1>1, <2>1
  <2> QED BY <2>3, <2>4, <2>5
<1>3. /\ UNCHANGED <<requests, expired, usage>>
      /\ Goto(p, "idle", Nothing)
      /\ grants' = IF grants[w] = 0 THEN [grants EXCEPT ![w] = i] ELSE grants
  BY DEF GrantWrite, Return
<1>4. Nothing \in Memory("idle")' /\ "idle" \in Labels
  BY DEF Memory, Labels
<1>5. /\ pc' \in [Procs -> Labels] /\ DOMAIN loc' = Procs
      /\ \A q \in Procs : (loc[q] \in Memory(pc[q]))'
      /\ pc'[p] = "idle" /\ loc'[p] = Nothing
      /\ \A q \in Procs : q # p => pc'[q] = pc[q] /\ loc'[q] = loc[q]
  BY <1>3, <1>4, Moved DEF IInv
<1>6. grants \in [Waves -> Nat]
  BY DEF IInv, TypeOK
<1> HIDE DEF i, w
<1>7. /\ Granted \subseteq Granted' /\ Granted' \subseteq Granted \cup {w}
      /\ \A x \in Granted : Grant(x)' = Grant(x)
      /\ \A x \in Granted' : x \notin Granted => x = w /\ Grant(x)' = requests[i]
      /\ grants' \in [Waves -> Nat]
  <2>1. CASE grants[w] = 0
    <3>1. /\ grants' \in [Waves -> Nat] /\ grants'[w] = i
          /\ \A x \in Waves \ {w} : grants'[x] = grants[x]
      BY <2>1, <1>2, <1>3, <1>6
    <3> QED BY <2>1, <3>1, <1>2, <1>3 DEF Granted, Grant
  <2>2. CASE grants[w] # 0
    BY <2>2, <1>2, <1>3, <1>6 DEF Granted, Grant
  <2> QED BY <2>1, <2>2
<1>8. TypeOK'
  <2>1. \A x \in Granted' : grants'[x] \in DOMAIN requests /\ Grant(x)'.wave = x
    <3>1. CASE grants[w] = 0
      <4>1. \A x \in Waves \ {w} : grants'[x] = grants[x]
        BY <3>1, <1>2, <1>3, <1>6
      <4>2. grants'[w] = i
        BY <3>1, <1>2, <1>3, <1>6
      <4> QED BY <4>1, <4>2, <1>1, <1>2, <1>3, <1>7 DEF IInv, TypeOK, Granted, Grant, w
    <3>2. CASE grants[w] # 0
      BY <3>2, <1>3 DEF IInv, TypeOK, Granted, Grant
    <3> QED BY <3>1, <3>2
  <2> QED BY <1>3, <1>5, <1>7, <2>1 DEF IInv, TypeOK
<1>9. WavesInOrder'
  <2> SUFFICES ASSUME NEW x \in Granted'
               PROVE  Entitled(Grant(x))' /\ Grant(x)'.wave = x
    BY DEF WavesInOrder, Entitled
  <2>1. CASE x \in Granted
    BY <2>1, <1>7 DEF IInv, TypeOK, WavesInOrder, Entitled
  <2>2. CASE x \notin Granted
    <3>1. x = w /\ Grant(x)' = requests[i]
      BY <2>2, <1>7
    <3> QED BY <3>1, <1>2, <1>7 DEF Entitled, w
  <2> QED BY <2>1, <2>2
<1>10. CallsWithinBudget' /\ NumberedInTurn' /\ KeysAreSpent'
  <2>1. \A j \in DOMAIN usage : usage[j].grant \in Granted
    BY DEF IInv, CallsWithinBudget
  <2>2. CallsWithinBudget'
    BY <1>3, <1>7, <2>1 DEF IInv, CallsWithinBudget
  <2>3. NumberedInTurn'
    BY <1>3, <1>7, <2>1 DEF IInv, NumberedInTurn, Prior, Same
  <2>4. KeysAreSpent'
    BY <1>3 DEF IInv, KeysAreSpent
  <2> QED BY <2>2, <2>3, <2>4
<1>11. RunningCallsAreBooked'
  <2>1. usage # << >> => Grant(usage[Len(usage)].grant)' = Grant(usage[Len(usage)].grant)
    <3> SUFFICES ASSUME usage # << >>
                 PROVE  Grant(usage[Len(usage)].grant)' = Grant(usage[Len(usage)].grant)
      OBVIOUS
    <3>1. Len(usage) \in DOMAIN usage
      BY DEF IInv, TypeOK
    <3>2. usage[Len(usage)].grant \in Granted
      BY <3>1 DEF IInv, CallsWithinBudget
    <3>3. grants'[usage[Len(usage)].grant] = grants[usage[Len(usage)].grant]
      BY <3>2, <1>2, <1>3, <1>6 DEF Granted
    <3> QED BY <3>3, <1>3 DEF Grant
  <2> QED BY <1>3, <1>5, <2>1 DEF IInv, RunningCallsAreBooked, Reserved
<1>12. ChecksHold'
  <2>1. ASSUME NEW q \in Procs, pc'[q] = "write_grant"
        PROVE  Entitled(requests[loc[q].request])'
    <3>1. q # p /\ pc[q] = "write_grant" /\ loc'[q] = loc[q]
      BY <2>1, <1>5
    <3>2. Entitled(requests[loc[q].request])
      BY <3>1 DEF IInv, ChecksHold
    <3> QED BY <3>1, <3>2, <1>3, <1>7 DEF Entitled
  <2> QED BY <2>1, <1>3, <1>5 DEF IInv, ChecksHold
<1> QED BY <1>8, <1>9, <1>10, <1>11, <1>12 DEF IInv

LEMMA GrantType ==
  ASSUME TypeOK, NEW w \in Granted
  PROVE  /\ Grant(w).calls \in Nat /\ Grant(w).conc \in Nat
         /\ Grant(w).tries \in Nat /\ Grant(w).revs \in Nat
<1>1. requests \in Seq(RequestRows) /\ grants[w] \in DOMAIN requests
  BY DEF TypeOK
<1>2. requests[grants[w]] \in RequestRows
  BY <1>1
<1> QED BY <1>2 DEF Grant, RequestRows

\* The reservation: the row is appended only while every limit holds.
LEMMA ReserveStep ==
  ASSUME IInv, NEW p \in Procs, Reserve(p)
  PROVE  IInv'
<1> DEFINE c == loc[p]
           row == [grant |-> c.grant, role |-> c.role, exec |-> c.exec,
                   case |-> c.case, number |-> c.number, key |-> c.key,
                   status |-> "RESERVED"]
<1>1. CASE Return(p) /\ UNCHANGED usage
  BY <1>1, IdleMove DEF Reserve
<1>2. CASE ~ (Return(p) /\ UNCHANGED usage)
  <2>1. /\ InForce(c.grant) /\ Room(c.grant) /\ NextInLine(c) /\ FreshKey(c.key)
        /\ usage' = Append(usage, row)
        /\ Goto(p, "calling", [op |-> "call", row |-> Len(usage) + 1])
        /\ UNCHANGED <<requests, grants, expired>> /\ pc[p] = "reserve"
    BY <1>2 DEF Reserve
  <2>2. /\ c.grant \in Waves /\ c.role \in CaseRoles \cup OperatorRoles
        /\ row \in UsageRows /\ row.status = "RESERVED" /\ row.key = c.key
        /\ row.grant = c.grant /\ row.number = c.number
        /\ row.role = c.role /\ row.exec = c.exec /\ row.case = c.case
    <3>1. c \in Memory("reserve")
      BY <2>1 DEF IInv, TypeOK
    <3> QED BY <3>1 DEF Memory, UsageRows, Statuses
  <2> HIDE DEF row
  <2>3. /\ usage' \in Seq(UsageRows) /\ Len(usage) \in Nat
        /\ DOMAIN usage = 1 .. Len(usage)
        /\ DOMAIN usage' = 1 .. (Len(usage) + 1) /\ Len(usage') = Len(usage) + 1
        /\ \A j \in 1 .. Len(usage) : usage'[j] = usage[j]
        /\ usage'[Len(usage) + 1] = row
    BY <2>1, <2>2, AppendFacts DEF IInv, TypeOK
  <2>4. /\ c.grant \in Granted /\ c.grant = Latest
        /\ \A w \in Granted : w <= c.grant
    BY <2>1, <2>2, LatestFacts DEF InForce, IInv, Waves
  <2>5. Granted' = Granted /\ \A w : grants'[w] = grants[w]
    BY <2>1 DEF Granted
  <2>6. [op |-> "call", row |-> Len(usage) + 1] \in Memory("calling")'
    BY <2>3 DEF Memory
  <2> DEFINE memory == [op |-> "call", row |-> Len(usage) + 1]
  <2>7. /\ pc' \in [Procs -> Labels] /\ DOMAIN loc' = Procs
        /\ \A q \in Procs : (loc[q] \in Memory(pc[q]))'
        /\ pc'[p] = "calling" /\ loc'[p] = memory
        /\ \A q \in Procs : q # p => pc'[q] = pc[q] /\ loc'[q] = loc[q]
    <3>1. memory \in Memory("calling")' /\ "calling" \in Labels /\ Goto(p, "calling", memory)
      BY <2>1, <2>3 DEF Memory, Labels
    <3>2. DOMAIN requests \subseteq DOMAIN requests' /\ DOMAIN usage \subseteq DOMAIN usage'
      BY <2>1, <2>3
    <3>3. PICK l \in Labels, m \in {memory} : l = "calling"
      BY <3>1
    <3>4. m \in Memory(l)' /\ Goto(p, l, m)
      BY <2>1, <2>3, <3>3 DEF Memory
    <3>5. TypeOK
      BY DEF IInv
    <3> HIDE DEF memory
    <3>6. /\ pc' \in [Procs -> Labels] /\ DOMAIN loc' = Procs
          /\ \A q \in Procs : (loc[q] \in Memory(pc[q]))'
          /\ pc'[p] = l /\ loc'[p] = m
          /\ \A q \in Procs : q # p => pc'[q] = pc[q] /\ loc'[q] = loc[q]
      BY <3>2, <3>4, <3>5, Moved
    <3> QED BY <3>3, <3>6
  <2>8. TypeOK'
    BY <2>1, <2>3, <2>5, <2>7 DEF IInv, TypeOK, Grant
  <2>9. WavesInOrder'
    BY <2>1, <2>5 DEF IInv, WavesInOrder, Grant
  <2>10. CallsWithinBudget'
    <3> SUFFICES ASSUME NEW k \in DOMAIN usage'
                 PROVE  /\ usage'[k].grant \in Granted
                        /\ k <= Grant(usage'[k].grant).calls
                        /\ Grant(usage'[k].grant).calls <= MaxCalls[usage'[k].grant]
                        /\ \A j \in DOMAIN usage' : k < j => usage'[k].grant <= usage'[j].grant
      BY <2>1, <2>5 DEF CallsWithinBudget, Grant
    <3>1. CASE k \in 1 .. Len(usage)
      BY <3>1, <2>2, <2>3, <2>4 DEF IInv, CallsWithinBudget
    <3>2. CASE k = Len(usage) + 1
      <4>1. /\ usage'[k].grant = c.grant /\ k <= Grant(c.grant).calls
        <5>1. Grant(c.grant).calls \in Nat
          BY <2>4, GrantType DEF IInv
        <5> QED BY <5>1, <3>2, <2>1, <2>2, <2>3 DEF Room
      <4>2. Grant(c.grant).calls <= MaxCalls[c.grant]
        BY <2>4 DEF IInv, TypeOK, ChecksHold, Grant
      <4> QED BY <4>1, <4>2, <3>2, <2>3, <2>4
    <3> QED BY <3>1, <3>2, <2>3
  <2>11. KeysAreSpent'
    BY <2>1, <2>2, <2>3 DEF IInv, KeysAreSpent, FreshKey
  <2>12. NumberedInTurn'
    <3> SUFFICES ASSUME NEW k \in DOMAIN usage'
                 PROVE  LET e == usage'[k] IN
                        /\ Counted(e.role) => e.number = Cardinality(Prior(usage[k], k)') + 1
                        /\ e.role = "writer" => e.number <= Grant(e.grant).tries
                        /\ e.role \in OperatorRoles => e.number <= Grant(e.grant).revs
                        /\ e.role \in CaseRoles => e.case \in Grant(e.grant).cases
      BY <2>1, <2>5 DEF NumberedInTurn, Grant
    <3>1. CASE k \in 1 .. Len(usage)
      <4>1. usage'[k] = usage[k] /\ k \in Nat /\ k <= Len(usage) + 1
        BY <3>1, <2>3
      <4>2. Prior(usage[k], k)' = Prior(usage[k], k)
        BY <4>1, <3>1, <2>3 DEF Prior, Same
      <4> QED BY <4>1, <4>2, <3>1, <2>3 DEF IInv, NumberedInTurn
    <3>2. CASE k = Len(usage) + 1
      <4>1. usage'[k] = row
        BY <3>2, <2>3
      <4>2. Prior(usage[k], k)' = Prior(c, Len(usage) + 1)
        BY <4>1, <3>2, <2>2, <2>3 DEF Prior, Same
      <4>3. Cardinality(Prior(c, Len(usage) + 1)) \in Nat
        BY <2>3, RowsAreFinite DEF IInv
      <4>4. c.number \in Nat /\ Grant(c.grant).tries \in Nat
        <5>1. c \in Memory("reserve")
          BY <2>1 DEF IInv, TypeOK
        <5>2. Grant(c.grant).tries \in Nat
          BY <2>4, GrantType DEF IInv
        <5> QED BY <5>1, <5>2 DEF Memory
      <4> QED BY <4>1, <4>2, <4>3, <4>4, <2>1, <2>2
              DEF NextInLine, Counted, CaseRoles, OperatorRoles
    <3> QED BY <3>1, <3>2, <2>3
  <2>13. RunningCallsAreBooked'
    <3>1. \A q \in Procs : pc'[q] = "calling" =>
            /\ usage'[loc'[q].row].status = "RESERVED"
            /\ \A x \in Procs : pc'[x] = "calling" /\ loc'[x].row = loc'[q].row => x = q
      <4>1. loc'[p].row = Len(usage) + 1 /\ usage'[Len(usage) + 1].status = "RESERVED"
        BY <2>2, <2>3, <2>7
      <4>2. \A q \in Procs : pc[q] = "calling" => loc[q].row \in 1 .. Len(usage)
        BY <2>3 DEF IInv, TypeOK, Memory
      <4> QED BY <4>1, <4>2, <2>3, <2>7 DEF IInv, RunningCallsAreBooked
    <3>2. Cardinality(Reserved') <= Grant(c.grant).conc
      <4>1. Reserved' = Reserved \cup {Len(usage) + 1} /\ Len(usage) + 1 \notin Reserved
        BY <2>2, <2>3 DEF Reserved
      <4>2. Cardinality(Reserved') = Cardinality(Reserved) + 1
        BY <4>1, RowsAreFinite, FS_AddElement DEF IInv
      <4>3. Grant(c.grant).conc \in Nat
        BY <2>4, GrantType DEF IInv
      <4> QED BY <4>2, <4>3, <2>1, RowsAreFinite DEF Room, IInv
    <3>3. usage'[Len(usage')].grant = c.grant
      BY <2>2, <2>3
    <3> QED BY <3>1, <3>2, <3>3, <2>1 DEF RunningCallsAreBooked, Grant
  <2>14. ChecksHold'
    <3>1. ASSUME NEW q \in Procs, pc'[q] = "write_grant"
          PROVE  Entitled(requests[loc[q].request])'
      <4>1. pc[q] = "write_grant" /\ loc'[q] = loc[q]
        BY <3>1, <2>7
      <4>2. Entitled(requests[loc[q].request])
        BY <4>1 DEF IInv, ChecksHold
      <4> QED BY <4>1, <4>2, <2>1 DEF Entitled, Granted, Grant
    <3>2. ASSUME NEW q \in Procs, pc'[q] = "write_request"
          PROVE  loc'[q].offer.calls <= MaxCalls[loc'[q].offer.wave]
      BY <3>2, <2>7 DEF IInv, ChecksHold
    <3> QED BY <3>1, <3>2, <2>1 DEF IInv, ChecksHold
  <2> QED BY <2>8, <2>9, <2>10, <2>11, <2>12, <2>13, <2>14 DEF IInv
<1> QED BY <1>1, <1>2

\* The settlement only changes the status of a row that is reserved, so every
\* count of rows stays and the reserved rows become one fewer.
LEMMA SettleStep ==
  ASSUME IInv, NEW p \in Procs, NEW status \in {"COMPLETED", "INDETERMINATE"},
         Settle(p, status)
  PROVE  IInv'
<1> DEFINE k == loc[p].row
<1>1. k \in DOMAIN usage /\ usage[k].status = "RESERVED" /\ pc[p] = "calling"
  <2>1. k \in DOMAIN usage
    BY DEF IInv, TypeOK, Settle, Memory
  <2> QED BY <2>1 DEF IInv, RunningCallsAreBooked, Settle
<1>2. /\ usage' = [usage EXCEPT ![k] = [@ EXCEPT !.status = status]]
      /\ Goto(p, "idle", Nothing) /\ UNCHANGED <<requests, grants, expired>>
  BY <1>1 DEF Settle, Return
<1> HIDE DEF k
<1>3. /\ usage' \in Seq(UsageRows) /\ Len(usage') = Len(usage)
      /\ Len(usage) \in Nat /\ DOMAIN usage = 1 .. Len(usage)
      /\ DOMAIN usage' = DOMAIN usage
      /\ \A j \in DOMAIN usage : j # k => usage'[j] = usage[j]
      /\ usage'[k].status = status
      /\ \A j \in DOMAIN usage :
           /\ usage'[j].grant = usage[j].grant /\ usage'[j].role = usage[j].role
           /\ usage'[j].exec = usage[j].exec /\ usage'[j].case = usage[j].case
           /\ usage'[j].number = usage[j].number /\ usage'[j].key = usage[j].key
  <2>1. usage \in Seq(UsageRows) /\ DOMAIN usage = 1 .. Len(usage) /\ Len(usage) \in Nat
    BY DEF IInv, TypeOK
  <2>2. usage[k] \in UsageRows
    BY <2>1, <1>1
  <2> DEFINE row == [usage[k] EXCEPT !.status = status]
  <2>3. /\ row \in UsageRows /\ row.status = status
        /\ row.grant = usage[k].grant /\ row.role = usage[k].role
        /\ row.exec = usage[k].exec /\ row.case = usage[k].case
        /\ row.number = usage[k].number /\ row.key = usage[k].key
    BY <2>2 DEF UsageRows, Statuses
  <2>4. usage' = [usage EXCEPT ![k] = row]
    BY <1>2
  <2> HIDE DEF row
  <2> QED BY <2>1, <2>3, <2>4, <1>1
<1>4. Nothing \in Memory("idle")' /\ "idle" \in Labels
  BY DEF Memory, Labels
<1>5. /\ pc' \in [Procs -> Labels] /\ DOMAIN loc' = Procs
      /\ \A q \in Procs : (loc[q] \in Memory(pc[q]))'
      /\ pc'[p] = "idle" /\ loc'[p] = Nothing
      /\ \A q \in Procs : q # p => pc'[q] = pc[q] /\ loc'[q] = loc[q]
  BY <1>2, <1>3, <1>4, Moved DEF IInv
<1>6. TypeOK'
  BY <1>2, <1>3, <1>5 DEF IInv, TypeOK, Granted, Grant
<1>7. WavesInOrder' /\ KeysAreSpent'
  BY <1>2, <1>3 DEF IInv, WavesInOrder, KeysAreSpent, Granted, Grant
<1>8. CallsWithinBudget'
  BY <1>2, <1>3 DEF IInv, CallsWithinBudget, Granted, Grant
<1>9. NumberedInTurn'
  <2> SUFFICES ASSUME NEW j \in DOMAIN usage
               PROVE  LET e == usage'[j] IN
                      /\ Counted(e.role) => e.number = Cardinality(Prior(usage[j], j)') + 1
                      /\ e.role = "writer" => e.number <= Grant(e.grant).tries
                      /\ e.role \in OperatorRoles => e.number <= Grant(e.grant).revs
                      /\ e.role \in CaseRoles => e.case \in Grant(e.grant).cases
    BY <1>2, <1>3 DEF NumberedInTurn, Grant
  <2>1. Prior(usage[j], j)' = Prior(usage[j], j)
    BY <1>3 DEF Prior, Same
  <2> QED BY <2>1, <1>3 DEF IInv, NumberedInTurn
<1>10. RunningCallsAreBooked'
  <2>1. \A q \in Procs : pc'[q] = "calling" =>
          /\ usage'[loc'[q].row].status = "RESERVED"
          /\ \A x \in Procs : pc'[x] = "calling" /\ loc'[x].row = loc'[q].row => x = q
    <3>1. \A q \in Procs : q # p /\ pc[q] = "calling" => loc[q].row \in DOMAIN usage \ {k}
      BY <1>1 DEF IInv, TypeOK, Memory, RunningCallsAreBooked, k
    <3> QED BY <3>1, <1>3, <1>5 DEF IInv, RunningCallsAreBooked
  <2>2. Cardinality(Reserved') <= Cardinality(Reserved)
    <3>1. Reserved' \in SUBSET Reserved
      BY <1>1, <1>3 DEF Reserved
    <3> QED BY <3>1, RowsAreFinite, FS_Subset DEF IInv
  <2>3. Cardinality(Reserved') \in Nat
    BY <1>6, RowsAreFinite, FS_Subset, <1>1, <1>3, FS_CardinalityType DEF IInv, Reserved
  <2>4. usage # << >> /\ Len(usage) \in DOMAIN usage
    BY <1>1, <1>3
  <2>5. /\ usage'[Len(usage')].grant = usage[Len(usage)].grant
        /\ usage[Len(usage)].grant \in Granted
    BY <1>3, <2>4 DEF IInv, CallsWithinBudget
  <2>6. /\ Cardinality(Reserved) <= Grant(usage[Len(usage)].grant).conc
        /\ Grant(usage[Len(usage)].grant).conc \in Nat
    BY <2>4, <2>5, GrantType DEF IInv, RunningCallsAreBooked
  <2>7. Cardinality(Reserved) \in Nat
    BY RowsAreFinite DEF IInv
  <2>8. Cardinality(Reserved') <= Grant(usage[Len(usage)].grant).conc
    BY <2>2, <2>3, <2>6, <2>7
  <2> QED BY <2>1, <2>5, <2>8, <1>2 DEF RunningCallsAreBooked, Grant
<1>11. ChecksHold'
  <2>1. ASSUME NEW q \in Procs, pc'[q] = "write_grant"
        PROVE  Entitled(requests[loc[q].request])'
    <3>1. pc[q] = "write_grant" /\ loc'[q] = loc[q]
      BY <2>1, <1>5
    <3>2. Entitled(requests[loc[q].request])
      BY <3>1 DEF IInv, ChecksHold
    <3> QED BY <3>1, <3>2, <1>2 DEF Entitled, Granted, Grant
  <2>2. ASSUME NEW q \in Procs, pc'[q] = "write_request"
        PROVE  loc'[q].offer.calls <= MaxCalls[loc'[q].offer.wave]
    BY <2>2, <1>5 DEF IInv, ChecksHold
  <2>3. \A i \in DOMAIN requests' : requests'[i].calls <= MaxCalls[requests'[i].wave]
    BY <1>2 DEF IInv, ChecksHold
  <2> QED BY <2>1, <2>2, <2>3 DEF ChecksHold
<1> QED BY <1>6, <1>7, <1>8, <1>9, <1>10, <1>11 DEF IInv

-----------------------------------------------------------------------------
(* Theorems.                                                               *)

LEMMA NextIInv == IInv /\ [Next]_vars => IInv'
<1> SUFFICES ASSUME IInv, [Next]_vars PROVE IInv'
  OBVIOUS
<1>1. ASSUME NEW p \in Procs, Start(p) PROVE IInv'
  BY <1>1, RequestStartStep, ApproveStartStep, PrepareStep DEF Start
<1>2. ASSUME NEW p \in Procs, Step(p) PROVE IInv'
  BY <1>2, RequestWriteStep, GrantWriteStep, ReserveStep, SettleStep DEF Step
<1>3. ASSUME NEW p \in Procs, SettleFails(p) \/ Crash(p) PROVE IInv'
  BY <1>3, IdleMove DEF SettleFails, Crash
<1>4. ASSUME NEW w \in Waves, Expire(w) PROVE IInv'
  BY <1>4, ExpireStep
<1>5. CASE UNCHANGED vars
  <2>1. \A l \in Labels : Memory(l)' = Memory(l)
    BY <1>5 DEF Memory, Labels, vars
  <2>2. TypeOK'
    BY <1>5, <2>1 DEF IInv, TypeOK, Granted, Grant, vars
  <2>3. (WavesInOrder /\ CallsWithinBudget /\ NumberedInTurn /\ KeysAreSpent)'
    BY <1>5 DEF IInv, WavesInOrder, CallsWithinBudget, NumberedInTurn,
                KeysAreSpent, Granted, Grant, Prior, Same, vars
  <2>4. (RunningCallsAreBooked /\ ChecksHold)'
    BY <1>5 DEF IInv, RunningCallsAreBooked, Reserved, Grant, ChecksHold, Entitled,
                Granted, vars
  <2> QED BY <2>2, <2>3, <2>4 DEF IInv
<1> QED BY <1>1, <1>2, <1>3, <1>4, <1>5 DEF Next

\* The strengthened invariant holds in every reachable state: it is what the
\* transactions of store.py keep, whatever the commands between them find out.
THEOREM Invariance == Spec => []IInv
BY InitIInv, NextIInv, PTL DEF Spec

\* Every row has the type of its record.
THEOREM TypeCorrect == Spec => []TypeOK
<1>1. IInv => TypeOK
  BY DEF IInv
<1> QED BY <1>1, Invariance, PTL

\* approve_budget_grant: waves are granted in turn and keep their cases,
\* although it checks in one transaction and inserts in another.
THEOREM GrantsAreInTurn == Spec => []WavesInOrder
<1>1. IInv => WavesInOrder
  BY DEF IInv
<1> QED BY <1>1, Invariance, PTL

\* reserve_usage_entry: no number of concurrent, crashed or unsettled calls
\* exceeds the calls that a human granted.
THEOREM BudgetIsKept == Spec => []CallsWithinBudget
<1>1. IInv => CallsWithinBudget
  BY DEF IInv
<1> QED BY <1>1, Invariance, PTL

\* Every running call holds a reserved row of its own, and the reserved rows
\* stay within the concurrency of the grant.
THEOREM ConcurrencyIsKept == Spec => []RunningCallsAreBooked
<1>1. IInv => RunningCallsAreBooked
  BY DEF IInv
<1> QED BY <1>1, Invariance, PTL

\* Attempts and revisions are numbered without a gap, within their limits.
THEOREM NumbersAreInTurn == Spec => []NumberedInTurn
<1>1. IInv => NumberedInTurn
  BY DEF IInv
<1> QED BY <1>1, Invariance, PTL

\* No call key is used twice.
THEOREM NoKeyIsReplayed == Spec => []KeysAreSpent
<1>1. IInv => KeysAreSpent
  BY DEF IInv
<1> QED BY <1>1, Invariance, PTL

\* What LedgerIsAppendOnly says of a step.
LedgerStep ==
  /\ Len(usage') >= Len(usage)
  /\ \A i \in DOMAIN usage :
       usage[i].status # "RESERVED" => usage'[i] = usage[i]
  /\ \A i \in DOMAIN usage' \ DOMAIN usage :
       usage'[i].grant = Latest /\ usage'[i].grant \notin expired

LEMMA StepAppends == IInv /\ [Next]_vars => LedgerStep
<1> SUFFICES ASSUME IInv, [Next]_vars PROVE LedgerStep
  OBVIOUS
<1>1. usage \in Seq(UsageRows) /\ Len(usage) \in Nat /\ DOMAIN usage = 1 .. Len(usage)
  BY DEF IInv, TypeOK
<1>2. CASE UNCHANGED usage
  BY <1>1, <1>2 DEF LedgerStep
<1>3. ASSUME NEW p \in Procs, Reserve(p), usage' # usage PROVE LedgerStep
  <2> DEFINE c == loc[p]
             row == [grant |-> c.grant, role |-> c.role, exec |-> c.exec,
                     case |-> c.case, number |-> c.number, key |-> c.key,
                     status |-> "RESERVED"]
  <2>1. InForce(c.grant) /\ usage' = Append(usage, row) /\ pc[p] = "reserve"
    BY <1>3 DEF Reserve
  <2>2. c.grant = Latest /\ c.grant \notin expired
    BY <2>1 DEF InForce
  <2>3. row \in UsageRows /\ row.grant = c.grant
    <3>1. c \in Memory("reserve")
      BY <2>1 DEF IInv, TypeOK
    <3> QED BY <3>1 DEF Memory, UsageRows, Statuses
  <2> HIDE DEF row
  <2>4. /\ DOMAIN usage' = 1 .. (Len(usage) + 1) /\ Len(usage') = Len(usage) + 1
        /\ \A j \in 1 .. Len(usage) : usage'[j] = usage[j]
        /\ usage'[Len(usage) + 1] = row
    BY <1>1, <2>1, <2>3, AppendFacts
  <2> QED BY <1>1, <2>2, <2>3, <2>4 DEF LedgerStep
<1>4. ASSUME NEW p \in Procs, NEW status, Settle(p, status) PROVE LedgerStep
  <2>1. \/ UNCHANGED usage
        \/ /\ usage[loc[p].row].status = "RESERVED"
           /\ usage' = [usage EXCEPT ![loc[p].row] = [@ EXCEPT !.status = status]]
    BY <1>4 DEF Settle
  <2> QED BY <1>1, <1>2, <2>1 DEF LedgerStep
<1>5. ASSUME NEW p \in Procs, Start(p) PROVE UNCHANGED usage
  BY <1>5 DEF Start, RequestStart, ApproveStart, Prepare
<1>6. ASSUME NEW p \in Procs, RequestWrite(p, TRUE) \/ RequestWrite(p, FALSE)
      PROVE UNCHANGED usage
  BY <1>6 DEF RequestWrite
<1>7. ASSUME NEW p \in Procs, GrantWrite(p) \/ SettleFails(p) \/ Crash(p)
      PROVE UNCHANGED usage
  BY <1>7 DEF GrantWrite, SettleFails, Crash
<1>8. ASSUME NEW w \in Waves, Expire(w) PROVE UNCHANGED usage
  BY <1>8 DEF Expire
<1>9. ASSUME NEW p \in Procs, Step(p)
      PROVE \/ UNCHANGED usage
            \/ Reserve(p)
            \/ \E status \in {"COMPLETED", "INDETERMINATE"} : Settle(p, status)
  BY <1>6, <1>7, <1>9 DEF Step
<1>10. \/ UNCHANGED usage
       \/ \E p \in Procs : Reserve(p)
       \/ \E p \in Procs, status \in {"COMPLETED", "INDETERMINATE"} : Settle(p, status)
  <2>1. CASE UNCHANGED vars
    BY <2>1 DEF vars
  <2>2. CASE Next
    BY <1>5, <1>7, <1>8, <1>9, <2>2 DEF Next
  <2> QED BY <2>1, <2>2
<1> QED BY <1>2, <1>3, <1>4, <1>10

\* reserve_usage_entry and finalize_usage_entry are the only writers of the
\* ledger: rows are appended under the grant in force, and what is settled
\* stays settled.
THEOREM LedgerIsKept == Spec => LedgerIsAppendOnly
<1>1. IInv /\ [Next]_vars => [LedgerStep]_vars
  BY StepAppends
<1>2. LedgerIsAppendOnly <=> [][LedgerStep]_vars
  BY DEF LedgerIsAppendOnly, LedgerStep
<1> QED BY <1>1, <1>2, Invariance, PTL DEF Spec
=============================================================================
