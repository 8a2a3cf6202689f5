-------------------------- MODULE CodexBrokerProofs --------------------------
(***************************************************************************)
(* Proofs about CodexBroker, for every prescribed sequence of roles, every *)
(* backlog and any number of commands and calls.                           *)
(***************************************************************************)
EXTENDS CodexBroker, TLAPS

Calls == [role : Roles, fine : BOOLEAN, there : BOOLEAN]

\* What the constants stand for: a sequence of roles, and no call.
ConstantsFit == Required \in Seq(Roles) /\ NoCall \notin Calls

Types ==
  /\ plan \in Plans /\ exit \in {0, 1, 124, 126}
  /\ phase \in {"next", "refused", "running", "closing", "joining", "verdict"}
  /\ results \in Seq({0, 1, 124, 125, 126})
  /\ thread \in {"none", "idle", "reading", "busy", "dead", "ended"}
  /\ serving \in Calls \cup {NoCall} /\ queue \in Seq(Calls)
  /\ stop \in BOOLEAN /\ accepted \in Seq(Roles) /\ calls \in Nat

\* Only an admissible profile has a thread, and it has one for its command.
ThreadIsTheBrokers ==
  thread # "none" =>
    /\ plan.broker /\ plan.commands = 1 /\ plan.bubblewrap /\ ~ plan.inherited
    /\ phase = "next" => results # << >>
    /\ phase # "next" => results = << >>

\* A command that has left is not there for any answer, and when the verdict
\* comes the thread has ended or the backend is at its last call.
LeftAlone ==
  /\ thread \in {"reading", "busy"} <=> serving # NoCall
  /\ phase # "running" =>
       /\ serving # NoCall => ~ serving.there
       /\ \A i \in DOMAIN queue : ~ queue[i].there
  /\ phase \in {"joining", "verdict", "next"} /\ thread # "none" =>
       stop /\ queue = << >>
  /\ phase \in {"verdict", "next"} => thread \in {"none", "busy", "ended"}

IInv == /\ Types /\ ThreadIsTheBrokers /\ LeftAlone
        /\ PassedUsedTheWholeSequence /\ CallsAreInOrder

-----------------------------------------------------------------------------
(* Lemmas about sequences and about what is deserted.                      *)

\* The next prescribed role continues the beginning of the sequence.
LEMMA NextInSequence ==
  ASSUME NEW S, NEW s \in Seq(S), NEW t \in Seq(S), Len(t) < Len(s),
         t = SubSeq(s, 1, Len(t))
  PROVE  LET u == Append(t, s[Len(t) + 1])
         IN  u \in Seq(S) /\ Len(u) <= Len(s) /\ u = SubSeq(s, 1, Len(u))
<1> DEFINE n == Len(t)
           u == Append(t, s[n + 1])
<1>1. n \in Nat /\ Len(s) \in Nat /\ s[n + 1] \in S
  OBVIOUS
<1>2. u \in Seq(S) /\ Len(u) = n + 1
  BY <1>1
<1>3. \A i \in 1 .. n : t[i] = s[i]
  BY <1>1
<1>4. \A i \in 1 .. n + 1 : u[i] = s[i]
  BY <1>1, <1>3
<1>5. SubSeq(s, 1, n + 1) \in Seq(S) /\ Len(SubSeq(s, 1, n + 1)) = n + 1
      /\ \A i \in 1 .. n + 1 : SubSeq(s, 1, n + 1)[i] = s[i]
  BY <1>1
<1>6. u = SubSeq(s, 1, n + 1)
  BY <1>2, <1>4, <1>5
<1> QED BY <1>1, <1>2, <1>6

LEMMA DesertedCall ==
  ASSUME NEW c \in Calls \cup {NoCall}, ConstantsFit
  PROVE  /\ Deserted(c) \in Calls \cup {NoCall}
         /\ Deserted(c) # NoCall <=> c # NoCall
         /\ c # NoCall => ~ Deserted(c).there /\ Deserted(c) \in Calls
BY DEF Deserted, Calls, ConstantsFit

-----------------------------------------------------------------------------
LEMMA InitIInv == ConstantsFit /\ Init => IInv
<1> SUFFICES ASSUME ConstantsFit, Init PROVE IInv
  OBVIOUS
<1>0. results \in Seq({0, 1, 124, 125, 126}) /\ queue \in Seq(Calls)
      /\ accepted \in Seq(Roles)
  BY DEF Init
<1>1. Types
  BY <1>0 DEF Init, Types
<1>2. ThreadIsTheBrokers /\ LeftAlone
  BY DEF Init, ThreadIsTheBrokers, LeftAlone
<1>3. PassedUsedTheWholeSequence /\ CallsAreInOrder
  BY DEF Init, PassedUsedTheWholeSequence, CallsAreInOrder, ConstantsFit
<1> QED BY <1>1, <1>2, <1>3 DEF IInv

\* What does not touch the results or the calls let through.
LEMMA KeepsPromises ==
  ASSUME IInv, UNCHANGED <<plan, results, accepted>>
  PROVE  PassedUsedTheWholeSequence' /\ CallsAreInOrder'
BY DEF IInv, PassedUsedTheWholeSequence, CallsAreInOrder

LEMMA BeginsIInv ==
  ASSUME IInv, Refuse \/ Begin \/ OpenFails
  PROVE  IInv'
<1> USE DEF Refuse, Begin, OpenFails, talk
<1>1. PassedUsedTheWholeSequence' /\ CallsAreInOrder'
  BY KeepsPromises
<1>2. Types'
  BY DEF IInv, Types
<1>3. thread = "none"
  BY DEF IInv, Types, ThreadIsTheBrokers, Plans
<1>4. serving = NoCall
  BY <1>3 DEF IInv, LeftAlone
<1>5. ThreadIsTheBrokers'
  BY <1>3 DEF IInv, Types, ThreadIsTheBrokers, Refused, Plans
<1>6. LeftAlone'
  BY <1>3, <1>4 DEF IInv, LeftAlone, Types
<1> QED BY <1>1, <1>2, <1>5, <1>6 DEF IInv

LEMMA LeavesIInv ==
  ASSUME ConstantsFit, IInv, NEW code \in {0, 1, 124}, Leaves(code)
  PROVE  IInv'
<1> USE DEF Leaves
<1>1. PassedUsedTheWholeSequence' /\ CallsAreInOrder'
  BY KeepsPromises
<1>2. \A i \in DOMAIN queue : queue[i] \in Calls /\ queue[i] # NoCall
  BY DEF IInv, Types, ConstantsFit
<1>3. \A i \in DOMAIN queue : Deserted(queue[i]) \in Calls /\ ~ Deserted(queue[i]).there
  BY <1>2, DesertedCall
<1>4. queue' \in Seq(Calls) /\ \A i \in DOMAIN queue' : ~ queue'[i].there
  BY <1>3 DEF IInv, Types
<1>5. /\ serving' \in Calls \cup {NoCall}
      /\ serving' # NoCall <=> serving # NoCall
      /\ serving' # NoCall => ~ serving'.there
  BY DesertedCall DEF IInv, Types
<1>6. Types'
  BY <1>4, <1>5 DEF IInv, Types
<1>7. ThreadIsTheBrokers'
  BY DEF IInv, ThreadIsTheBrokers
<1>8. LeftAlone'
  BY <1>4, <1>5 DEF IInv, LeftAlone
<1> QED BY <1>1, <1>6, <1>7, <1>8 DEF IInv

LEMMA ClosesIInv ==
  ASSUME IInv, Close \/ Join \/ JoinExpires
  PROVE  IInv'
<1> USE DEF Close, Join, JoinExpires, talk
<1>1. PassedUsedTheWholeSequence' /\ CallsAreInOrder'
  BY KeepsPromises
<1>2. Types'
  <2>1. plan.broker \in BOOLEAN
    BY DEF IInv, Types, Plans
  <2>2. stop' = plan.broker \/ stop' = stop
    OBVIOUS
  <2>3. stop' \in BOOLEAN
    BY <2>1, <2>2, Zenon DEF IInv, Types
  <2>4. queue' = << >> \/ queue' = queue
    OBVIOUS
  <2>5. queue \in Seq(Calls) /\ << >> \in Seq(Calls)
    BY DEF IInv, Types
  <2>6. queue' \in Seq(Calls)
    BY ONLY <2>4, <2>5
  <2>7. phase' \in {"next", "refused", "running", "closing", "joining", "verdict"}
        /\ UNCHANGED <<plan, exit, results, thread, serving, accepted, calls>>
    OBVIOUS
  <2> QED BY ONLY IInv, <2>3, <2>6, <2>7 DEF IInv, Types
<1>3. ThreadIsTheBrokers'
  BY DEF IInv, ThreadIsTheBrokers
<1>4. LeftAlone'
  BY DEF IInv, LeftAlone, ThreadIsTheBrokers, Types, Plans
<1> QED BY <1>1, <1>2, <1>3, <1>4 DEF IInv

LEMMA VerdictIInv ==
  ASSUME IInv, Verdict
  PROVE  IInv'
<1> USE DEF Verdict, talk
<1>1. Final(exit) \in {0, 1, 124, 125, 126} /\ results \in Seq({0, 1, 124, 125, 126})
  BY DEF IInv, Types, Final
<1>2. /\ results' \in Seq({0, 1, 124, 125, 126}) /\ results' # << >>
      /\ \A i \in DOMAIN results' :
           (i \in DOMAIN results /\ results'[i] = results[i]) \/ results'[i] = Final(exit)
  BY <1>1
<1>3. Types'
  BY <1>2 DEF IInv, Types
<1>4. PassedUsedTheWholeSequence'
  BY <1>2 DEF IInv, PassedUsedTheWholeSequence, Final
<1>5. CallsAreInOrder'
  BY DEF IInv, CallsAreInOrder
<1>6. ThreadIsTheBrokers' /\ LeftAlone'
  BY <1>2 DEF IInv, ThreadIsTheBrokers, LeftAlone
<1> QED BY <1>3, <1>4, <1>5, <1>6 DEF IInv

LEMMA ConnectIInv ==
  ASSUME IInv, NEW role \in Roles, NEW fine \in BOOLEAN, Connect(role, fine)
  PROVE  IInv'
<1> USE DEF Connect
<1>1. PassedUsedTheWholeSequence' /\ CallsAreInOrder'
  BY KeepsPromises
<1>2. [role |-> role, fine |-> fine, there |-> TRUE] \in Calls
  BY DEF Calls
<1>3. Types'
  BY <1>2 DEF IInv, Types
<1>4. ThreadIsTheBrokers' /\ LeftAlone'
  BY DEF IInv, ThreadIsTheBrokers, LeftAlone
<1> QED BY <1>1, <1>3, <1>4 DEF IInv

LEMMA GiveUpIInv ==
  ASSUME ConstantsFit, IInv, GiveUp
  PROVE  IInv'
<1> USE DEF GiveUp
<1>1. PassedUsedTheWholeSequence' /\ CallsAreInOrder'
  BY KeepsPromises
<1>2. ASSUME NEW i \in DOMAIN queue PROVE Deserted(queue[i]) \in Calls
  BY DesertedCall DEF IInv, Types, ConstantsFit
<1>3. queue' \in Seq(Calls)
  BY <1>2 DEF IInv, Types
<1>4. /\ serving' \in Calls \cup {NoCall}
      /\ serving' # NoCall <=> serving # NoCall
  BY DesertedCall DEF IInv, Types
<1>5. Types'
  BY <1>3, <1>4 DEF IInv, Types
<1>6. ThreadIsTheBrokers' /\ LeftAlone'
  BY <1>4 DEF IInv, ThreadIsTheBrokers, LeftAlone
<1> QED BY <1>1, <1>5, <1>6 DEF IInv

LEMMA AcceptIInv ==
  ASSUME ConstantsFit, IInv, Accept
  PROVE  IInv'
<1> USE DEF Accept
<1>1. PassedUsedTheWholeSequence' /\ CallsAreInOrder'
  BY KeepsPromises
<1>2. /\ Head(queue) \in Calls /\ Head(queue) = queue[1] /\ 1 \in DOMAIN queue
      /\ Tail(queue) \in Seq(Calls)
      /\ \A i \in DOMAIN Tail(queue) : i + 1 \in DOMAIN queue
                                       /\ Tail(queue)[i] = queue[i + 1]
  BY DEF IInv, Types
<1>3. serving' # NoCall
  BY <1>2 DEF ConstantsFit
<1>4. Types'
  BY <1>2 DEF IInv, Types
<1>5. ThreadIsTheBrokers' /\ LeftAlone'
  BY <1>2, <1>3 DEF IInv, ThreadIsTheBrokers, LeftAlone
<1> QED BY <1>1, <1>4, <1>5 DEF IInv

\* An answer ends the thread or lets it wait; after the close it ends it.
LEMMA AnswersFit ==
  ASSUME IInv, Answers, thread \in {"reading", "busy"},
         UNCHANGED <<plan, phase, exit, results, queue, stop, calls>>,
         accepted' = accepted
  PROVE  IInv'
<1> USE DEF Answers
<1>1. PassedUsedTheWholeSequence' /\ CallsAreInOrder'
  BY KeepsPromises
<1>2. Types'
  BY DEF IInv, Types
<1>3. ThreadIsTheBrokers' /\ LeftAlone'
  BY DEF IInv, ThreadIsTheBrokers, LeftAlone
<1> QED BY <1>1, <1>2, <1>3 DEF IInv

LEMMA HandleIInv ==
  ASSUME ConstantsFit, IInv, Handle
  PROVE  IInv'
<1>1. CASE ~ InTurn(serving)
  BY <1>1, AnswersFit DEF Handle
<1>2. CASE InTurn(serving)
  <2> USE <1>2 DEF Handle
  <2>1. /\ thread = "reading" /\ thread' = "busy"
        /\ accepted' = Append(accepted, Required[Len(accepted) + 1])
        /\ Len(accepted) < Len(Required)
        /\ UNCHANGED <<plan, phase, exit, results, serving, queue, stop, calls>>
    BY DEF InTurn
  <2>2. accepted' \in Seq(Roles) /\ CallsAreInOrder'
    BY <2>1, NextInSequence DEF IInv, Types, CallsAreInOrder, ConstantsFit
  <2>3. Types'
    BY <2>1, <2>2 DEF IInv, Types
  <2>4. accepted # Required
    BY <2>1 DEF IInv, Types, ConstantsFit
  <2>5. PassedUsedTheWholeSequence'
    BY <2>1, <2>4 DEF IInv, PassedUsedTheWholeSequence
  <2>6. ThreadIsTheBrokers' /\ LeftAlone'
    BY <2>1 DEF IInv, ThreadIsTheBrokers, LeftAlone
  <2> QED BY <2>2, <2>3, <2>5, <2>6 DEF IInv
<1> QED BY <1>1, <1>2

LEMMA ThreadStopsIInv ==
  ASSUME IInv, ThreadStops
  PROVE  IInv'
<1> USE DEF ThreadStops
<1>1. PassedUsedTheWholeSequence' /\ CallsAreInOrder'
  BY KeepsPromises
<1>2. Types'
  BY DEF IInv, Types
<1>3. ThreadIsTheBrokers' /\ LeftAlone'
  BY DEF IInv, ThreadIsTheBrokers, LeftAlone
<1> QED BY <1>1, <1>2, <1>3 DEF IInv

LEMMA NextIInv ==
  ASSUME ConstantsFit, IInv, [Next]_cbvars
  PROVE  IInv'
<1>1. CASE Harness
  BY <1>1, BeginsIInv, ClosesIInv, VerdictIInv DEF Harness
<1>2. CASE Thread
  <2>1. CASE BackendReturns
    BY <2>1, AnswersFit DEF BackendReturns
  <2> QED BY <1>2, <2>1, AcceptIInv, HandleIInv, ThreadStopsIInv DEF Thread
<1>3. CASE Command
  BY <1>3, LeavesIInv, GiveUpIInv, ConnectIInv
     DEF Command, CommandExits, CommandTimesOut
<1>4. CASE UNCHANGED cbvars
  BY <1>4 DEF cbvars, IInv, Types, ThreadIsTheBrokers, LeftAlone,
              PassedUsedTheWholeSequence, CallsAreInOrder
<1> QED BY <1>1, <1>2, <1>3, <1>4 DEF Next

LEMMA Invariance == ConstantsFit => (Spec => []IInv)
<1> SUFFICES ASSUME ConstantsFit PROVE Spec => []IInv
  OBVIOUS
<1>1. Init => IInv
  BY InitIInv
<1>2. IInv /\ [Next]_cbvars => IInv'
  BY NextIInv
<1> QED BY <1>1, <1>2, PTL DEF Spec

LEMMA ThreadHasSandboxNext ==
  IInv' => (thread # "none" => plan.bubblewrap /\ ~ plan.inherited)'
BY DEF IInv, ThreadIsTheBrokers

\* A command started only where its profile may run.
LEMMA SandboxNext ==
  ASSUME ConstantsFit, IInv, SandboxIsThere, [Next]_cbvars
  PROVE  SandboxIsThere'
<1>1. (thread # "none" => plan.bubblewrap /\ ~ plan.inherited)'
  BY NextIInv, ThreadHasSandboxNext
<1>2. plan' = plan
  BY DEF Next, Harness, Thread, Command, Refuse, Begin, OpenFails, Close, Join,
         JoinExpires, Verdict, Accept, BackendReturns, ThreadStops, CommandExits,
         CommandTimesOut, Leaves, GiveUp, Connect, Handle, cbvars
<1>3. (phase' = phase /\ results' = results) \/ Begin \/ OpenFails \/ Refuse
      \/ phase \notin {"next", "refused"}
  BY DEF Next, Harness, Thread, Command, Close, Join, JoinExpires, Verdict, Accept,
         BackendReturns, ThreadStops, CommandExits, CommandTimesOut, Leaves, GiveUp,
         Connect, Handle, cbvars
<1>4. CASE phase' = phase /\ results' = results
  BY <1>1, <1>2, <1>4 DEF SandboxIsThere, Ran
<1>5. CASE Begin \/ OpenFails
  BY <1>1, <1>2, <1>5 DEF SandboxIsThere, Begin, OpenFails, Refused
<1>6. CASE Refuse
  BY <1>1, <1>2, <1>6 DEF SandboxIsThere, Refuse, Ran
<1>7. CASE phase \notin {"next", "refused"}
  BY <1>1, <1>2, <1>7 DEF SandboxIsThere, Ran
<1> QED BY <1>3, <1>4, <1>5, <1>6, <1>7

\* A command passes only with the whole prescribed sequence of calls, what was
\* let through is a beginning of it, and no command ran without the sandbox it
\* requires, for any sequence and however calls overlap, are abandoned or
\* outlive their command (_handle, completion_error, _run_command).
THEOREM BrokerStaysStrict == ConstantsFit => (Spec => []BrokerIsStrict)
<1> SUFFICES ASSUME ConstantsFit PROVE Spec => []BrokerIsStrict
  OBVIOUS
<1>1. Init => IInv /\ SandboxIsThere
  BY InitIInv DEF Init, SandboxIsThere, Ran
<1>2. IInv /\ SandboxIsThere /\ [Next]_cbvars => (IInv /\ SandboxIsThere)'
  BY NextIInv, SandboxNext
<1>3. IInv /\ SandboxIsThere => BrokerIsStrict
  BY DEF IInv, BrokerIsStrict
<1> QED BY <1>1, <1>2, <1>3, PTL DEF Spec

\* No call is let through after the verdict, although the thread may outlive
\* it: what it still does then is the backend of its last call (__exit__).
THEOREM VerdictIsLast == ConstantsFit => (Spec => NothingAfterTheVerdict)
<1>1. ASSUME IInv, [Next]_cbvars, phase = "next", results # << >>
      PROVE  accepted' = accepted
  <2>1. ~ Handle
    BY <1>1 DEF IInv, LeftAlone, Handle
  <2> QED BY <1>1, <2>1
          DEF Next, Harness, Thread, Command, Refuse, Begin, OpenFails, Close, Join,
              JoinExpires, Verdict, Accept, BackendReturns, ThreadStops, CommandExits,
              CommandTimesOut, Leaves, GiveUp, Connect, talk, cbvars
<1> QED BY <1>1, Invariance, PTL DEF Spec, NothingAfterTheVerdict

=============================================================================
