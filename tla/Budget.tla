------------------------------- MODULE Budget -------------------------------
(***************************************************************************)
(* The model-call budget of one study (operator/service.py budget methods, *)
(* operator/store.py reserve_usage_entry and finalize_usage_entry, and     *)
(* operator/metering.py).  A human grants waves 3, 8 and 16 in turn, each  *)
(* with its cases and limits; every model call reserves a usage row in one *)
(* transaction, runs outside of it, and settles the row afterwards.        *)
(*                                                                         *)
(* Requests and approvals read the store first and insert afterwards in a  *)
(* second transaction, so commands interleave between the two.  The sizes  *)
(* of the case selections (exactly `wave' cases) and the one model of the  *)
(* study are data this module does not tell apart.                         *)
(***************************************************************************)
EXTENDS Naturals, Sequences, FiniteSets

CONSTANTS Procs,        \* commands and metered calls running at the same time
          Offers,       \* the budget requests an operator may make
          Cases,        \* cases of the study's manifest
          Execs,        \* executions, and operator requests, that spend calls
          Roles,        \* roles that make calls, some of CaseRoles, OperatorRoles
          FrozenWave,   \* the wave an operator request was created under
          Keys,         \* call keys
          MaxCalls,     \* budgets.max_calls_by_wave
          MaxLimits,    \* budgets.max_case_concurrency, default_max_*: ceilings
          MaxRequests,  \* bound on the budget requests made
          Faults,       \* which of "crash", "store" may happen
          NoCase        \* the empty case of an operator role's call

Waves         == {3, 8, 16}
CaseRoles     == {"writer", "evaluator", "eval_judge"}
OperatorRoles == {"operator_supervisor", "operator_writer", "operator_verifier"}
Statuses      == {"RESERVED", "COMPLETED", "INDETERMINATE"}

ASSUME BudgetAssumption ==
  /\ Offers \subseteq [wave : Waves, cases : SUBSET Cases, calls : Nat,
                       conc : Nat, tries : Nat, revs : Nat]
  /\ Roles \subseteq CaseRoles \cup OperatorRoles
  /\ NoCase \notin Cases
  /\ FrozenWave \in [Execs -> Waves]
  /\ MaxCalls \in [Waves -> Nat]
  /\ MaxLimits \in [conc : Nat, tries : Nat, revs : Nat]
  /\ MaxRequests \in Nat

VARIABLES requests,     \* rows of budget_requests, oldest first
          grants,       \* wave -> position of the request it grants, 0 if none
          expired,      \* waves whose grant is past expires_at
          usage,        \* rows of usage_entries, oldest first
          pc, loc       \* where each command or call is, and what it remembers

vars == <<requests, grants, expired, usage, pc, loc>>

Nothing == [op |-> "none"]

Init ==
  /\ requests = << >> /\ usage = << >>
  /\ grants = [w \in Waves |-> 0] /\ expired = {}
  /\ pc = [p \in Procs |-> "idle"] /\ loc = [p \in Procs |-> Nothing]

Goto(p, label, memory) ==
  /\ pc' = [pc EXCEPT ![p] = label]
  /\ loc' = [loc EXCEPT ![p] = memory]

Return(p) == Goto(p, "idle", Nothing)

-----------------------------------------------------------------------------
(* Waves and grants.                                                       *)

Granted  == {w \in Waves : grants[w] # 0}
Grant(w) == requests[grants[w]]

\* grants[-1].wave of the grants in the order of their waves, 0 if none.
Latest == IF 16 \in Granted THEN 16 ELSE IF 8 \in Granted THEN 8
          ELSE IF 3 \in Granted THEN 3 ELSE 0

\* The wave after w, 0 if w is the last.
Following(w) == IF w = 0 THEN 3 ELSE IF w = 3 THEN 8 ELSE IF w = 8 THEN 16 ELSE 0

\* (mutated) the cases granted before are not looked at
KeepsCases_Any(cases) == TRUE

\* An expanded budget retains every case that was granted.
KeepsCases(cases) == Latest # 0 => Grant(Latest).cases \subseteq cases

WithinCeilings(o) ==
  /\ o.calls \in 1 .. MaxCalls[o.wave]
  /\ o.conc \in 1 .. MaxLimits.conc
  /\ o.tries \in 1 .. MaxLimits.tries
  /\ o.revs \in 1 .. MaxLimits.revs

\* create_budget_request up to its insert.
RequestStart(p, o) ==
  /\ pc[p] = "idle"
  /\ o.wave = Following(Latest)
  /\ KeepsCases(o.cases)
  /\ WithinCeilings(o)
  /\ Goto(p, "write_request", [op |-> "request", offer |-> o, prev |-> Latest])
  /\ UNCHANGED <<requests, grants, expired, usage>>

\* `tied': the row bears the same second as the one before it.
RequestWrite(p, tied) ==
  /\ pc[p] = "write_request"
  /\ tied => requests # << >>
  /\ Len(requests) < MaxRequests
  /\ requests' = Append(requests,
       [wave |-> loc[p].offer.wave, cases |-> loc[p].offer.cases,
        calls |-> loc[p].offer.calls, conc |-> loc[p].offer.conc,
        tries |-> loc[p].offer.tries, revs |-> loc[p].offer.revs,
        prev |-> loc[p].prev, tied |-> tied])
  /\ Return(p)
  /\ UNCHANGED <<grants, expired, usage>>

\* requests[-1] of its wave; rows of one second come in an arbitrary order,
\* that of their random ids.
Newest(i) ==
  \A j \in DOMAIN requests :
    requests[j].wave = requests[i].wave /\ i < j
      => \A k \in i + 1 .. j : requests[k].tied

\* The request is for the next wave and was made after the latest grant.
StillNext(i) ==
  /\ requests[i].wave = Following(Latest)
  /\ requests[i].prev = Latest
  /\ KeepsCases(requests[i].cases)

\* approve_budget_grant up to its insert.
ApproveStart(p, i) ==
  /\ pc[p] = "idle"
  /\ Newest(i) /\ StillNext(i)
  /\ Goto(p, "write_grant", [op |-> "approve", request |-> i])
  /\ UNCHANGED <<requests, grants, expired, usage>>

\* (mutated) budget_grants is not UNIQUE(study_id, wave)
GrantWrite_Replaces(p) ==
  /\ pc[p] = "write_grant"
  /\ grants' = [grants EXCEPT ![requests[loc[p].request].wave] = loc[p].request]
  /\ Return(p)
  /\ UNCHANGED <<requests, expired, usage>>

\* The row of a wave is written once; a second approval of it raises.
GrantWrite(p) ==
  /\ pc[p] = "write_grant"
  /\ LET w == requests[loc[p].request].wave
     IN  grants' = IF grants[w] = 0 THEN [grants EXCEPT ![w] = loc[p].request]
                   ELSE grants
  /\ Return(p)
  /\ UNCHANGED <<requests, expired, usage>>

Expire(w) ==
  /\ w \in Granted \ expired
  /\ expired' = expired \cup {w}
  /\ UNCHANGED <<requests, grants, usage, pc, loc>>

-----------------------------------------------------------------------------
(* Calls.                                                                  *)

Same(e, f) == e.role = f.role /\ e.exec = f.exec /\ e.case = f.case

\* Rows before position n that share role, execution and case with e.
Prior(e, n) == {j \in 1 .. n - 1 : Same(usage[j], e)}

Counted(role) == role \in {"writer"} \cup OperatorRoles

\* The number a call claims: _next_operator_role_revision reads the rows of
\* the frozen grant before the reservation; a case call brings its attempt.
Claims(w, role, exec) ==
  IF role \in OperatorRoles
  THEN {1 + Cardinality({j \in DOMAIN usage : /\ usage[j].grant = w
                                              /\ usage[j].exec = exec
                                              /\ usage[j].role = role})}
  ELSE 0 .. MaxLimits.tries + 1

\* A call is set up under a grant that exists; an operator request spends
\* only the grant it was created under.
Prepare(p, w, role, exec, case, key) ==
  /\ pc[p] = "idle"
  /\ w \in Granted
  /\ role \in OperatorRoles <=> case = NoCase
  /\ role \in OperatorRoles => w = FrozenWave[exec]
  /\ \E n \in Claims(w, role, exec) :
       Goto(p, "reserve", [op |-> "call", grant |-> w, role |-> role,
                           exec |-> exec, case |-> case, number |-> n,
                           key |-> key])
  /\ UNCHANGED <<requests, grants, expired, usage>>

Reserved == {i \in DOMAIN usage : usage[i].status = "RESERVED"}

\* (mutated) an older grant of the study may still be spent
InForce_AnyGrant(w) == w \in Granted \ expired

\* Not expired and not superseded by a later wave.
InForce(w) == w \notin expired /\ w = Latest

\* (mutated) the total of the study may reach one more than the grant
Room_OffByOne(w) ==
  /\ Len(usage) <= Grant(w).calls
  /\ Cardinality(Reserved) < Grant(w).conc

Room(w) ==
  /\ Len(usage) < Grant(w).calls
  /\ Cardinality(Reserved) < Grant(w).conc

\* The role's own rules: the case is granted, and writers and operator roles
\* claim the number after the rows they already have.
NextInLine(c) ==
  LET prior == Cardinality(Prior(c, Len(usage) + 1)) IN
  /\ c.role \in CaseRoles => c.case \in Grant(c.grant).cases /\ c.number >= 1
  /\ c.role = "writer" => prior < Grant(c.grant).tries
  /\ c.role \in OperatorRoles => c.number \in 1 .. Grant(c.grant).revs
  /\ Counted(c.role) => c.number = prior + 1

FreshKey(k) == \A j \in DOMAIN usage : usage[j].key # k

\* reserve_usage_entry: one immediate transaction, all or nothing.
Reserve(p) ==
  /\ pc[p] = "reserve"
  /\ LET c == loc[p]
     IN  IF InForce(c.grant) /\ Room(c.grant) /\ NextInLine(c) /\ FreshKey(c.key)
         THEN /\ usage' = Append(usage,
                   [grant |-> c.grant, role |-> c.role, exec |-> c.exec,
                    case |-> c.case, number |-> c.number, key |-> c.key,
                    status |-> "RESERVED"])
              /\ Goto(p, "calling", [op |-> "call", row |-> Len(usage) + 1])
         ELSE Return(p) /\ UNCHANGED usage
  /\ UNCHANGED <<requests, grants, expired>>

\* finalize_usage_entry after the call returned or raised.  The row must
\* still be reserved, or the transaction raises.
Settle(p, status) ==
  /\ pc[p] = "calling"
  /\ usage' = IF usage[loc[p].row].status = "RESERVED"
              THEN [usage EXCEPT ![loc[p].row].status = status] ELSE usage
  /\ Return(p)
  /\ UNCHANGED <<requests, grants, expired>>

\* The finalization itself raises: the row stays reserved.
SettleFails(p) ==
  /\ "store" \in Faults /\ pc[p] = "calling"
  /\ Return(p)
  /\ UNCHANGED <<requests, grants, expired, usage>>

\* The process of a command or call dies; no other command settles its row.
Crash(p) ==
  /\ "crash" \in Faults /\ pc[p] # "idle"
  /\ Return(p)
  /\ UNCHANGED <<requests, grants, expired, usage>>

Start(p) ==
  \/ \E o \in Offers : RequestStart(p, o)
  \/ \E i \in DOMAIN requests : ApproveStart(p, i)
  \/ \E w \in Waves, role \in Roles, exec \in Execs,
        case \in Cases \cup {NoCase}, key \in Keys :
       Prepare(p, w, role, exec, case, key)

Step(p) ==
  \/ \E tied \in BOOLEAN : RequestWrite(p, tied)
  \/ GrantWrite(p)
  \/ Reserve(p)
  \/ \E status \in {"COMPLETED", "INDETERMINATE"} : Settle(p, status)

Next ==
  \/ \E p \in Procs : Start(p) \/ Step(p) \/ SettleFails(p) \/ Crash(p)
  \/ \E w \in Waves : Expire(w)

Spec == Init /\ [][Next]_vars

-----------------------------------------------------------------------------
(* Properties.                                                             *)

RequestRows == [wave : Waves, cases : SUBSET Cases, calls : Nat, conc : Nat,
                tries : Nat, revs : Nat, prev : Waves \cup {0}, tied : BOOLEAN]

UsageRows == [grant : Waves, role : CaseRoles \cup OperatorRoles, exec : Execs,
              case : Cases \cup {NoCase}, number : Nat, key : Keys,
              status : Statuses]

\* What a command remembers at each place.
Memory(label) ==
  CASE label = "idle" -> {Nothing}
    [] label = "write_request" ->
         [op : {"request"}, offer : Offers, prev : Waves \cup {0}]
    [] label = "write_grant" -> [op : {"approve"}, request : DOMAIN requests]
    [] label = "reserve" ->
         [op : {"call"}, grant : Waves, role : CaseRoles \cup OperatorRoles,
          exec : Execs, case : Cases \cup {NoCase}, number : Nat, key : Keys]
    [] label = "calling" -> [op : {"call"}, row : DOMAIN usage]

Labels == {"idle", "write_request", "write_grant", "reserve", "calling"}

\* Every row has the type of its record in operator/models.py, and grants
\* point at requests of their wave.
TypeOK ==
  /\ requests \in Seq(RequestRows)
  /\ grants \in [Waves -> Nat]
  /\ \A w \in Granted : grants[w] \in DOMAIN requests /\ Grant(w).wave = w
  /\ expired \subseteq Granted
  /\ usage \in Seq(UsageRows)
  /\ pc \in [Procs -> Labels]
  /\ DOMAIN loc = Procs
  /\ \A p \in Procs : loc[p] \in Memory(pc[p])

\* Waves are granted 3, 8, 16 in turn, each bound to the grant before it and
\* retaining its cases, although approvals check first and insert later.
WavesInOrder ==
  \A w \in Granted :
    /\ w = Following(Grant(w).prev)
    /\ Grant(w).prev # 0 =>
         /\ Grant(w).prev \in Granted
         /\ Grant(Grant(w).prev).cases \subseteq Grant(w).cases

\* The k-th call of a study is made under a grant for at least k calls,
\* counting failed and lost calls; and no earlier grant than the latest one
\* is overdrawn by a call of a later wave.
CallsWithinBudget ==
  \A i \in DOMAIN usage :
    /\ usage[i].grant \in Granted
    /\ i <= Grant(usage[i].grant).calls
    /\ Grant(usage[i].grant).calls <= MaxCalls[usage[i].grant]
    /\ \A j \in DOMAIN usage : i < j => usage[i].grant <= usage[j].grant

\* Every call that is running holds a reserved row of its own, so the rows
\* that count against the concurrency limit count all running calls.
RunningCallsAreBooked ==
  /\ \A p \in Procs : pc[p] = "calling" =>
       /\ usage[loc[p].row].status = "RESERVED"
       /\ \A q \in Procs : pc[q] = "calling" /\ loc[q].row = loc[p].row => q = p
  /\ usage # << >> =>
       Cardinality(Reserved) <= Grant(usage[Len(usage)].grant).conc

\* Writer attempts of an execution and case, and revisions of an operator
\* role, are numbered 1, 2, ... without a gap or a replay, within the limit
\* of the grant that paid for them; case calls stay inside the granted cases.
NumberedInTurn ==
  \A i \in DOMAIN usage :
    LET e == usage[i] IN
    /\ Counted(e.role) => e.number = Cardinality(Prior(e, i)) + 1
    /\ e.role = "writer" => e.number <= Grant(e.grant).tries
    /\ e.role \in OperatorRoles => e.number <= Grant(e.grant).revs
    /\ e.role \in CaseRoles => e.case \in Grant(e.grant).cases

\* A call key buys one call.
KeysAreSpent ==
  \A i, j \in DOMAIN usage : usage[i].key = usage[j].key => i = j

\* Rows are only appended, and only by a call under the grant in force; a
\* settled row never changes again.
LedgerIsAppendOnly ==
  [][ /\ Len(usage') >= Len(usage)
      /\ \A i \in DOMAIN usage :
           usage[i].status # "RESERVED" => usage'[i] = usage[i]
      /\ \A i \in DOMAIN usage' \ DOMAIN usage :
           usage'[i].grant = Latest /\ usage'[i].grant \notin expired ]_vars
-----------------------------------------------------------------------------
\* The inductive invariant of BudgetProofs.

\* r follows the grant it was made after, and keeps its cases.
Entitled(r) ==
  /\ r.wave = Following(r.prev)
  /\ r.prev # 0 => r.prev \in Granted /\ Grant(r.prev).cases \subseteq r.cases

\* What a command found out before its second transaction still holds there.
ChecksHold ==
  /\ \A i \in DOMAIN requests : requests[i].calls <= MaxCalls[requests[i].wave]
  /\ \A p \in Procs :
       /\ pc[p] = "write_request" =>
            loc[p].offer.calls <= MaxCalls[loc[p].offer.wave]
       /\ pc[p] = "write_grant" => Entitled(requests[loc[p].request])

IInv == /\ TypeOK /\ WavesInOrder /\ CallsWithinBudget /\ RunningCallsAreBooked
        /\ NumberedInTurn /\ KeysAreSpent /\ ChecksHold
=============================================================================
