---------------------------- MODULE AdmissionProofs ----------------------------
(***************************************************************************)
(* Proofs about Admission, for any files, owners, patches, people and      *)
(* regimes: that what is verified is covered by the scope in effect and    *)
(* approved as its risk asks, that what the pull request check admits is   *)
(* covered by approvals it verified itself, and that every decision rests  *)
(* on an approval given for it and not replaced since.                     *)
(***************************************************************************)
EXTENDS Admission, WellFoundedInduction, TLAPS

Promotions == [status : {"PREPARED", "PR_OPEN", "MERGED"}, patch : Patches \cup {None}]

\* The versions of the scope.
ScopeTypes ==
  /\ \E n \in Nat \ {0} : DOMAIN scopes = 1 .. n /\ (pending => n > 1)
  /\ \A v \in DOMAIN scopes : scopes[v] \in Scope
  /\ pending \in BOOLEAN

\* Random ids are as large as they are, but there is a bound to those in use.
IdsBounded == \E n \in Nat : \A a \in approvals : a.id \in - n .. n

RowTypes ==
  /\ approvals \subseteq Row0 /\ payloads \subseteq Row0
  /\ reviews \in [Humans -> Scope \cup {None}]
  /\ IdsBounded

WorldTypes ==
  /\ regime \in Regimes /\ clock \in Nat
  /\ law \in regime.laws /\ frozen \subseteq Files /\ base \subseteq Files

WorkTypes ==
  /\ patch \in Patches \cup {None} /\ written \in Patches \cup {None}
  /\ phase \in {"REQUESTED", "ACTIVE", "VERIFIED"}
  /\ promo = None \/ promo \in Promotions
  /\ verdict \in {"none", "admitted", "refused"}

Types == WorldTypes /\ ScopeTypes /\ RowTypes /\ WorkTypes

-----------------------------------------------------------------------------
(* The operators.                                                          *)

LEMMA LessIsOrdered == \A x, y \in Nat : x < y => <<x, y>> \in OpToRel(<, Nat)
BY DEF OpToRel

\* A non-empty set of integers with an upper bound has a largest member.
LEMMA LargestExists ==
  ASSUME NEW n \in Int, NEW S, S \subseteq Int, S # {}, \A i \in S : i <= n
  PROVE  Largest(S) \in S /\ \A j \in S : j <= Largest(S)
<1> DEFINE T == {k \in Nat : \E i \in S : k = n - i}
<1>1. T \subseteq Nat /\ T # {}
  <2>1. PICK i \in S : i \in Int /\ i <= n
    OBVIOUS
  <2>2. n - i \in T
    BY <2>1
  <2> QED BY <2>2
<1>2. PICK k \in T : \A y \in T : ~ (<<y, k>> \in OpToRel(<, Nat))
  <2> HIDE DEF T
  <2> QED BY <1>1, WFMin, NatLessThanWellFounded
<1>3. \A y \in T : ~ (y < k)
  BY <1>1, <1>2, LessIsOrdered
<1>4. PICK i \in S : k = n - i
  OBVIOUS
<1>5. ASSUME NEW j \in S PROVE j <= i
  <2>1. n - j \in T
    OBVIOUS
  <2>2. ~ (n - j < n - i) /\ i \in Int /\ j \in Int
    <3> HIDE DEF T
    <3> QED BY <1>3, <1>4, <2>1
  <2> QED BY <2>2
<1>6. \E m \in S : \A j \in S : j <= m
  BY <1>5
<1> QED BY <1>6 DEF Largest

LEMMA LargestOfVersions ==
  ASSUME NEW n \in Nat \ {0}
  PROVE  Largest(1 .. n) = n
<1>1. /\ 1 .. n \subseteq Int /\ n \in Int /\ n \in 1 .. n
      /\ \A i \in 1 .. n : i <= n
  OBVIOUS
<1> DEFINE S == 1 .. n
<1>2. Largest(S) \in S /\ \A j \in S : j <= Largest(S)
  <2> HIDE DEF S
  <2>1. S \subseteq Int /\ S # {} /\ n \in Int /\ \A i \in S : i <= n
    BY <1>1 DEF S
  <2> QED BY <2>1, LargestExists
<1> QED BY <1>1, <1>2

\* The version in effect is a version, the last or the one before it.
LEMMA VersionIs ==
  ASSUME ScopeTypes
  PROVE  /\ Newest \in Nat \ {0} /\ DOMAIN scopes = 1 .. Newest
         /\ pending => Newest > 1
         /\ Version \in DOMAIN scopes /\ Version \in Nat \ {0}
         /\ scopes[Version] \in Scope
<1>1. PICK n \in Nat \ {0} : DOMAIN scopes = 1 .. n /\ (pending => n > 1)
  BY DEF ScopeTypes
<1>2. Newest = n
  BY <1>1, LargestOfVersions DEF Newest
<1> QED BY <1>1, <1>2 DEF Version, ScopeTypes

\* The parts of a step outside of which a lemma need not look.
LEMMA RegimeTypes ==
  ASSUME WorldTypes
  PROVE  /\ regime.scope \in Scope /\ regime.growth \subseteq Scope
         /\ regime.laws \subseteq SUBSET Files /\ regime.patches \subseteq Patches
         /\ regime.lifetimes \subseteq Nat /\ regime.days \in Nat
         /\ regime.careless \in BOOLEAN /\ law \subseteq Files
BY AdmissionAssumption DEF WorldTypes, Regime

LEMMA GrownIsScope ==
  ASSUME NEW s \in Scope, NEW g \in Scope
  PROVE  Grown(s, g) \in Scope
<1>1. Graver(s.risk, g.risk) \in Low .. Constitutional
  BY DEF Graver, Scope, Low, Constitutional
<1> QED BY <1>1 DEF Grown, Scope

\* A row gets an integer for its id, and leaves the others as they are.
LEMMA RecordIs ==
  ASSUME RowTypes, WorldTypes, NEW a, Record(a)
  PROVE  \E id \in Int : approvals' = approvals \cup {[a EXCEPT !.id = id]}
<1> DEFINE peers == {b.id : b \in {b \in approvals : b.who = a.who /\ b.stage = a.stage /\ b.at = clock}}
<1>1. PICK id \in IF peers = {} THEN {0}
                  ELSE {Largest(peers) + 1, - Largest({- n : n \in peers}) - 1} :
             approvals' = approvals \cup {[a EXCEPT !.id = id]}
  BY DEF Record
<1>2. PICK n \in Nat : \A b \in approvals : b.id \in - n .. n
  BY DEF RowTypes, IdsBounded
<1>3. ASSUME peers # {} PROVE Largest(peers) \in Int /\ Largest({- k : k \in peers}) \in Int
  <2>1. peers \subseteq Int /\ \A i \in peers : - n <= i /\ i <= n
    BY <1>2
  <2> DEFINE negated == {- k : k \in peers}
  <2> HIDE DEF peers
  <2>2. negated \subseteq Int /\ negated # {} /\ \A i \in negated : i <= n
    <3>1. PICK j \in peers : TRUE
      BY <1>3
    <3>2. - j \in negated
      BY <3>1
    <3>3. \A i \in negated : i \in Int /\ i <= n
      BY <2>1
    <3> QED BY <3>2, <3>3
  <2> HIDE DEF negated
  <2>0. n \in Int
    OBVIOUS
  <2>3. Largest(peers) \in Int
    BY <1>3, <2>1, LargestExists
  <2>4. Largest(negated) \in Int
    BY <2>0, <2>2, LargestExists
  <2> QED BY <2>3, <2>4 DEF negated
<1>4. id \in Int
  <2> HIDE DEF peers
  <2> QED BY <1>1, <1>3
<1> QED BY <1>1, <1>4

-----------------------------------------------------------------------------
(* The rows.                                                               *)

Bounds == [patch : Patches \cup {None}, head : {"none", "base", "commit"}]

LEMMA RowIsRow ==
  ASSUME Types, NEW who \in Reviewers \cup Humans, NEW kind \in ApprovalKind,
         NEW stage \in {"scope", "merge"}, NEW decision \in {"approve", "reject"},
         NEW v \in DOMAIN scopes, NEW till \in Nat, NEW bound \in Bounds
  PROVE  Row(who, kind, stage, decision, v, till, bound) \in Row0
<1>1. scopes[v] \in Scope /\ clock \in Nat
  BY DEF Types, ScopeTypes, WorldTypes
<1>2. v \in Nat \ {0}
  BY VersionIs DEF Types
<1>3. scopes[v].layers \in SUBSET Layers
  BY <1>1 DEF Scope
<1> QED BY <1>1, <1>2, <1>3 DEF Row, Row0, Digest, Bounds

\* Recording a row adds one row to the table, with an id.
LEMMA RecordKeepsTypes ==
  ASSUME Types, NEW a \in Row0, Record(a)
  PROVE  /\ \E id \in Int : /\ approvals' = approvals \cup {[a EXCEPT !.id = id]}
                            /\ [a EXCEPT !.id = id] \in Row0
         /\ approvals' \subseteq Row0 /\ IdsBounded'
<1>1. PICK id \in Int : approvals' = approvals \cup {[a EXCEPT !.id = id]}
  BY RecordIs DEF Types
<1>2. [a EXCEPT !.id = id] \in Row0 /\ [a EXCEPT !.id = id].id = id
  BY DEF Row0
<1>3. IdsBounded'
  <2>1. PICK n \in Nat : \A b \in approvals : b.id \in - n .. n
    BY DEF Types, RowTypes, IdsBounded
  <2> DEFINE m == IF id < 0 THEN - id ELSE id
  <2>2. m \in Nat /\ id \in - m .. m
    OBVIOUS
  <2> HIDE DEF m
  <2>3. n + m \in Nat /\ id \in - (n + m) .. (n + m)
    BY <2>2
  <2>4. \A b \in approvals : b.id \in - (n + m) .. (n + m)
    BY <2>1, <2>2
  <2>5. \A b \in approvals' : b.id \in - (n + m) .. (n + m)
    BY <1>1, <1>2, <2>3, <2>4
  <2> QED BY <2>3, <2>5 DEF IdsBounded
<1> QED BY <1>1, <1>2, <1>3 DEF Types, RowTypes

LEMMA ReviewIsRow ==
  ASSUME Types, NEW r \in Reviewers, NEW d \in {"approve", "reject"},
         NEW v \in Targets, NEW t \in regime.lifetimes,
         NEW paths \in {{}, scopes[Version].paths}
  PROVE  [Row(r, "reviewer", "scope", d, v, t, Unbound) EXCEPT !.paths = paths] \in Row0
<1>1. Row(r, "reviewer", "scope", d, v, t, Unbound) \in Row0
  <2>1. t \in Nat /\ Unbound \in Bounds /\ "reviewer" \in ApprovalKind
    BY RegimeTypes DEF Types, Unbound, Bounds, ApprovalKind
  <2> QED BY <2>1, RowIsRow DEF Targets
<1>2. paths \in SUBSET Files
  BY VersionIs DEF Types, Scope
<1> QED BY <1>1, <1>2 DEF Row0

SnapshotBound(binding) ==
  [patch |-> IF binding = "patch" THEN Snapshot.patch ELSE None,
   head  |-> IF binding = "head" THEN Snapshot.head ELSE "none"]

LEMMA PayloadIsRow ==
  ASSUME Types, NEW h \in Humans, NEW stage \in {"scope", "merge"},
         NEW v \in Targets, NEW t \in regime.lifetimes, NEW binding
  PROVE  Row(h, "human_signed", stage, "approve", v, t, SnapshotBound(binding)) \in Row0
<1>1. t \in Nat /\ "human_signed" \in ApprovalKind /\ SnapshotBound(binding) \in Bounds
  BY RegimeTypes DEF Types, WorkTypes, SnapshotBound, Snapshot, Head, Bounds, ApprovalKind
<1> QED BY <1>1, RowIsRow DEF Targets

GitHubRow(h, stage) ==
  [Row(h, "github", stage, "approve", Version, regime.days + 1,
       [patch |-> None, head |-> "commit"]) EXCEPT !.id = 0]

LEMMA GitHubIsRow ==
  ASSUME Types, NEW h \in Humans, NEW stage \in {"scope", "merge"}
  PROVE  GitHubRow(h, stage) \in Row0
<1>1. /\ regime.days + 1 \in Nat /\ "github" \in ApprovalKind
      /\ [patch |-> None, head |-> "commit"] \in Bounds /\ Version \in DOMAIN scopes
  BY RegimeTypes, VersionIs DEF Types, Bounds, ApprovalKind
<1>2. Row(h, "github", stage, "approve", Version, regime.days + 1,
          [patch |-> None, head |-> "commit"]) \in Row0
  BY <1>1, RowIsRow
<1> QED BY <1>2 DEF GitHubRow, Row0

-----------------------------------------------------------------------------
(* Types.                                                                  *)

LEMMA InitTypes == Init => Types
<1> SUFFICES ASSUME Init PROVE Types
  OBVIOUS
<1>1. regime \in Regime
  BY AdmissionAssumption DEF Init
<1>2. WorldTypes
  BY <1>1 DEF Init, WorldTypes, Regime
<1>3. ScopeTypes
  <2>1. scopes = [v \in {1} |-> regime.scope] /\ pending = FALSE /\ regime.scope \in Scope
    BY <1>1 DEF Init, Regime
  <2>2. DOMAIN scopes = 1 .. 1 /\ \A v \in DOMAIN scopes : scopes[v] \in Scope
    BY <2>1
  <2>3. \E n \in Nat \ {0} : DOMAIN scopes = 1 .. n /\ (pending => n > 1)
    <3>1. 1 \in Nat \ {0}
      OBVIOUS
    <3> QED BY <2>1, <2>2, <3>1
  <2> QED BY <2>1, <2>2, <2>3 DEF ScopeTypes
<1>4. RowTypes
  BY DEF Init, RowTypes, IdsBounded
<1>5. WorkTypes
  BY DEF Init, WorkTypes
<1> QED BY <1>2, <1>3, <1>4, <1>5 DEF Types

LEMMA SameScopes == ASSUME ScopeTypes, UNCHANGED <<scopes, pending>> PROVE ScopeTypes'
BY DEF ScopeTypes

LEMMA SameRows == ASSUME RowTypes, UNCHANGED <<approvals, payloads, reviews>> PROVE RowTypes'
BY DEF RowTypes, IdsBounded

LEMMA SameWorld == ASSUME WorldTypes, UNCHANGED <<regime, clock, law, frozen, base>> PROVE WorldTypes'
BY DEF WorldTypes

LEMMA SameWork ==
  ASSUME WorkTypes, UNCHANGED <<patch, written, phase, promo, verdict>>
  PROVE  WorkTypes'
BY DEF WorkTypes

\* Approvals and payloads are added, reviews change.
LEMMA RecordingTypes ==
  ASSUME Types, Recording
  PROVE  Types'
<1>0. SUFFICES RowTypes'
  BY SameScopes, SameWorld, SameWork
     DEF Types, Recording, Review, WritePayload, ImportSigned, ImportGitHub, frozenIn,
         outside, work, authority
<1>1. ASSUME NEW r \in Reviewers, NEW d \in {"approve", "reject"}, NEW v \in Targets,
             NEW t \in regime.lifetimes, NEW paths \in {{}, scopes[Version].paths},
             Review(r, d, v, t, paths)
      PROVE  RowTypes'
  <2>1. Record([Row(r, "reviewer", "scope", d, v, t, Unbound) EXCEPT !.paths = paths])
        /\ UNCHANGED <<payloads, reviews>>
    BY <1>1 DEF Review, outside
  <2>2. approvals' \subseteq Row0 /\ IdsBounded'
    BY <2>1, ReviewIsRow, RecordKeepsTypes
  <2> QED BY <2>1, <2>2 DEF Types, RowTypes
<1>2. ASSUME NEW h \in Humans, NEW stage \in {"scope", "merge"}, NEW v \in Targets,
             NEW t \in regime.lifetimes, NEW binding, WritePayload(h, stage, v, binding, t)
      PROVE  RowTypes'
  <2>1. /\ payloads' = {Row(h, "human_signed", stage, "approve", v, t, SnapshotBound(binding))}
        /\ UNCHANGED <<approvals, reviews>>
    BY <1>2 DEF WritePayload, SnapshotBound, authority
  <2> QED BY <2>1, PayloadIsRow DEF Types, RowTypes, IdsBounded
<1>3. ASSUME NEW a \in payloads, ImportSigned(a) PROVE RowTypes'
  <2>1. Record([a EXCEPT !.at = clock]) /\ payloads' \subseteq payloads /\ reviews' = reviews
    BY <1>3 DEF ImportSigned
  <2>2. [a EXCEPT !.at = clock] \in Row0
    BY DEF Types, RowTypes, WorldTypes, Row0
  <2>3. approvals' \subseteq Row0 /\ IdsBounded'
    BY <2>1, <2>2, RecordKeepsTypes
  <2> QED BY <2>1, <2>3 DEF Types, RowTypes
<1>4. ASSUME NEW h \in Humans, NEW stage \in {"scope", "merge"}, ImportGitHub(h, stage)
      PROVE  RowTypes'
  <2>1. Record(GitHubRow(h, stage)) /\ UNCHANGED <<payloads, reviews>>
    BY <1>4 DEF ImportGitHub, GitHubRow, outside
  <2>2. approvals' \subseteq Row0 /\ IdsBounded'
    BY <2>1, GitHubIsRow, RecordKeepsTypes
  <2> QED BY <2>1, <2>2 DEF Types, RowTypes
<1> QED BY <1>1, <1>2, <1>3, <1>4 DEF Recording

\* The scope after a change.
LEMMA ScopeChangeIs ==
  ASSUME Types, NEW g \in regime.growth, ScopeChange(g)
  PROVE  /\ ~ pending /\ Version = Newest
         /\ DOMAIN scopes' = 1 .. Newest + 1
         /\ \A v \in DOMAIN scopes : scopes'[v] = scopes[v]
         /\ scopes'[Newest + 1] = Grown(scopes[Version], g)
         /\ scopes'[Newest + 1] \in Scope
         /\ pending' = ~ Authorised(scopes'[Newest + 1], Newest + 1)
         /\ phase' = IF pending' THEN phase ELSE Reopened
         /\ UNCHANGED <<frozenIn, approvals, outside, work, check, gate, promo, verdict>>
<1> DEFINE s == Grown(scopes[Version], g)
<1>1. /\ Newest \in Nat \ {0} /\ DOMAIN scopes = 1 .. Newest /\ scopes[Version] \in Scope
      /\ pending \in BOOLEAN
  BY VersionIs DEF Types, ScopeTypes
<1>2. /\ Version + 1 \notin DOMAIN scopes
      /\ scopes' = [v \in DOMAIN scopes \cup {Version + 1} |->
                      IF v = Version + 1 THEN s ELSE scopes[v]]
      /\ pending' = ~ Authorised(s, Version + 1)
      /\ phase' = IF pending' THEN phase ELSE Reopened
      /\ UNCHANGED <<frozenIn, approvals, outside, work, check, gate, promo, verdict>>
  BY DEF ScopeChange
<1>3. ~ pending /\ Version = Newest
  BY <1>1, <1>2 DEF Version
<1>4. s \in Scope
  BY <1>1, RegimeTypes, GrownIsScope DEF Types
<1>5. DOMAIN scopes \cup {Newest + 1} = 1 .. Newest + 1
  BY <1>1
<1> HIDE DEF s
<1>6. scopes'[Newest + 1] = s
  BY <1>2, <1>3
<1>7. \A v \in DOMAIN scopes : scopes'[v] = scopes[v]
  BY <1>2, <1>3
<1> QED BY <1>2, <1>3, <1>4, <1>5, <1>6, <1>7 DEF s

LEMMA ScopeChangeTypes ==
  ASSUME Types, NEW g \in regime.growth, ScopeChange(g)
  PROVE  Types'
<1>1. ScopeTypes'
  <2>1. PICK n : n = Newest + 1
    OBVIOUS
  <2>2. n \in Nat \ {0} /\ n > 1 /\ DOMAIN scopes = 1 .. n - 1
    BY <2>1, VersionIs DEF Types
  <2>3. /\ DOMAIN scopes' = 1 .. n /\ scopes'[n] \in Scope
        /\ \A v \in 1 .. n - 1 : scopes'[v] \in Scope
    BY <2>1, <2>2, ScopeChangeIs DEF Types, ScopeTypes
  <2>4. \A v \in 1 .. n : scopes'[v] \in Scope
    BY <2>2, <2>3
  <2>5. pending' \in BOOLEAN
    BY DEF ScopeChange
  <2> QED BY <2>2, <2>3, <2>4, <2>5 DEF ScopeTypes
<1>2. WorkTypes'
  BY DEF ScopeChange, work, Types, WorkTypes, Reopened
<1> QED BY <1>1, <1>2, SameRows, SameWorld DEF Types, ScopeChange, frozenIn, outside

LEMMA CommandTypes ==
  ASSUME Types, Commands
  PROVE  Types'
<1> USE DEF frozenIn, outside, authority, work
<1>1. ASSUME ActivateScope PROVE Types'
  <2>1. ScopeTypes'
    BY <1>1 DEF ActivateScope, Types, ScopeTypes
  <2>2. WorkTypes'
    BY <1>1 DEF ActivateScope, Types, WorkTypes, Reopened
  <2> QED BY <1>1, <2>1, <2>2, SameRows, SameWorld DEF Types, ActivateScope
<1>2. ASSUME NEW p \in regime.patches, Write(p) PROVE Types'
  <2>1. WorkTypes'
    BY <1>2, RegimeTypes DEF Write, Types, WorkTypes
  <2> QED BY <1>2, <2>1, SameScopes, SameRows, SameWorld DEF Types, Write
<1>3. ASSUME NEW passes \in BOOLEAN, VerifyEnds(passes) PROVE Types'
  <2>1. phase' \in {phase, "VERIFIED"}
    BY <1>3 DEF VerifyEnds
  <2>2. WorkTypes'
    BY <1>3, <2>1 DEF VerifyEnds, Types, WorkTypes
  <2> QED BY <1>3, <2>2, SameScopes, SameRows, SameWorld DEF Types, VerifyEnds
<1>4. CASE Start
  <2>1. WorkTypes'
    BY <1>4 DEF Start, Types, WorkTypes
  <2> QED BY <1>4, <2>1, SameScopes, SameRows, SameWorld DEF Types, Start
<1>5. CASE Prepare
  <2>1. WorkTypes'
    BY <1>5 DEF Prepare, Types, WorkTypes, Promotions
  <2> QED BY <1>5, <2>1, SameScopes, SameRows, SameWorld DEF Types, Prepare
<1>6. CASE OpenPR \/ ObserveMerge
  <2>1. promo # None /\ \E status \in {"PR_OPEN", "MERGED"} : promo' = [promo EXCEPT !.status = status]
    BY <1>6 DEF OpenPR, ObserveMerge
  <2>2. promo' \in Promotions
    BY <2>1 DEF Types, WorkTypes, Promotions
  <2>3. WorkTypes'
    BY <1>6, <2>2 DEF OpenPR, ObserveMerge, Types, WorkTypes
  <2> QED BY <1>6, <2>3, SameScopes, SameRows, SameWorld DEF Types, OpenPR, ObserveMerge
<1>7. CASE \E passes \in BOOLEAN : Admit(passes)
  <2>1. WorkTypes'
    BY <1>7 DEF Admit, Types, WorkTypes
  <2> QED BY <1>7, <2>1, SameScopes, SameRows, SameWorld DEF Types, Admit
<1>8. CASE VerifyBegins \/ \E manifest \in BOOLEAN : Commit(manifest)
  BY <1>8, SameScopes, SameRows, SameWorld, SameWork DEF Types, VerifyBegins, Commit
<1> QED BY <1>1, <1>2, <1>3, <1>4, <1>5, <1>6, <1>7, <1>8, ScopeChangeTypes DEF Commands

LEMMA ActingTypes ==
  ASSUME Types, World
  PROVE  Types'
<1> USE DEF frozenIn, outside, authority, work
<1>1. ASSUME NEW h \in Humans, GitHubReview(h) \/ Dismiss(h) PROVE Types'
  <2>1. Digest(Version) \in Scope
    BY VersionIs DEF Types, Digest
  <2>2. RowTypes'
    BY <1>1, <2>1 DEF GitHubReview, Dismiss, Types, RowTypes, IdsBounded
  <2> QED BY <1>1, <2>2, SameScopes, SameWork, SameWorld DEF Types, GitHubReview, Dismiss
<1>2. CASE Legislate \/ Tick
  <2>1. WorldTypes'
    BY <1>2 DEF Legislate, Tick, Types, WorldTypes
  <2> QED BY <1>2, <2>1, SameScopes, SameRows, SameWork DEF Types, Legislate, Tick
<1>3. ASSUME NEW p \in regime.patches, Edit(p) PROVE Types'
  <2>1. WorkTypes'
    BY <1>3, RegimeTypes DEF Edit, Types, WorkTypes
  <2> QED BY <1>3, <2>1, SameScopes, SameRows, SameWorld DEF Types, Edit
<1> QED BY <1>1, <1>2, <1>3 DEF World

LEMMA NextTypes == Types /\ [Next]_vars => Types'
<1> SUFFICES ASSUME Types, [Next]_vars PROVE Types'
  OBVIOUS
<1>1. CASE UNCHANGED vars
  BY <1>1, SameScopes, SameRows, SameWorld, SameWork
     DEF Types, vars, frozenIn, outside, authority, work
<1> QED BY <1>1, RecordingTypes, CommandTypes, ActingTypes DEF Next

LEMMA TypesAlways == Spec => []Types
BY InitTypes, NextTypes, PTL DEF Spec

\* The state is what the code stores: scopes numbered without a gap, rows that
\* name a scope, a version and an approver.
THEOREM TypesAreOK == Spec => []TypeOK
<1>1. Types => TypeOK
  <2> SUFFICES ASSUME Types PROVE TypeOK
    OBVIOUS
  <2>1. DOMAIN scopes = 1 .. Newest /\ (pending => Newest > 1)
    BY VersionIs DEF Types
  <2> QED BY <2>1, RegimeTypes DEF Types, TypeOK, ScopeTypes, RowTypes, WorldTypes, WorkTypes
<1> QED BY <1>1, TypesAlways, PTL

-----------------------------------------------------------------------------
(* What the inductive invariant adds to the types.                         *)

\* Only humans sign and review on GitHub.
Authors == \A a \in approvals \cup payloads : External(a) => a.who \in Humans

\* An approval that can be in the bundle: it names no commit of the candidate.
Early(a) == a.kind # "github" /\ a.head \in {"none", "base"}

\* Before the commit there is no pull request to review, and so no approval
\* that names it; after it the bundle stays what it was.
Bundled ==
  /\ commit = None => /\ \A a \in approvals \cup payloads : Early(a)
                      /\ \A h \in Humans : reviews[h] = None
                      /\ promo = None \/ promo.status = "PREPARED"
                      /\ verdict # "admitted"
  /\ commit # None => /\ commit.approvals \subseteq approvals
                      /\ \A a \in commit.approvals : Early(a)
                      /\ commit.scopes[commit.version] \in Scope

\* A decision was made under a version of the scope, and its risk approved.
WasApproved(c) ==
  LET risk == PatchRiskOf(c) IN
  /\ c.version \in DOMAIN scopes
  /\ risk > Low => \E a \in approvals :
       Stands(a, scopes[c.version], c.version, risk = Constitutional)

\* The check that runs is about the scope in effect.
UnderScope(c) ==
  /\ c.version = Version
  /\ \A f \in Touches[c.patch] : InScope(f, scopes[Version])

Judged ==
  /\ check # None => WasApproved(check) /\ UnderScope(check)
  /\ gate # None => WasApproved(gate)

IInv == Types /\ Authors /\ Bundled /\ Judged /\ VerifiedUnderScope /\ AdmittedIsCovered

-----------------------------------------------------------------------------
(* Approvals are added, and whom they are from.                            *)

\* A row by somebody who may give it, and early unless there is a commit.
Proper(b) == (External(b) => b.who \in Humans) /\ (commit = None => Early(b))

LEMMA ProperRows ==
  Authors /\ Bundled => \A b \in approvals \cup payloads : Proper(b)
BY DEF Authors, Bundled, Proper

LEMMA RowFields ==
  ASSUME NEW who, NEW kind, NEW stage, NEW decision, NEW v, NEW till, NEW bound, NEW id,
         NEW paths
  PROVE  LET a == Row(who, kind, stage, decision, v, till, bound) IN
         /\ a.who = who /\ a.kind = kind /\ a.head = bound.head
         /\ LET b == [a EXCEPT !.id = id] IN
            b.who = who /\ b.kind = kind /\ b.head = bound.head
         /\ LET b == [[a EXCEPT !.id = 0] EXCEPT !.id = id] IN
            b.who = who /\ b.kind = kind /\ b.head = bound.head
         /\ LET b == [[a EXCEPT !.paths = paths] EXCEPT !.id = id] IN
            b.who = who /\ b.kind = kind /\ b.head = bound.head
BY DEF Row

LEMMA RecordingRows ==
  ASSUME Types, Authors, Bundled, Recording
  PROVE  \A b \in approvals' \cup payloads' : Proper(b)
<1>0. SUFFICES ASSUME NEW b \in approvals' \cup payloads', b \notin approvals \cup payloads
               PROVE  Proper(b)
  BY ProperRows
<1>1. ASSUME NEW r \in Reviewers, NEW d \in {"approve", "reject"}, NEW v \in Targets,
             NEW t \in regime.lifetimes, NEW paths \in {{}, scopes[Version].paths},
             Review(r, d, v, t, paths)
      PROVE  Proper(b)
  <2> DEFINE row == Row(r, "reviewer", "scope", d, v, t, Unbound)
  <2>1. Record([row EXCEPT !.paths = paths]) /\ UNCHANGED payloads
    BY <1>1 DEF Review, outside
  <2>2. PICK id : b = [[row EXCEPT !.paths = paths] EXCEPT !.id = id]
    BY <1>0, <2>1, RecordIs DEF Types
  <2>3. b.kind = "reviewer" /\ b.head = "none"
    BY <2>2, RowFields DEF Unbound
  <2> QED BY <2>3 DEF Proper, External, Early
<1>2. ASSUME NEW h \in Humans, NEW stage \in {"scope", "merge"}, NEW v \in Targets,
             NEW t \in regime.lifetimes, NEW binding, WritePayload(h, stage, v, binding, t)
      PROVE  Proper(b)
  <2>1. /\ payloads' = {Row(h, "human_signed", stage, "approve", v, t, SnapshotBound(binding))}
        /\ UNCHANGED approvals
    BY <1>2 DEF WritePayload, SnapshotBound, authority
  <2>2. b = Row(h, "human_signed", stage, "approve", v, t, SnapshotBound(binding))
    BY <1>0, <2>1
  <2>3. b.kind = "human_signed" /\ b.who = h /\ b.head \in {"none", Head}
    BY <2>2, RowFields DEF SnapshotBound, Snapshot
  <2> QED BY <2>3 DEF Proper, External, Early, Head
<1>3. ASSUME NEW a \in payloads, ImportSigned(a) PROVE Proper(b)
  <2>1. Record([a EXCEPT !.at = clock]) /\ payloads' \subseteq payloads
    BY <1>3 DEF ImportSigned
  <2>2. PICK id : b = [[a EXCEPT !.at = clock] EXCEPT !.id = id]
    BY <1>0, <2>1, RecordIs DEF Types
  <2>3. a \in Row0
    BY DEF Types, RowTypes
  <2>4. b.kind = a.kind /\ b.who = a.who /\ b.head = a.head
    BY <2>2, <2>3 DEF Row0
  <2> QED BY <2>4, ProperRows DEF Proper, External, Early
<1>4. ASSUME NEW h \in Humans, NEW stage \in {"scope", "merge"}, ImportGitHub(h, stage)
      PROVE  Proper(b)
  <2> DEFINE row == Row(h, "github", stage, "approve", Version, regime.days + 1,
                        [patch |-> None, head |-> "commit"])
  <2>1. Record([row EXCEPT !.id = 0]) /\ UNCHANGED payloads /\ reviews[h] = Digest(Version)
    BY <1>4 DEF ImportGitHub, outside
  <2>2. PICK id : b = [[row EXCEPT !.id = 0] EXCEPT !.id = id]
    BY <1>0, <2>1, RecordIs DEF Types
  <2>3. b.who = h
    BY <2>2, RowFields
  <2>4. commit # None
    BY <2>1, VersionIs, AdmissionAssumption DEF Types, Digest, Bundled
  <2> QED BY <2>3, <2>4 DEF Proper
<1> QED BY <1>1, <1>2, <1>3, <1>4 DEF Recording

\* Approvals stay, a version keeps its scope, a commit is made once.
LEMMA StepKeeps ==
  ASSUME Types, [Next]_vars
  PROVE  /\ approvals \subseteq approvals'
         /\ \A v \in DOMAIN scopes : v \in DOMAIN scopes' /\ scopes'[v] = scopes[v]
         /\ commit # None => commit' = commit
         /\ base' = base
<1> USE DEF frozenIn, outside, authority, work
<1>1. CASE Recording
  <2>1. approvals \subseteq approvals'
    <3>1. ASSUME NEW a, Record(a) PROVE approvals \subseteq approvals'
      BY <3>1 DEF Record
    <3>2. UNCHANGED approvals \/ \E a : Record(a)
      BY <1>1 DEF Recording, Review, WritePayload, ImportSigned, ImportGitHub
    <3> QED BY <3>1, <3>2
  <2> QED BY <1>1, <2>1 DEF Recording, Review, WritePayload, ImportSigned, ImportGitHub
<1>2. ASSUME NEW g \in regime.growth, ScopeChange(g)
      PROVE  /\ approvals' = approvals /\ commit' = commit /\ base' = base
             /\ \A v \in DOMAIN scopes : v \in DOMAIN scopes' /\ scopes'[v] = scopes[v]
  <2>1. DOMAIN scopes \subseteq DOMAIN scopes'
    BY <1>2, ScopeChangeIs, VersionIs DEF Types
  <2> QED BY <1>2, <2>1, ScopeChangeIs
<1>3. CASE Commands
  BY <1>2, <1>3 DEF Commands, Start, ActivateScope, Write, Commit, VerifyBegins, VerifyEnds,
     Prepare, OpenPR, ObserveMerge, Admit
<1>4. CASE World
  BY <1>4 DEF World, GitHubReview, Dismiss, Legislate, Tick, Edit
<1>5. CASE UNCHANGED vars
  BY <1>5 DEF vars
<1> QED BY <1>1, <1>3, <1>4, <1>5 DEF Next

LEMMA NextAuthors ==
  ASSUME Types, Authors, Bundled, [Next]_vars
  PROVE  Authors'
<1> USE DEF frozenIn, outside, authority, work
<1>1. CASE Recording
  BY <1>1, RecordingRows DEF Authors, Proper, External
<1>2. CASE Commands \/ World \/ UNCHANGED vars
  <2>1. UNCHANGED <<approvals, payloads>>
    BY <1>2 DEF Commands, Start, ActivateScope, ScopeChange, Write, Commit, VerifyBegins,
       VerifyEnds, Prepare, OpenPR, ObserveMerge, Admit, World, GitHubReview, Dismiss,
       Legislate, Tick, Edit, vars
  <2> QED BY <2>1 DEF Authors, External
<1> QED BY <1>1, <1>2 DEF Next

LEMMA NextBundled ==
  ASSUME Types, Authors, Bundled, [Next]_vars
  PROVE  Bundled'
<1> USE DEF frozenIn, outside, authority, work
<1>1. CASE Recording
  <2>1. UNCHANGED <<commit, reviews, promo, verdict>> /\ approvals \subseteq approvals'
    BY <1>1, StepKeeps DEF Recording, Review, WritePayload, ImportSigned, ImportGitHub
  <2>2. commit = None => \A b \in approvals' \cup payloads' : Early(b)
    BY <1>1, RecordingRows DEF Proper
  <2> QED BY <2>1, <2>2 DEF Bundled, Early
<1>2. ASSUME NEW manifest \in BOOLEAN, Commit(manifest) PROVE Bundled'
  <2>1. /\ commit = None
        /\ commit' = [patch |-> patch, manifest |-> manifest, scopes |-> scopes,
                      version |-> Version, approvals |-> approvals]
        /\ UNCHANGED <<approvals, payloads, reviews, promo, verdict>>
    BY <1>2 DEF Commit
  <2>2. commit'.approvals = approvals /\ commit'.scopes[commit'.version] \in Scope
    BY <2>1, VersionIs DEF Types
  <2> QED BY <2>1, <2>2 DEF Bundled, Early
<1>3. CASE OpenPR
  <2>1. commit # None /\ UNCHANGED <<approvals, payloads, reviews, commit>>
    BY <1>3 DEF OpenPR, Clean
  <2> QED BY <2>1 DEF Bundled, Early
<1>4. CASE ObserveMerge \/ (\E passes \in BOOLEAN : Admit(passes)) \/ \E h \in Humans : GitHubReview(h)
  <2>1. promo # None /\ promo.status = "PR_OPEN" /\ UNCHANGED <<approvals, payloads, commit>>
    BY <1>4 DEF ObserveMerge, Admit, GitHubReview
  <2>2. commit # None
    BY <2>1 DEF Bundled
  <2> QED BY <2>1, <2>2 DEF Bundled, Early
<1>5. CASE Prepare
  <2>1. /\ promo' = promo \/ promo' = [status |-> "PREPARED", patch |-> patch]
        /\ UNCHANGED <<approvals, payloads, reviews, commit, verdict>>
    BY <1>5 DEF Prepare
  <2>2. (promo = None \/ promo.status = "PREPARED") =>
          promo' = None \/ promo'.status = "PREPARED"
    BY <2>1
  <2> QED BY <2>1, <2>2 DEF Bundled, Early
<1>6. ASSUME NEW h \in Humans, Dismiss(h) PROVE Bundled'
  <2>1. reviews' = [reviews EXCEPT ![h] = None] /\ UNCHANGED <<approvals, payloads, promo, commit, verdict>>
    BY <1>6 DEF Dismiss
  <2>2. (\A k \in Humans : reviews[k] = None) => \A k \in Humans : reviews'[k] = None
    BY <2>1 DEF Types, RowTypes
  <2> QED BY <2>1, <2>2 DEF Bundled, Early
<1>7. CASE \/ Start \/ ActivateScope \/ (\E g \in regime.growth : ScopeChange(g))
           \/ (\E p \in regime.patches : Write(p)) \/ VerifyBegins
           \/ (\E passes \in BOOLEAN : VerifyEnds(passes))
           \/ Legislate \/ Tick \/ (\E p \in regime.patches : Edit(p)) \/ UNCHANGED vars
  <2>1. UNCHANGED <<approvals, payloads, reviews, commit, promo, verdict>>
    BY <1>7 DEF Start, ActivateScope, ScopeChange, Write, VerifyBegins, VerifyEnds,
       Legislate, Tick, Edit, vars
  <2> QED BY <2>1 DEF Bundled, Early
<1> QED BY <1>1, <1>2, <1>3, <1>4, <1>5, <1>6, <1>7 DEF Next, Commands, World

-----------------------------------------------------------------------------
(* A decision rests on an approval.                                        *)

\* An approval that counts is in force and not replaced.
LEMMA ValidStands ==
  ASSUME Types, NEW A \in SUBSET approvals, NEW a \in Valid(A)
  PROVE  a \in A /\ a.decision = "approve" /\ ~ Superseded(a, A)
<1>1. a \in A /\ Approved(a)
      /\ \A b \in A : b.who = a.who /\ b.stage = a.stage =>
           b.at < a.at \/ (b.at = a.at /\ b.id <= a.id)
  BY DEF Valid, Effective
<1>2. \A b \in A : b.at \in Nat
  BY DEF Types, RowTypes, Row0
<1>3. \A b \in A : b.who = a.who /\ b.stage = a.stage => ~ (b.at > a.at)
  BY <1>1, <1>2
<1> QED BY <1>1, <1>3 DEF Approved, Superseded

\* Whoever matches a scope may give the approval.
LEMMA MatchStands ==
  ASSUME Types, Authors, NEW A \in SUBSET approvals, NEW a \in Valid(A), a.stage = "scope",
         NEW s, NEW v, NEW files, NEW human \in BOOLEAN, Matches(a, s, v, files, human)
  PROVE  Stands(a, s, v, human) /\ ~ Superseded(a, A) /\ a \in A
<1>1. a \in A /\ a.decision = "approve" /\ ~ Superseded(a, A)
  BY ValidStands
<1>2. a.who # Creator
  <2>1. a \in Row0
    BY <1>1 DEF Types, RowTypes
  <2>2. a.kind = "reviewer" \/ External(a)
    BY <2>1 DEF Row0, ApprovalKind, External
  <2> QED BY <1>1, <2>2, AdmissionAssumption DEF Matches, Authors
<1> QED BY <1>1, <1>2 DEF Matches, Stands

LEMMA AuthorisedStands ==
  ASSUME Types, Authors, NEW s, NEW v, Authorised(s, v), ScopeRisk(s) > Low
  PROVE  \E a \in approvals : Stands(a, s, v, ScopeRisk(s) = Constitutional)
                              /\ ~ Superseded(a, approvals)
<1>1. PICK a \in Valid(approvals) :
        a.stage = "scope" /\ Matches(a, s, v, s.paths, ScopeRisk(s) = Constitutional)
  BY DEF Authorised
<1> QED BY <1>1, MatchStands

LEMMA AcceptedStands ==
  ASSUME Types, Authors, NEW A \in SUBSET approvals, NEW p, NEW head, NEW s, NEW v,
         NEW protected, NEW merge, Accepts(p, head, s, v, protected, A, merge),
         RiskOf(p, s, protected) > Low
  PROVE  \E a \in A : /\ Stands(a, s, v, RiskOf(p, s, protected) = Constitutional)
                      /\ ~ Superseded(a, A)
<1>1. PICK a \in Valid(A) :
        /\ a.stage = "scope"
        /\ Matches(a, s, v, Touches[p], RiskOf(p, s, protected) = Constitutional)
  BY DEF Accepts, PatchRisk, RiskOf
<1> QED BY <1>1, MatchStands

\* A scope that names a file's owner among its layers and the file itself.
LEMMA AcceptedInScope ==
  ASSUME NEW A, NEW p, NEW head, NEW s, NEW v, NEW protected, NEW merge,
         Accepts(p, head, s, v, protected, A, merge)
  PROVE  \A f \in Touches[p] : InScope(f, s)
BY DEF Accepts

\* Protected files make the risk constitutional.
LEMMA ProtectedIsGravest ==
  ASSUME NEW s \in Scope, NEW p, NEW protected, Touches[p] \cap protected # {}
  PROVE  RiskOf(p, s, protected) = Constitutional
<1>1. ComputedRisk(Touches[p], protected) = 3
  BY DEF ComputedRisk, Constitutional
<1>2. s.risk \in 0 .. 3
  BY DEF Scope, Low, Constitutional
<1> QED BY <1>1, <1>2 DEF RiskOf, Graver, Constitutional

LEMMA AcceptedMerge ==
  ASSUME Types, NEW A \in SUBSET approvals, NEW p, NEW head, NEW s \in Scope, NEW v,
         NEW protected, Accepts(p, head, s, v, protected, A, TRUE),
         Touches[p] \cap protected # {}
  PROVE  \E a \in A : /\ a.stage = "merge" /\ External(a) /\ a.version = v
                      /\ BindsMerge(a, p, head)
<1>1. RiskOf(p, s, protected) = Constitutional
  BY ProtectedIsGravest
<1>2. PICK a \in Valid(A) : /\ a.stage = "merge" /\ Matches(a, s, v, Touches[p], TRUE)
                            /\ BindsMerge(a, p, head)
  BY <1>1 DEF Accepts, PatchRisk, RiskOf
<1> QED BY <1>2, ValidStands DEF Matches

-----------------------------------------------------------------------------
(* What is verified.                                                       *)

LEMMA VersionAfterChange ==
  ASSUME Types, NEW g \in regime.growth, ScopeChange(g)
  PROVE  /\ Newest' = Newest + 1
         /\ Version' = IF pending' THEN Version ELSE Newest + 1
         /\ scopes'[Version] = scopes[Version]
<1>1. Newest + 1 \in Nat \ {0} /\ Newest \in Nat
  BY VersionIs DEF Types
<1>2. Newest' = Newest + 1
  <2>1. \A n \in Nat \ {0} : DOMAIN scopes' = 1 .. n => Newest' = n
    BY LargestOfVersions DEF Newest
  <2> QED BY <1>1, <2>1, ScopeChangeIs
<1>3. Version' = IF pending' THEN Newest' - 1 ELSE Newest'
  BY DEF Version
<1> QED BY <1>1, <1>2, <1>3, ScopeChangeIs, VersionIs DEF Types

LEMMA ApprovedStays ==
  ASSUME Types, [Next]_vars, NEW c, WasApproved(c)
  PROVE  WasApproved(c)'
<1>1. c.version \in DOMAIN scopes' /\ scopes'[c.version] = scopes[c.version]
  BY StepKeeps DEF WasApproved
<1>2. PatchRiskOf(c)' = PatchRiskOf(c)
  BY <1>1 DEF PatchRiskOf, RiskOf
<1> QED BY <1>1, <1>2, StepKeeps DEF WasApproved, Stands, External

LEMMA UnderScopeStays ==
  ASSUME UNCHANGED <<scopes, pending>>, NEW c, UnderScope(c)
  PROVE  UnderScope(c)'
BY DEF UnderScope, Version, Newest, InScope

LEMMA BeginJudged ==
  ASSUME Types, Authors, Bundled, VerifyBegins
  PROVE  WasApproved(check') /\ UnderScope(check')
<1>1. /\ check' = [patch |-> patch, version |-> Version, law |-> law]
      /\ Accepts(patch, Head, scopes[Version], Version, law, approvals, FALSE)
  BY DEF VerifyBegins, Allows, Snapshot
<1>2. check'.patch = patch /\ check'.version = Version /\ check'.law = law
  BY <1>1
<1>3. PatchRiskOf(check') = RiskOf(patch, scopes[Version], law)
  BY <1>2 DEF PatchRiskOf
<1>4. RiskOf(patch, scopes[Version], law) > Low =>
        \E a \in approvals : Stands(a, scopes[Version], Version,
                                    RiskOf(patch, scopes[Version], law) = Constitutional)
  BY <1>1, AcceptedStands
<1>5. \A f \in Touches[patch] : InScope(f, scopes[Version])
  BY <1>1, AcceptedInScope
<1> QED BY <1>2, <1>3, <1>4, <1>5, VersionIs DEF Types, WasApproved, UnderScope

LEMMA NextJudged ==
  ASSUME Types, Authors, Bundled, Judged, [Next]_vars
  PROVE  Judged'
<1> USE DEF frozenIn, outside, authority, work
<1>1. PICK c, e : c = check /\ e = gate
  OBVIOUS
<1>2. gate' = gate /\ gate # None => gate' = e /\ WasApproved(e)'
  BY <1>1, ApprovedStays DEF Judged
<1>3. CASE VerifyBegins
  <2>1. PICK d : d = check'
    OBVIOUS
  <2>2. WasApproved(d) /\ UnderScope(d) /\ UNCHANGED <<scopes, pending, gate>>
    BY <1>3, <2>1, BeginJudged DEF VerifyBegins
  <2>3. WasApproved(d)' /\ UnderScope(d)'
    BY <2>2, ApprovedStays, UnderScopeStays
  <2> QED BY <1>2, <2>1, <2>2, <2>3 DEF Judged
<1>4. ASSUME NEW passes \in BOOLEAN, VerifyEnds(passes) PROVE Judged'
  <2>1. check # None /\ check' = None /\ (gate' = check \/ gate' = gate)
    BY <1>4 DEF VerifyEnds
  <2>2. gate' = check => gate' = c /\ WasApproved(c)'
    BY <1>1, <2>1, ApprovedStays DEF Judged
  <2> QED BY <1>2, <2>1, <2>2 DEF Judged
<1>5. CASE ActivateScope \/ \E g \in regime.growth : ScopeChange(g)
  <2>1. check = None /\ UNCHANGED <<check, gate>>
    BY <1>5 DEF ActivateScope, ScopeChange, Free
  <2> QED BY <1>2, <2>1 DEF Judged
<1>6. CASE \/ Recording \/ World \/ UNCHANGED vars \/ Start \/ Prepare \/ OpenPR \/ ObserveMerge
           \/ (\E p \in regime.patches : Write(p)) \/ (\E manifest \in BOOLEAN : Commit(manifest))
           \/ (\E passes \in BOOLEAN : Admit(passes))
  <2>1. UNCHANGED <<scopes, pending, check, gate>>
    BY <1>6 DEF Recording, Review, WritePayload, ImportSigned, ImportGitHub, World,
       GitHubReview, Dismiss, Legislate, Tick, Edit, vars, Start, Prepare, OpenPR,
       ObserveMerge, Write, Commit, Admit
  <2>2. check # None => check' = c /\ WasApproved(c)' /\ UnderScope(c)'
    BY <1>1, <2>1, ApprovedStays, UnderScopeStays DEF Judged
  <2> QED BY <1>2, <2>1, <2>2 DEF Judged
<1> QED BY <1>3, <1>4, <1>5, <1>6 DEF Next, Commands

LEMMA NextVerified ==
  ASSUME Types, Judged, VerifiedUnderScope, [Next]_vars
  PROVE  VerifiedUnderScope'
<1> USE DEF frozenIn, outside, authority, work
<1>1. ASSUME NEW passes \in BOOLEAN, VerifyEnds(passes) PROVE VerifiedUnderScope'
  <2>1. /\ check # None /\ UNCHANGED <<scopes, pending>>
        /\ gate' = check \/ UNCHANGED <<gate, phase>>
    BY <1>1 DEF VerifyEnds
  <2>2. UnderScope(check)
    BY <2>1 DEF Judged
  <2> QED BY <2>1, <2>2 DEF VerifiedUnderScope, UnderScope, Version, Newest, InScope
<1>2. CASE ActivateScope
  BY <1>2 DEF ActivateScope, Reopened, VerifiedUnderScope
<1>3. ASSUME NEW g \in regime.growth, ScopeChange(g) PROVE VerifiedUnderScope'
  <2>1. CASE pending'
    <3>1. Version' = Version /\ scopes'[Version] = scopes[Version] /\ UNCHANGED <<phase, gate>>
      BY <1>3, <2>1, VersionAfterChange DEF ScopeChange
    <3> QED BY <3>1 DEF VerifiedUnderScope, InScope
  <2>2. CASE ~ pending'
    BY <1>3, <2>2 DEF ScopeChange, Reopened, VerifiedUnderScope
  <2> QED BY <2>1, <2>2
<1>4. CASE \/ Recording \/ World \/ UNCHANGED vars \/ Start \/ Prepare \/ OpenPR \/ ObserveMerge
           \/ (\E p \in regime.patches : Write(p)) \/ (\E manifest \in BOOLEAN : Commit(manifest))
           \/ (\E passes \in BOOLEAN : Admit(passes)) \/ VerifyBegins
  <2>1. /\ UNCHANGED <<scopes, pending, gate>>
        /\ phase' = phase \/ phase' = "ACTIVE"
    BY <1>4 DEF Recording, Review, WritePayload, ImportSigned, ImportGitHub, World,
       GitHubReview, Dismiss, Legislate, Tick, Edit, vars, Start, Prepare, OpenPR,
       ObserveMerge, Write, Commit, Admit, VerifyBegins
  <2> QED BY <2>1 DEF VerifiedUnderScope, Version, Newest, InScope
<1> QED BY <1>1, <1>2, <1>3, <1>4 DEF Next, Commands

-----------------------------------------------------------------------------
(* What is admitted.                                                       *)

LEMMA AdmitCovered ==
  ASSUME Types, Authors, Bundled, commit # None, Admissible
  PROVE  /\ RiskOf(commit.patch, commit.scopes[commit.version], base) > Low =>
              \E a \in commit.approvals :
                External(a) /\ Stands(a, commit.scopes[commit.version], commit.version, TRUE)
         /\ Touches[commit.patch] \cap base # {} =>
              \E a \in commit.approvals :
                /\ a.stage = "merge" /\ a.kind = "human_signed"
                /\ a.patch = commit.patch /\ a.head = "none"
<1>1. /\ commit.approvals \subseteq approvals /\ \A a \in commit.approvals : Early(a)
      /\ commit.scopes[commit.version] \in Scope
  BY DEF Bundled
<1>2. /\ Transported \in SUBSET approvals
      /\ \A a \in Transported : External(a) /\ a \in commit.approvals
  BY <1>1 DEF Transported
<1>3. Accepts(commit.patch, "commit", commit.scopes[commit.version], commit.version,
              base, Transported, TRUE)
  BY DEF Admissible
<1>4. ASSUME RiskOf(commit.patch, commit.scopes[commit.version], base) > Low
      PROVE  \E a \in commit.approvals :
               External(a) /\ Stands(a, commit.scopes[commit.version], commit.version, TRUE)
  <2>1. PICK a \in Transported :
          Stands(a, commit.scopes[commit.version], commit.version,
                 RiskOf(commit.patch, commit.scopes[commit.version], base) = Constitutional)
    BY <1>2, <1>3, <1>4, AcceptedStands
  <2> QED BY <1>2, <2>1 DEF Stands
<1>5. ASSUME Touches[commit.patch] \cap base # {}
      PROVE  \E a \in commit.approvals :
               /\ a.stage = "merge" /\ a.kind = "human_signed"
               /\ a.patch = commit.patch /\ a.head = "none"
  <2>1. PICK a \in Transported : a.stage = "merge" /\ External(a)
                                 /\ BindsMerge(a, commit.patch, "commit")
    BY <1>1, <1>2, <1>3, <1>5, AcceptedMerge
  <2>2. a.kind = "human_signed" /\ a.head = "none"
    BY <1>1, <1>2, <2>1 DEF Early, External, BindsMerge
  <2> QED BY <1>2, <2>1, <2>2 DEF BindsMerge
<1> QED BY <1>4, <1>5

LEMMA NextAdmitted ==
  ASSUME Types, Authors, Bundled, AdmittedIsCovered, [Next]_vars
  PROVE  AdmittedIsCovered'
<1> USE DEF frozenIn, outside, authority, work
<1>1. ASSUME NEW passes \in BOOLEAN, Admit(passes) PROVE AdmittedIsCovered'
  <2>1. /\ promo # None /\ promo.status = "PR_OPEN" /\ UNCHANGED <<commit, base>>
        /\ verdict' = "admitted" => Admissible
    BY <1>1 DEF Admit
  <2>2. commit # None
    BY <2>1 DEF Bundled
  <2> QED BY <2>1, <2>2, AdmitCovered
          DEF AdmittedIsCovered, AdmittedWasExternallyApproved, AdmittedMergeIsSigned,
              RiskOf, Stands, External
<1>2. CASE ~ \E passes \in BOOLEAN : Admit(passes)
  <2>1. verdict' = verdict
    BY <1>2 DEF Next, Recording, Review, WritePayload, ImportSigned, ImportGitHub, World,
       GitHubReview, Dismiss, Legislate, Tick, Edit, vars, Commands, Start, ActivateScope,
       ScopeChange, Prepare, OpenPR, ObserveMerge, Write, Commit, VerifyBegins, VerifyEnds
  <2>2. verdict = "admitted" => commit' = commit /\ base' = base
    BY StepKeeps DEF Bundled
  <2> QED BY <2>1, <2>2
          DEF AdmittedIsCovered, AdmittedWasExternallyApproved, AdmittedMergeIsSigned,
              RiskOf, Stands, External
<1> QED BY <1>1, <1>2

LEMMA InitIInv == Init => IInv
<1> SUFFICES ASSUME Init PROVE IInv
  OBVIOUS
<1>1. Authors /\ Bundled /\ Judged
  BY DEF Init, Authors, Bundled, Judged
<1>2. VerifiedUnderScope /\ AdmittedIsCovered
  BY DEF Init, VerifiedUnderScope, AdmittedIsCovered, AdmittedWasExternallyApproved,
     AdmittedMergeIsSigned
<1> QED BY <1>1, <1>2, InitTypes DEF IInv

LEMMA NextIInv == IInv /\ [Next]_vars => IInv'
BY NextTypes, NextAuthors, NextBundled, NextJudged, NextVerified, NextAdmitted DEF IInv

LEMMA IInvAlways == Spec => []IInv
BY InitIInv, NextIInv, PTL DEF Spec

\* A VERIFIED request was decided under the scope in effect, its files are in
\* that scope, and its risk was approved by somebody who could.
THEOREM VerifiedStaysCovered == Spec => []VerifiedIsCovered
<1>1. IInv => VerifiedIsCovered
  BY DEF IInv, Judged, WasApproved, VerifiedIsCovered, VerifiedWasApproved
<1> QED BY <1>1, IInvAlways, PTL

\* What the pull request check admits it could judge by itself.
THEOREM AdmittedStaysCovered == Spec => []AdmittedIsCovered
<1>1. IInv => AdmittedIsCovered
  BY DEF IInv
<1> QED BY <1>1, IInvAlways, PTL

-----------------------------------------------------------------------------
(* Decisions, step by step.                                                *)

RevisionStep ==
  \A v \in 2 .. MaxVersion :
    (Version' = v /\ Version # v /\ ScopeRisk(scopes'[v]) > Low) =>
      \E a \in approvals : /\ Stands(a, scopes'[v], v, ScopeRisk(scopes'[v]) = Constitutional)
                           /\ ~ Superseded(a, approvals)

CheckStep ==
  (check = None /\ check' # None /\ PatchRiskOf(check') > Low) =>
    \E a \in approvals : /\ Stands(a, scopes[Version], Version, FALSE)
                         /\ ~ Superseded(a, approvals)

MergeStep ==
  (promo # None /\ promo'.status = "MERGED" /\ promo.status # "MERGED"
     /\ patch = promo.patch /\ Touches[patch] \cap law # {}) =>
    \E a \in approvals :
      /\ External(a) /\ a.stage = "merge" /\ a.version = Version
      /\ a.patch = patch \/ a.head = "commit"

LEMMA NextRevision ==
  ASSUME IInv, [Next]_vars
  PROVE  RevisionStep
<1> USE DEF frozenIn, outside, authority, work
<1>0. SUFFICES ASSUME NEW v \in 2 .. MaxVersion, Version' = v, Version # v,
                      ScopeRisk(scopes'[v]) > Low
               PROVE  Authorised(scopes'[v], v)
  BY AuthorisedStands DEF RevisionStep, IInv
<1>1. CASE ActivateScope
  <2>1. /\ pending /\ ~ pending' /\ scopes' = scopes
        /\ Authorised(scopes[Newest], Newest)
    BY <1>1 DEF ActivateScope
  <2>2. Version' = Newest
    BY <2>1 DEF Version, Newest
  <2> QED BY <1>0, <2>1, <2>2
<1>2. ASSUME NEW g \in regime.growth, ScopeChange(g) PROVE Authorised(scopes'[v], v)
  <2>1. ~ pending' /\ v = Newest + 1
    BY <1>0, <1>2, VersionAfterChange DEF IInv
  <2> QED BY <1>2, <2>1, ScopeChangeIs DEF IInv
<1>3. CASE ~ (ActivateScope \/ \E g \in regime.growth : ScopeChange(g))
  <2>1. UNCHANGED <<scopes, pending>>
    BY <1>3 DEF Next, Recording, Review, WritePayload, ImportSigned, ImportGitHub, World,
       GitHubReview, Dismiss, Legislate, Tick, Edit, vars, Commands, Start,
       Prepare, OpenPR, ObserveMerge, Write, Commit, VerifyBegins, VerifyEnds, Admit
  <2> QED BY <1>0, <2>1 DEF Version, Newest
<1> QED BY <1>1, <1>2, <1>3

LEMMA NextCheck ==
  ASSUME IInv, [Next]_vars
  PROVE  CheckStep
<1> USE DEF frozenIn, outside, authority, work
<1>0. SUFFICES ASSUME check = None, check' # None, PatchRiskOf(check') > Low
               PROVE  \E a \in approvals : /\ Stands(a, scopes[Version], Version, FALSE)
                                           /\ ~ Superseded(a, approvals)
  BY DEF CheckStep
<1>1. VerifyBegins
  BY <1>0 DEF Next, Recording, Review, WritePayload, ImportSigned, ImportGitHub, World,
     GitHubReview, Dismiss, Legislate, Tick, Edit, vars, Commands, Start, ActivateScope,
     ScopeChange, Prepare, OpenPR, ObserveMerge, Write, Commit, VerifyEnds, Admit
<1>2. /\ check' = [patch |-> patch, version |-> Version, law |-> law]
      /\ Accepts(patch, Head, scopes[Version], Version, law, approvals, FALSE)
  BY <1>1 DEF VerifyBegins, Allows, Snapshot
<1>3. PatchRiskOf(check') = RiskOf(patch, scopes[Version], law)
  BY <1>2 DEF PatchRiskOf
<1>4. PICK a \in approvals :
        /\ Stands(a, scopes[Version], Version, RiskOf(patch, scopes[Version], law) = Constitutional)
        /\ ~ Superseded(a, approvals)
  BY <1>0, <1>2, <1>3, AcceptedStands DEF IInv
<1> QED BY <1>4 DEF Stands

LEMMA NextMerge ==
  ASSUME IInv, [Next]_vars
  PROVE  MergeStep
<1> USE DEF frozenIn, outside, authority, work
<1>0. SUFFICES ASSUME promo # None, promo'.status = "MERGED", promo.status # "MERGED",
                      Touches[patch] \cap law # {}
               PROVE  \E a \in approvals :
                        /\ External(a) /\ a.stage = "merge" /\ a.version = Version
                        /\ a.patch = patch \/ a.head = "commit"
  BY DEF MergeStep
<1>1. ObserveMerge
  <2>1. CASE OpenPR
    <3>1. promo' = [promo EXCEPT !.status = "PR_OPEN"] /\ promo \in Promotions
      BY <1>0, <2>1 DEF OpenPR, IInv, Types, WorkTypes
    <3> QED BY <1>0, <3>1 DEF Promotions
  <2>2. CASE ~ (OpenPR \/ ObserveMerge)
    <3>1. promo' = promo
      BY <1>0, <2>2 DEF Next, Recording, Review, WritePayload, ImportSigned, ImportGitHub,
         World, GitHubReview, Dismiss, Legislate, Tick, Edit, vars, Commands, Start,
         ActivateScope, ScopeChange, Prepare, Write, Commit, VerifyBegins, VerifyEnds, Admit
    <3> QED BY <1>0, <3>1
  <2> QED BY <2>1, <2>2
<1>2. /\ promo.status = "PR_OPEN"
      /\ Accepts(patch, Head, scopes[Version], Version, law, approvals, TRUE)
  BY <1>1 DEF ObserveMerge, Allows, Snapshot
<1>3. Head = "commit"
  BY <1>0, <1>2 DEF IInv, Bundled, Head
<1>4. PICK a \in approvals : /\ a.stage = "merge" /\ External(a) /\ a.version = Version
                             /\ BindsMerge(a, patch, Head)
  <2>1. Types /\ scopes[Version] \in Scope /\ approvals \in SUBSET approvals
    BY VersionIs DEF IInv, Types
  <2>2. PICK A, p, head, s, v, protected :
          /\ A = approvals /\ p = patch /\ head = Head /\ v = Version
          /\ s = scopes[Version] /\ protected = law
    OBVIOUS
  <2>3. /\ Accepts(p, head, s, v, protected, A, TRUE) /\ s \in Scope
        /\ A \in SUBSET approvals /\ Touches[p] \cap protected # {}
    BY <1>0, <1>2, <2>1, <2>2
  <2>4. \E a \in A : /\ a.stage = "merge" /\ External(a) /\ a.version = v
                     /\ BindsMerge(a, p, head)
    BY <2>1, <2>3, AcceptedMerge
  <2> QED BY <2>2, <2>4
<1> QED BY <1>3, <1>4 DEF BindsMerge

\* A revision takes effect, a check begins and a merge is recorded only on an
\* approval that was given for it and that its approver has not replaced.
THEOREM DecisionsStandOnApprovals == Spec => DecisionsRestOnApprovals
<1>1. IInv /\ [Next]_vars => [RevisionStep]_vars /\ [CheckStep]_vars /\ [MergeStep]_vars
  BY NextRevision, NextCheck, NextMerge
<1>2. Spec => [][RevisionStep]_vars /\ [][CheckStep]_vars /\ [][MergeStep]_vars
  BY <1>1, IInvAlways, PTL DEF Spec
<1> QED
  BY <1>2 DEF DecisionsRestOnApprovals, RevisionHasItsOwnApproval, RevisionStep,
     WithdrawnApprovalIsNotUsed, CheckStep, MergeWasAuthorised, MergeStep
===============================================================================
