------------------------------ MODULE Admission ------------------------------
(***************************************************************************)
(* Who may change what: the scope of an operator request, the approvals    *)
(* recorded for it, and the decisions taken from them.  The same policy is *)
(* evaluated when the request starts, when its scope grows, when its       *)
(* candidate is verified, when its merge is observed, and once more by the *)
(* pull request check, which has only the bundle the candidate committed   *)
(* (operator/policy.py, guard.py, approvals.py, bundle.py, trusted.py,     *)
(* scripts/validate_operator_pr.py and their callers in service.py).       *)
(*                                                                         *)
(* Commands hold the request lease, so each is one step; verify alone is   *)
(* two, because time passes, origin/main moves, reviews are dismissed and  *)
(* files are edited while its profiles run.  Paths are sets of files, a    *)
(* digest is the value digested, and the runs a Writer and a CheckRun are  *)
(* made of belong to RequestLifecycle.                                     *)
(***************************************************************************)
EXTENDS Integers, FiniteSets

CONSTANTS Files, Layers,
          Owners,      \* layers that resolve to a file, none or several
          Patches,     \* contents a candidate can have
          Touches,     \* files a patch changes
          Sound,       \* patches with no static constitution violation
          Creator, Reviewers, Humans,
          Regimes,     \* what a behaviour starts from, see regime
          Expiry,      \* when the request expires
          MaxVersion,
          None         \* no patch, no commit, no review

Low == 0
Medium == 1
High == 2
Constitutional == 3

Scope == [layers : SUBSET Layers, paths : SUBSET Files, risk : Low .. Constitutional]

ApprovalKind == {"reviewer", "human_signed", "github"}
Stage == {"scope", "merge"}

\* The request's scope and what can be added to it; the constitutions; the
\* patches Writers and others leave; the approvals given, how many, of which
\* kind and stage, how long they hold; how far time goes; whether the worktree
\* is edited and committed without its bundle.
Regime == [scope : Scope, growth : SUBSET Scope, laws : SUBSET SUBSET Files,
           patches : SUBSET Patches, approvals : Nat,
           rows : SUBSET (ApprovalKind \X Stage), lifetimes : SUBSET Nat,
           days : Nat, careless : BOOLEAN]

ASSUME AdmissionAssumption ==
  /\ Owners \in [Files -> SUBSET Layers]
  /\ Touches \in [Patches -> SUBSET Files] /\ Sound \subseteq Patches
  /\ Regimes \subseteq Regime
  /\ Expiry \in Nat /\ MaxVersion \in Nat \ {0}
  /\ Creator \notin Humans
  /\ None \notin Patches /\ None \notin Scope

VARIABLES regime,     \* chosen once: the request's scope and what can follow
          clock,
          law,        \* protected files of the constitution at origin/main
          frozen,     \* law when the request was created
          base,       \* law in the base commit of the request
          scopes,     \* scope by version, version 1 is the request's own
          pending,    \* whether the last version is PROPOSED
          approvals,  \* rows of approvals
          payloads,   \* approval payloads written out to be signed
          reviews,    \* GitHub review of each human: the scope digest it names
          patch,      \* content of the candidate worktree
          written,    \* patch digest of the latest completed WriterRun
          commit,     \* candidate commit and the bundle in it
          phase, check, gate, promo, verdict

authority == <<scopes, pending, approvals>>
outside   == <<clock, law, payloads, reviews>>
work      == <<patch, written, commit>>
frozenIn  == <<regime, frozen, base>>
vars == <<frozenIn, authority, outside, work, phase, check, gate, promo, verdict>>

Init ==
  /\ regime \in Regimes
  /\ clock = 0
  /\ law \in regime.laws /\ frozen = law /\ base \in regime.laws
  /\ scopes = [v \in {1} |-> regime.scope] /\ pending = FALSE
  /\ approvals = {} /\ payloads = {} /\ reviews = [h \in Humans |-> None]
  /\ patch = None /\ written = None /\ commit = None
  /\ phase = "REQUESTED" /\ check = None /\ gate = None
  /\ promo = None /\ verdict = "none"

-----------------------------------------------------------------------------
(* Scopes and their risk.                                                  *)

Largest(S) == CHOOSE n \in S : \A m \in S : m <= n

Newest == Largest(DOMAIN scopes)

\* request_digest of the request with the scope of a version: all the rest of
\* it was frozen when it was created.
Digest(v) == scopes[v]

\* effective_request: the approved revision of the highest version.
Version == IF pending THEN Newest - 1 ELSE Newest

LayersOf(files) == UNION {Owners[f] : f \in files}

Many(S) == \E x, y \in S : x # y

Graver(a, b) == IF a > b THEN a ELSE b

\* compute_scope_risk over the planned paths.
ScopeRisk(s) ==
  Graver(s.risk,
         IF s.paths \cap law # {} THEN Constitutional
         ELSE IF Many(s.layers \cup LayersOf(s.paths)) THEN Medium ELSE Low)

\* Every planned path has an owner among the declared layers, and every
\* declared layer a planned path.
Covered(s) ==
  /\ \A f \in s.paths : Owners[f] \cap s.layers # {}
  /\ s.layers \subseteq LayersOf(s.paths)

-----------------------------------------------------------------------------
(* Approvals.                                                              *)

External(a) == a.kind \in {"human_signed", "github"}

Approved(a) == a.decision = "approve" /\ clock < a.till

\* effective_approvals: of each approver and stage the newest by the second
\* it was recorded in and by its random id, if it approves and has not expired.
Effective(A) ==
  {a \in A : /\ Approved(a)
             /\ \A b \in A : b.who = a.who /\ b.stage = a.stage =>
                  b.at < a.at \/ (b.at = a.at /\ b.id <= a.id)}

\* verify_external_approval: a signature stays valid, a GitHub review is read
\* again and must still be there and name the digest it was recorded for.
Verified(a) == a.kind = "github" => reviews[a.who] = a.scope

\* Approvals that count, and whether one that should has become invalid.
Valid(A)   == {a \in Effective(A) : Verified(a)}
Spoiled(A) == \E a \in Effective(A) : ~ Verified(a)

\* (mutated) an approval counts for every version of the scope
Matches_AnyVersion(a, s, v, files, human) ==
  /\ s.layers \subseteq a.layers
  /\ ~ (a.who = Creator /\ a.kind = "reviewer")
  /\ human => External(a)
  /\ a.paths = {} \/ files \subseteq a.paths

\* approval_matches for a scope approval; the merge binding is BindsMerge.
Matches(a, s, v, files, human) ==
  /\ a.scope = s /\ a.version = v
  /\ ~ (a.who = Creator /\ a.kind = "reviewer")
  /\ human => External(a)
  /\ s.layers \subseteq a.layers
  /\ a.paths = {} \/ files \subseteq a.paths

BindsMerge(a, p, head) ==
  /\ a.patch # None => a.patch = p
  /\ a.head # "none" => a.head = head
  /\ a.patch # None \/ a.head # "none"

\* check_scope_authority.
Authorised(s, v) ==
  /\ Covered(s)
  /\ ~ Spoiled(approvals)
  /\ ScopeRisk(s) > Low =>
       \E a \in Valid(approvals) :
         a.stage = "scope" /\ Matches(a, s, v, s.paths, ScopeRisk(s) = Constitutional)

-----------------------------------------------------------------------------
(* evaluate_policy: a candidate patch against a scope, a law and approvals.*)

\* A file with one owner, which is declared, on a planned path.
InScope(f, s) ==
  /\ Owners[f] \cap s.layers # {} /\ ~ Many(Owners[f])
  /\ f \in s.paths

ComputedRisk(files, protected) ==
  IF files \cap protected # {} THEN Constitutional
  ELSE IF \E f \in files : Cardinality(Owners[f]) # 1 THEN High
  ELSE IF Many(LayersOf(files)) THEN Medium ELSE Low

PatchRisk(p, s, protected) == Graver(s.risk, ComputedRisk(Touches[p], protected))

\* static_constitution_violations of the tree with the patch: none.
Lawful(p) == p \in Sound

\* evaluate_policy: a patch on a head, by a scope, a law and approvals.
Accepts(p, head, s, v, protected, A, merge) ==
  LET files == Touches[p]
      risk  == PatchRisk(p, s, protected)
      human == risk = Constitutional
  IN /\ clock < Expiry
     /\ files # {} /\ \A f \in files : InScope(f, s)
     /\ Lawful(p)
     /\ ~ Spoiled(A)
     /\ (risk > Low \/ Many(s.layers)) =>
          \E a \in Valid(A) : a.stage = "scope" /\ Matches(a, s, v, files, human)
     /\ (human /\ merge) =>
          \E a \in Valid(A) : /\ a.stage = "merge" /\ Matches(a, s, v, files, TRUE)
                              /\ BindsMerge(a, p, head)

\* The risk of what a check decided about, by the law it was decided under.
RiskOf(p, s, protected) == Graver(s.risk, ComputedRisk(Touches[p], protected))

PatchRiskOf(c) == RiskOf(c.patch, scopes[c.version], c.law)

Head == IF commit = None THEN "base" ELSE "commit"

\* collect_candidate_snapshot of the worktree.
Snapshot == [patch |-> patch, head |-> Head]

\* The local evaluation: the worktree, the scope in effect, the law of now.
Allows(merge) ==
  /\ patch # None
  /\ Accepts(Snapshot.patch, Snapshot.head, scopes[Version], Version, law, approvals, merge)

-----------------------------------------------------------------------------
(* Recording approvals.                                                    *)

\* No command of the request runs beside a verify.
Free == check = None

\* _approval_target: the scope in effect or a revision that is not refused.
Targets == DOMAIN scopes

\* A new row: its random id sorts before or after those of the same second.
Record(a) ==
  /\ Cardinality(approvals) < regime.approvals /\ <<a.kind, a.stage>> \in regime.rows
  /\ LET peers == {b.id : b \in {b \in approvals : b.who = a.who /\ b.stage = a.stage /\ b.at = clock}}
     IN \E id \in IF peers = {} THEN {0}
                  ELSE {Largest(peers) + 1, - Largest({- n : n \in peers}) - 1} :
          approvals' = approvals \cup {[a EXCEPT !.id = id]}

Row(who, kind, stage, decision, v, till, bound) ==
  [who |-> who, kind |-> kind, stage |-> stage, decision |-> decision,
   scope |-> Digest(v), version |-> v, layers |-> scopes[v].layers, paths |-> {},
   till |-> till, patch |-> bound.patch, head |-> bound.head, at |-> clock, id |-> 0]

Unbound == [patch |-> None, head |-> "none"]

\* add_reviewer_decision, which the creator may not take.
Review(r, decision, v, till, paths) ==
  /\ Free /\ v \in Targets /\ r # Creator
  /\ Record([Row(r, "reviewer", "scope", decision, v, till, Unbound) EXCEPT !.paths = paths])
  /\ UNCHANGED <<frozenIn, scopes, pending, outside, work, phase, check, gate, promo, verdict>>

\* create_approval_payload: a merge payload names what the worktree is now.
WritePayload(h, stage, v, binding, till) ==
  /\ Free /\ v \in Targets
  /\ stage = "scope" => binding = "none"
  /\ stage = "merge" => binding \in {"patch", "head"} /\ phase # "REQUESTED"
  /\ <<"human_signed", stage>> \in regime.rows
  /\ LET bound == [patch |-> IF binding = "patch" THEN Snapshot.patch ELSE None,
                   head  |-> IF binding = "head" THEN Snapshot.head ELSE "none"]
     IN /\ payloads = {} /\ (binding = "patch" => patch # None)
        /\ payloads' = {Row(h, "human_signed", stage, "approve", v, till, bound)}
  /\ UNCHANGED <<frozenIn, authority, clock, law, reviews, work, phase, check, gate, promo, verdict>>

\* import_signed_approval of a payload signed meanwhile: it still has to name
\* the digest of a scope that can be approved.
ImportSigned(a) ==
  /\ Free
  /\ \E v \in Targets : Digest(v) = a.scope
  /\ Record([a EXCEPT !.at = clock])
  /\ payloads' = payloads \ {a}
  /\ UNCHANGED <<frozenIn, scopes, pending, clock, law, reviews, work, phase, check, gate, promo, verdict>>

\* import_github_approval: the review approves the commit of the pull request
\* and its body names the digest of the scope in effect.
ImportGitHub(h, stage) ==
  /\ Free
  /\ reviews[h] = Digest(Version)
  /\ Record([Row(h, "github", stage, "approve", Version, regime.days + 1,
                 [patch |-> None, head |-> "commit"]) EXCEPT !.id = 0])
  /\ UNCHANGED <<frozenIn, scopes, pending, outside, work, phase, check, gate, promo, verdict>>

-----------------------------------------------------------------------------
(* Start and scope.                                                        *)

\* preflight and start.
Start ==
  /\ Free /\ phase = "REQUESTED"
  /\ frozen = law /\ clock < Expiry
  /\ Authorised(scopes[Version], Version)
  /\ phase' = "ACTIVE"
  /\ UNCHANGED <<frozenIn, authority, outside, work, check, gate, promo, verdict>>

Reopened == IF phase = "VERIFIED" THEN "ACTIVE" ELSE phase

\* (mutated) risks are added up
Grown_Sum(s, g) == [layers |-> s.layers \cup g.layers, paths |-> s.paths \cup g.paths,
                    risk |-> s.risk + g.risk]

\* The scope in effect and what a change adds.
Grown(s, g) == [layers |-> s.layers \cup g.layers, paths |-> s.paths \cup g.paths,
                risk |-> Graver(s.risk, g.risk)]

\* request_scope_change: a revision is a row of its version, which is taken
\* while another one is proposed; it is in effect at once if nothing is missing.
ScopeChange(g) ==
  /\ Free
  /\ g.layers \cup g.paths # {} /\ g.layers \subseteq LayersOf(g.paths)
  /\ Version + 1 \notin DOMAIN scopes /\ Version < MaxVersion
  /\ LET s == Grown(scopes[Version], g) IN
     /\ scopes' = [v \in DOMAIN scopes \cup {Version + 1} |->
                     IF v = Version + 1 THEN s ELSE scopes[v]]
     /\ pending' = ~ Authorised(s, Version + 1)
  /\ phase' = IF pending' THEN phase ELSE Reopened
  /\ UNCHANGED <<frozenIn, approvals, outside, work, check, gate, promo, verdict>>

\* (mutated) a verified request keeps its phase when its scope grows
ActivateScope_NotReopened ==
  /\ Free /\ pending
  /\ Authorised(scopes[Newest], Newest)
  /\ pending' = FALSE
  /\ UNCHANGED <<frozenIn, scopes, approvals, outside, work, phase, check, gate, promo, verdict>>

\* activate_scope_revision.
ActivateScope ==
  /\ Free /\ pending
  /\ Authorised(scopes[Newest], Newest)
  /\ pending' = FALSE
  /\ phase' = Reopened
  /\ UNCHANGED <<frozenIn, scopes, approvals, outside, work, check, gate, promo, verdict>>

-----------------------------------------------------------------------------
(* The candidate.                                                          *)

\* A completed WriterRun, kept inside the planned paths and layers.
Write(p) ==
  /\ Free /\ phase = "ACTIVE" /\ commit = None
  /\ patch = written
  /\ \A f \in Touches[p] : InScope(f, scopes[Version])
  /\ patch' = p /\ written' = p
  /\ UNCHANGED <<frozenIn, authority, outside, commit, phase, check, gate, promo, verdict>>

\* commit_candidate exports the bundle into the commit: the scopes and the
\* approvals of this moment.  A candidate is committed once.
Commit(manifest) ==
  /\ Free /\ phase = "ACTIVE" /\ commit = None
  /\ patch # None /\ patch = written
  /\ manifest \/ regime.careless
  /\ commit' = [patch |-> patch, manifest |-> manifest, scopes |-> scopes,
                version |-> Version, approvals |-> approvals]
  /\ UNCHANGED <<frozenIn, authority, outside, patch, written, phase, check, gate, promo, verdict>>

Clean == commit # None /\ patch = commit.patch

\* verify decides first; a refusal is feedback.
VerifyBegins ==
  /\ Free /\ phase = "ACTIVE"
  /\ Clean /\ patch = written
  /\ Allows(FALSE)
  /\ check' = [patch |-> patch, version |-> Version, law |-> law]
  /\ UNCHANGED <<frozenIn, authority, outside, work, phase, gate, promo, verdict>>

\* ... and ends after the profiles and the semantic review, on the patch it
\* decided about.
VerifyEnds(passes) ==
  /\ check # None
  /\ check' = None
  /\ IF passes /\ patch = check.patch
     THEN gate' = check /\ phase' = "VERIFIED"
     ELSE UNCHANGED <<gate, phase>>
  /\ UNCHANGED <<frozenIn, authority, outside, work, promo, verdict>>

-----------------------------------------------------------------------------
(* Promotion and the pull request.                                         *)

\* prepare_promotion; a candidate that changed returns the request to ACTIVE.
Prepare ==
  /\ Free /\ phase = "VERIFIED" /\ promo = None
  /\ IF patch = gate.patch
     THEN /\ promo' = [status |-> "PREPARED", patch |-> patch]
          /\ UNCHANGED phase
     ELSE phase' = "ACTIVE" /\ UNCHANGED promo
  /\ UNCHANGED <<frozenIn, authority, outside, work, check, gate, verdict>>

\* open_pull_request.
OpenPR ==
  /\ promo # None /\ promo.status = "PREPARED"
  /\ Clean /\ commit.manifest
  /\ promo' = [promo EXCEPT !.status = "PR_OPEN"]
  /\ UNCHANGED <<frozenIn, authority, outside, work, phase, check, gate, verdict>>

\* observe_merge of a pull request merged at the promotion's head: the policy
\* reads the worktree and the scope of now.
ObserveMerge ==
  /\ promo # None /\ promo.status = "PR_OPEN"
  /\ Allows(TRUE)
  /\ promo' = [promo EXCEPT !.status = "MERGED"]
  /\ UNCHANGED <<frozenIn, authority, outside, work, phase, check, gate, verdict>>

\* (mutated) reviewer decisions in the bundle are trusted
Transported_All == commit.approvals

\* Approvals the pull request check believes: it can verify them itself.
Transported == {a \in commit.approvals : External(a)}

\* validate_operator_pr and validate_bundle: the commit, the bundle's scope,
\* the constitution of the base commit.
Admissible ==
  /\ frozen = base
  /\ \A a \in Transported : Verified(a)
  /\ Accepts(commit.patch, "commit", commit.scopes[commit.version], commit.version,
             base, Transported, TRUE)

\* The check of the pull request, profiles and experiment included.
Admit(passes) ==
  /\ promo # None /\ promo.status = "PR_OPEN"
  /\ verdict' = IF Admissible /\ passes THEN "admitted" ELSE "refused"
  /\ UNCHANGED <<frozenIn, authority, outside, work, phase, check, gate, promo>>

-----------------------------------------------------------------------------
(* The world.                                                              *)

\* A human approves the pull request on GitHub, naming the digest in effect.
GitHubReview(h) ==
  /\ promo # None /\ promo.status = "PR_OPEN"
  /\ reviews[h] # Digest(Version)
  /\ reviews' = [reviews EXCEPT ![h] = Digest(Version)]
  /\ UNCHANGED <<frozenIn, authority, clock, law, payloads, work, phase, check, gate, promo, verdict>>

Dismiss(h) ==
  /\ reviews[h] # None
  /\ reviews' = [reviews EXCEPT ![h] = None]
  /\ UNCHANGED <<frozenIn, authority, clock, law, payloads, work, phase, check, gate, promo, verdict>>

\* origin/main moves to another constitution.
Legislate ==
  /\ law' \in regime.laws \ {law}
  /\ UNCHANGED <<frozenIn, authority, clock, payloads, reviews, work, phase, check, gate, promo, verdict>>

Tick ==
  /\ clock < regime.days
  /\ clock' = clock + 1
  /\ UNCHANGED <<frozenIn, authority, law, payloads, reviews, work, phase, check, gate, promo, verdict>>

\* Somebody edits the worktree.
Edit(p) ==
  /\ regime.careless /\ phase # "REQUESTED" /\ p # patch
  /\ patch' = p
  /\ UNCHANGED <<frozenIn, authority, outside, written, commit, phase, check, gate, promo, verdict>>

Recording ==
  \/ \E r \in Reviewers, d \in {"approve", "reject"}, v \in Targets, t \in regime.lifetimes,
        paths \in {{}, scopes[Version].paths} : Review(r, d, v, t, paths)
  \/ \E h \in Humans, stage \in {"scope", "merge"}, v \in Targets, t \in regime.lifetimes,
        binding \in {"none", "patch", "head"} : WritePayload(h, stage, v, binding, t)
  \/ \E a \in payloads : ImportSigned(a)
  \/ \E h \in Humans, stage \in {"scope", "merge"} : ImportGitHub(h, stage)

Commands ==
  \/ Start \/ ActivateScope
  \/ \E g \in regime.growth : ScopeChange(g)
  \/ \E p \in regime.patches : Write(p)
  \/ \E manifest \in BOOLEAN : Commit(manifest)
  \/ VerifyBegins \/ \E passes \in BOOLEAN : VerifyEnds(passes)
  \/ Prepare \/ OpenPR \/ ObserveMerge
  \/ \E passes \in BOOLEAN : Admit(passes)

World ==
  \/ \E h \in Humans : GitHubReview(h) \/ Dismiss(h)
  \/ Legislate \/ Tick
  \/ \E p \in regime.patches : Edit(p)

Next == Recording \/ Commands \/ World

Spec == Init /\ [][Next]_vars

-----------------------------------------------------------------------------
(* Properties.                                                             *)

Row0 == [who : Reviewers \cup Humans \cup {Creator}, kind : ApprovalKind,
         stage : {"scope", "merge"}, decision : {"approve", "reject"},
         scope : Scope, version : Nat \ {0}, layers : SUBSET Layers,
         paths : SUBSET Files, till : Nat, patch : Patches \cup {None},
         head : {"none", "base", "commit"}, at : Nat, id : Int]

\* Types: the tables, the worktree, the commit and the decisions.
TypeOK ==
  /\ clock \in Nat /\ law \subseteq Files /\ frozen \subseteq Files /\ base \subseteq Files
  /\ DOMAIN scopes = 1 .. Newest /\ \A v \in DOMAIN scopes : scopes[v] \in Scope
  /\ pending \in BOOLEAN /\ (pending => Newest > 1)
  /\ \A a \in approvals \cup payloads : a \in Row0
  /\ patch \in Patches \cup {None} /\ written \in Patches \cup {None}
  /\ phase \in {"REQUESTED", "ACTIVE", "VERIFIED"}
  /\ verdict \in {"none", "admitted", "refused"}

\* An approver's later decision on the same stage, a second apart or more,
\* replaces the earlier one.
Superseded(a, A) ==
  \E b \in A : b.who = a.who /\ b.stage = a.stage /\ b.at > a.at

\* An approval for this scope and this version, by somebody who may give it.
Stands(a, s, v, human) ==
  /\ a.stage = "scope" /\ a.decision = "approve"
  /\ a.scope = s /\ a.version = v
  /\ a.who # Creator
  /\ human => External(a)

\* "An earlier approval does not grant a new revision": a revision that takes
\* effect across layers or over protected files does so on an approval of that
\* very revision, which its approver has not replaced since.
RevisionHasItsOwnApproval ==
  [][\A v \in 2 .. MaxVersion :
       (Version' = v /\ Version # v /\ ScopeRisk(scopes'[v]) > Low) =>
         \E a \in approvals : /\ Stands(a, scopes'[v], v, ScopeRisk(scopes'[v]) = Constitutional)
                              /\ ~ Superseded(a, approvals)]_vars

\* What is VERIFIED was decided under the scope in effect, and every file it
\* changes is one that scope names: the scope may have grown since the Writer
\* ran, since the commit and while the checks ran.
VerifiedUnderScope ==
  phase = "VERIFIED" =>
    /\ gate.version = Version
    /\ \A f \in Touches[gate.patch] : InScope(f, scopes[Version])

\* What passed verification with protected files or several layers had an
\* approval of its scope, from a human for protected files, however the
\* constitution changed between the start and the check.
VerifiedWasApproved ==
  gate # None =>
    LET risk == PatchRiskOf(gate) IN
    risk > Low => \E a \in approvals :
      Stands(a, scopes[gate.version], gate.version, risk = Constitutional)

\* A check that begins does not rest on an approval whose approver has since
\* decided otherwise.
WithdrawnApprovalIsNotUsed ==
  [][(check = None /\ check' # None /\ PatchRiskOf(check') > Low) =>
       \E a \in approvals : /\ Stands(a, scopes[Version], Version, FALSE)
                            /\ ~ Superseded(a, approvals)]_vars

\* The pull request check admits a change across layers only with an approval
\* it could verify itself, given before the commit that carries it: a
\* reviewer's decision, enough to be VERIFIED, is not enough to be admitted.
AdmittedWasExternallyApproved ==
  (verdict = "admitted" /\ RiskOf(commit.patch, commit.scopes[commit.version], base) > Low) =>
    \E a \in commit.approvals :
      External(a) /\ Stands(a, commit.scopes[commit.version], commit.version, TRUE)

\* A change of protected files is admitted only with a human's signature under
\* exactly the patch of the pull request.  A GitHub review or a signature under
\* a HEAD can not be it: both name a commit made after the bundle or before it.
AdmittedMergeIsSigned ==
  (verdict = "admitted" /\ Touches[commit.patch] \cap base # {}) =>
    \E a \in commit.approvals :
      /\ a.stage = "merge" /\ a.kind = "human_signed"
      /\ a.patch = commit.patch /\ a.head = "none"

\* A merge is recorded for protected files only with a human merge approval
\* that names the patch or the commit, as long as the worktree still holds
\* what was merged.
MergeWasAuthorised ==
  [][(promo # None /\ promo'.status = "MERGED" /\ promo.status # "MERGED"
        /\ patch = promo.patch /\ Touches[patch] \cap law # {}) =>
       \E a \in approvals :
         /\ External(a) /\ a.stage = "merge" /\ a.version = Version
         /\ a.patch = patch \/ a.head = "commit"]_vars

\* What is VERIFIED is covered by the scope in effect and by the approvals that
\* its risk asks for.
VerifiedIsCovered == VerifiedUnderScope /\ VerifiedWasApproved

\* What the pull request check admits is covered by approvals that it could
\* verify itself, with a signature under the very patch for protected files.
AdmittedIsCovered == AdmittedWasExternallyApproved /\ AdmittedMergeIsSigned

\* Every decision rests on an approval made for it and not withdrawn since: the
\* activation of a revision, the beginning of a check, the record of a merge.
DecisionsRestOnApprovals ==
  RevisionHasItsOwnApproval /\ WithdrawnApprovalIsNotUsed /\ MergeWasAuthorised
=============================================================================
