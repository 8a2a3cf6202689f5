------------------------------- MODULE Promotion -------------------------------
(***************************************************************************)
(* Promotions of verified candidates: the receipt, the pull request, the   *)
(* merge, the canary, the switch of the one active-release link, and its   *)
(* rollback (operator/service.py from prepare_promotion on).               *)
(*                                                                         *)
(* A request has a lease, and the commands on its promotions take it.  The *)
(* link has none: promotions of different requests, and several promotions *)
(* of one request, share it.                                               *)
(*                                                                         *)
(* A candidate's commit is a number.  The merge commit of a promotion, and *)
(* the release made of it, are named by the promotion.  GitHub is what     *)
(* gh answers; a policy, an approval or a lookup that refuses is a command *)
(* that does not happen.                                                   *)
(***************************************************************************)
EXTENDS Naturals, Sequences, FiniteSets

CONSTANTS Procs,      \* operator commands that may run at the same time
          Requests,   \* requests with a verified candidate
          Proms,      \* promotions that may be prepared
          MaxHead,    \* bound on the commits of a candidate
          MaxPulls,   \* bound on the pull requests
          Regimes,    \* what a behaviour is allowed, see regime
          Base,       \* the release that is active before all promotions
          NoRelease,  \* there is no active-release link
          None,       \* no promotion, no row
          Nobody,     \* owner of a lease that is not held
          Ghost       \* owner of a lease whose process died

Statuses == {"PREPARED", "PR_OPEN", "MERGED", "CANARY", "FAILED", "ACTIVE", "ROLLED_BACK"}
Heads    == 0 .. MaxHead
Rows     == [req : Requests, status : Statuses, head : Heads,
             prev : Proms \cup {Base, NoRelease}, pull : 0 .. MaxPulls]

ASSUME PromotionAssumption ==
  /\ Nobody \notin Procs /\ Ghost \notin Procs /\ Nobody # Ghost
  /\ Base \notin Proms /\ NoRelease \notin Proms /\ Base # NoRelease
  /\ None \notin Proms /\ None \notin Rows
  /\ MaxHead \in Nat \ {0} /\ MaxPulls \in Nat
  /\ Regimes \subseteq [faults : SUBSET {"crash", "git", "theft", "edit"},
                        overlap : BOOLEAN, first : {Base, NoRelease}, most : Nat]

VARIABLES regime,    \* chosen once: the faults, whether promotions overlap,
                     \* what the link shows at first, a bound on promotions
          req,       \* per request: phase, candidate, verified commit
          passed,    \* per request: commits with a passing full CheckRun
          prom,      \* rows of promotions
          branch,    \* per request: the branch at GitHub
          pulls,     \* the pull requests, by number
          releases,  \* directories under release_root
          link,      \* the active-release link
          sandbox,   \* promotions whose canary worktree exists
          revert,    \* per promotion: branch, pull request of the revert
          lease,     \* rows of request_leases
          pc, loc,   \* where each command is, and what it remembers
          good       \* history: promotions whose canary passed

github == <<branch, pulls, revert>>
disk   == <<releases, link, sandbox>>
vars   == <<regime, req, passed, prom, github, disk, lease, pc, loc, good>>

Idle == [prom |-> None, row |-> None]

\* The requests are VERIFIED: RequestLifecycle says what led there.
Init ==
  /\ regime \in Regimes
  /\ req = [r \in Requests |-> [phase |-> "VERIFIED", candidate |-> 1, verified |-> 1]]
  /\ passed = [r \in Requests |-> {1}]
  /\ prom = [p \in Proms |-> None]
  /\ branch = [r \in Requests |-> 0]
  /\ pulls = << >>
  /\ revert = [p \in Proms |-> "none"]
  /\ releases = {regime.first} \ {NoRelease} /\ link = regime.first
  /\ sandbox = {}
  /\ lease = [r \in Requests |-> Nobody]
  /\ pc = [c \in Procs |-> "idle"] /\ loc = [c \in Procs |-> Idle]
  /\ good = {}

-----------------------------------------------------------------------------
(* Leases, rows, and the discipline of one promotion at a time.            *)

Prepared(p) == prom[p] # None
Status(p)   == IF Prepared(p) THEN prom[p].status ELSE "none"

\* (mutated) nobody looks at the lease
Acquirable_Any(r) == lease[r] \in Procs \cup {Nobody, Ghost}

Acquirable(r) == lease[r] \in {Nobody, Ghost}

Goto(c, label) == pc' = [pc EXCEPT ![c] = label]

\* The command takes the lease of the row's request and remembers the row.
Begin(c, label, p, row) ==
  /\ pc[c] = "idle" /\ Acquirable(row.req)
  /\ lease' = [lease EXCEPT ![row.req] = c]
  /\ Goto(c, label)
  /\ loc' = [loc EXCEPT ![c] = [prom |-> p, row |-> row]]

\* A command on a promotion with one of the statuses.
Command(c, p, label, statuses) ==
  /\ Status(p) \in statuses
  /\ Begin(c, label, p, prom[p])

\* The command returns or raises.
Finish(c) ==
  /\ Goto(c, "idle")
  /\ loc' = [loc EXCEPT ![c] = Idle]
  /\ lease' = [r \in Requests |-> IF lease[r] = c THEN Nobody ELSE lease[r]]

Mine(c)      == loc[c].prom
RequestOf(c) == loc[c].row.req

\* update_promotion: the row that the command read, with a new status.
Updated(c, status) ==
  [prom EXCEPT ![Mine(c)] = [loc[c].row EXCEPT !.status = status]]

\* Promotions that may still switch the link.
Unfinished(p) ==
  \/ Status(p) \in {"MERGED", "CANARY", "FAILED"}
  \/ Status(p) = "PREPARED"
  \/ Status(p) = "PR_OPEN" /\ pulls[prom[p].pull].state # "closed"

\* Without overlap nobody prepares a promotion while another one is under
\* way, and only the newest active one is rolled back.
Started    == {p \in Proms : Prepared(p) \/ \E c \in Procs : Mine(c) = p}
MayPrepare == regime.overlap \/ \A p \in Started :
                ~ Unfinished(p) /\ \A c \in Procs : Mine(c) # p

MayRollBack(p) ==
  \/ regime.overlap \/ Unfinished(p)
  \/ link = p /\ MayPrepare

-----------------------------------------------------------------------------
(* The request meanwhile.                                                  *)

Says(r, phase) ==
  /\ Acquirable(r)
  /\ req' = [req EXCEPT ![r].phase = phase]
  /\ UNCHANGED <<passed, prom, github, disk, lease, pc, loc, good>>

\* request_reopened, by the command reopen or by a new scope.
Reopen(r) == req[r].phase = "VERIFIED" /\ Says(r, "ACTIVE")

\* close, for instance as revoked.
CloseRequest(r) == req[r].phase # "CLOSED" /\ Says(r, "CLOSED")

\* A full check passes again, on the same commit or on a new one.
Reverify(r) ==
  /\ Acquirable(r) /\ req[r].phase = "ACTIVE"
  /\ \E k \in {req[r].verified, req[r].verified + 1} :
       /\ k <= MaxHead
       /\ req' = [req EXCEPT ![r] = [phase |-> "VERIFIED", candidate |-> k, verified |-> k]]
       /\ passed' = [passed EXCEPT ![r] = @ \cup {k}]
  /\ UNCHANGED <<prom, github, disk, lease, pc, loc, good>>

\* Somebody else commits in the candidate worktree.
Edit(r) ==
  /\ "edit" \in regime.faults /\ req[r].phase # "CLOSED"
  /\ req' = [req EXCEPT ![r].candidate = 0]
  /\ UNCHANGED <<passed, prom, github, disk, lease, pc, loc, good>>

-----------------------------------------------------------------------------
(* prepare_promotion.                                                      *)

\* A candidate that changed since its verification reopens the request.
PrepareReopens(r) ==
  /\ req[r].phase = "VERIFIED" /\ req[r].candidate # req[r].verified
  /\ Says(r, "ACTIVE")

Draft(r, head) ==
  [req |-> r, status |-> "PREPARED", head |-> head, prev |-> link, pull |-> 0]

\* The link is read now, and restored by a rollback however much later.
Prepare(c, p, r) ==
  /\ p \notin Started /\ Cardinality(Started) < regime.most /\ MayPrepare
  /\ req[r].phase = "VERIFIED" /\ req[r].candidate = req[r].verified
  /\ Begin(c, "receipt", p, Draft(r, req[r].candidate))
  /\ UNCHANGED <<req, passed, prom, github, disk, good>>

\* The row, the receipt artifact and promotion_prepared.
Receipt(c) ==
  /\ pc[c] = "receipt"
  /\ prom' = [prom EXCEPT ![Mine(c)] = loc[c].row]
  /\ Finish(c)
  /\ UNCHANGED <<req, passed, github, disk, good>>

-----------------------------------------------------------------------------
(* open_pull_request.                                                      *)

OpenPr(c, p) ==
  /\ Command(c, p, "push", {"PREPARED"})
  /\ req[prom[p].req].candidate = prom[p].head
  /\ UNCHANGED <<req, passed, prom, github, disk, good>>

\* git push moves the branch, and with it an open pull request.
Push(c) ==
  /\ pc[c] = "push"
  /\ branch' = [branch EXCEPT ![RequestOf(c)] = req[RequestOf(c)].candidate]
  /\ Goto(c, "create")
  /\ UNCHANGED <<req, passed, prom, pulls, revert, disk, lease, loc, good>>

\* GitHub takes one open pull request per branch, and none without commits.
Refused(r) ==
  \E n \in DOMAIN pulls :
    /\ pulls[n].req = r
    /\ pulls[n].state = "open" \/ pulls[n] = [req |-> r, state |-> "merged", head |-> branch[r]]

CreatePr(c) ==
  /\ pc[c] = "create" /\ ~ Refused(RequestOf(c))
  /\ Len(pulls) < MaxPulls
  /\ pulls' = Append(pulls, [req |-> RequestOf(c), state |-> "open", head |-> 0])
  /\ loc' = [loc EXCEPT ![c].row.pull = Len(pulls) + 1]
  /\ Goto(c, "opened")
  /\ UNCHANGED <<req, passed, prom, branch, revert, disk, lease, good>>

\* The branch stays pushed.
CreateRefused(c) ==
  /\ pc[c] = "create"
  /\ Refused(RequestOf(c)) \/ Len(pulls) = MaxPulls
  /\ Finish(c)
  /\ UNCHANGED <<req, passed, prom, github, disk, good>>

PrOpened(c) ==
  /\ pc[c] = "opened"
  /\ prom' = Updated(c, "PR_OPEN")
  /\ Finish(c)
  /\ UNCHANGED <<req, passed, github, disk, good>>

\* People at GitHub: what is merged is the branch's head of that moment.
Merge(n) ==
  /\ pulls[n].state = "open"
  /\ pulls' = [pulls EXCEPT ![n] = [@ EXCEPT !.state = "merged", !.head = branch[pulls[n].req]]]
  /\ UNCHANGED <<req, passed, prom, branch, revert, disk, lease, pc, loc, good>>

Decline(n) ==
  /\ pulls[n].state = "open"
  /\ pulls' = [pulls EXCEPT ![n].state = "closed"]
  /\ UNCHANGED <<req, passed, prom, branch, revert, disk, lease, pc, loc, good>>

\* (mutated) the merged head is not compared with the candidate
ObserveMerge_AnyHead(c, p) ==
  /\ Command(c, p, "merged", {"PR_OPEN"})
  /\ pulls[prom[p].pull].state = "merged"
  /\ UNCHANGED <<req, passed, prom, github, disk, good>>

ObserveMerge(c, p) ==
  /\ Command(c, p, "merged", {"PR_OPEN"})
  /\ pulls[prom[p].pull].state = "merged"
  /\ pulls[prom[p].pull].head = prom[p].head
  /\ UNCHANGED <<req, passed, prom, github, disk, good>>

MergeObserved(c) ==
  /\ pc[c] = "merged"
  /\ prom' = Updated(c, "MERGED")
  /\ Finish(c)
  /\ UNCHANGED <<req, passed, github, disk, good>>

-----------------------------------------------------------------------------
(* run_canary.                                                             *)

\* git worktree add refuses a path that exists.
RunCanary(c, p) ==
  /\ Command(c, p, "canary_row", {"MERGED"})
  /\ p \notin sandbox
  /\ sandbox' = sandbox \cup {p}
  /\ UNCHANGED <<req, passed, prom, github, releases, link, good>>

CanaryStarts(c) ==
  /\ pc[c] = "canary_row"
  /\ prom' = Updated(c, "CANARY")
  /\ Goto(c, "profiles")
  /\ UNCHANGED <<req, passed, github, disk, lease, loc, good>>

\* The profiles; the worktree is removed whatever happens.
Profiles(c, pass) ==
  /\ pc[c] = "profiles"
  /\ sandbox' = sandbox \ {Mine(c)}
  /\ good' = IF pass THEN good \cup {Mine(c)} ELSE good
  /\ Goto(c, IF pass THEN "release" ELSE "canary_fails")
  /\ UNCHANGED <<req, passed, prom, github, releases, link, lease, loc>>

\* (mutated) auto_rollback_on_canary_failure goes on to the release
CanaryFails_GoesOn(c) ==
  /\ pc[c] = "canary_fails"
  /\ prom' = Updated(c, "FAILED")
  /\ Goto(c, "release")
  /\ UNCHANGED <<req, passed, github, disk, lease, loc, good>>

\* promotion_canary_failed; the rollback is part of the command.
CanaryFails(c) ==
  /\ pc[c] = "canary_fails"
  /\ prom' = Updated(c, "FAILED")
  /\ loc' = [loc EXCEPT ![c].row.status = "FAILED"]
  /\ Goto(c, "restore")
  /\ UNCHANGED <<req, passed, github, disk, lease, good>>

\* The release worktree, unless its path exists.
Release(c) ==
  /\ pc[c] = "release"
  /\ releases' = releases \cup {Mine(c)}
  /\ Goto(c, "switch")
  /\ UNCHANGED <<req, passed, prom, github, link, sandbox, lease, loc, good>>

\* Nothing handles a failing git worktree add here.
ReleaseFails(c) ==
  /\ "git" \in regime.faults /\ pc[c] = "release"
  /\ Finish(c)
  /\ UNCHANGED <<req, passed, prom, github, disk, good>>

\* os.replace of a fresh symlink.
Switch(c) ==
  /\ pc[c] = "switch"
  /\ link' = Mine(c)
  /\ Goto(c, "active_row")
  /\ UNCHANGED <<req, passed, prom, github, releases, sandbox, lease, loc, good>>

\* promotion_activated.
Activated(c) ==
  /\ pc[c] = "active_row"
  /\ prom' = Updated(c, "ACTIVE")
  /\ Goto(c, "close")
  /\ UNCHANGED <<req, passed, github, disk, lease, loc, good>>

\* request_closed, in whatever phase the request is.
Closes(c) ==
  /\ pc[c] = "close"
  /\ req' = [req EXCEPT ![RequestOf(c)].phase = "CLOSED"]
  /\ Finish(c)
  /\ UNCHANGED <<passed, prom, github, disk, good>>

-----------------------------------------------------------------------------
(* rollback.                                                               *)

\* The last-known-good release is the one that was active at preparation.
RollBack(c, p) ==
  /\ Command(c, p, "restore", {"ACTIVE", "FAILED", "CANARY"})
  /\ MayRollBack(p)
  /\ prom[p].status = "ACTIVE" => prom[p].prev # NoRelease
  /\ UNCHANGED <<req, passed, prom, github, disk, good>>

\* (mutated) the link is left to the failed release
Restore_Forgotten(c) ==
  /\ pc[c] = "restore"
  /\ link' = link
  /\ Goto(c, "rolled_back")
  /\ UNCHANGED <<req, passed, prom, github, releases, sandbox, lease, loc, good>>

\* The link is switched even if the promotion never got that far.
Restore(c) ==
  /\ pc[c] = "restore"
  /\ link' = IF loc[c].row.prev = NoRelease THEN link ELSE loc[c].row.prev
  /\ Goto(c, "rolled_back")
  /\ UNCHANGED <<req, passed, prom, github, releases, sandbox, lease, loc, good>>

\* The row, the rollback intent and promotion_rolled_back.
RolledBack(c) ==
  /\ pc[c] = "rolled_back"
  /\ prom' = Updated(c, "ROLLED_BACK")
  /\ Goto(c, "close")
  /\ UNCHANGED <<req, passed, github, disk, lease, loc, good>>

-----------------------------------------------------------------------------
(* open_revert_pull_request.                                               *)

\* The row has a merge_sha, which it keeps in every later status.
MergedBy(p) == prom[p].pull # 0 /\ pulls[prom[p].pull].state = "merged"

\* git worktree add -b refuses a branch that exists.
OpenRevert(c, p) ==
  /\ Command(c, p, "revert", {"ROLLED_BACK"})
  /\ MergedBy(p) /\ revert[p] = "none"
  /\ revert' = [revert EXCEPT ![p] = "branch"]
  /\ UNCHANGED <<req, passed, prom, branch, pulls, disk, good>>

\* git revert, push, gh pr create, and the row.
RevertOpened(c) ==
  /\ pc[c] = "revert"
  /\ revert' = [revert EXCEPT ![Mine(c)] = "open"]
  /\ prom' = Updated(c, "ROLLED_BACK")
  /\ Finish(c)
  /\ UNCHANGED <<req, passed, branch, pulls, disk, good>>

\* A conflict, or GitHub refuses: the worktree goes, the branch stays.
RevertFails(c) ==
  /\ "git" \in regime.faults /\ pc[c] = "revert"
  /\ Finish(c)
  /\ UNCHANGED <<req, passed, prom, github, disk, good>>

-----------------------------------------------------------------------------
(* Faults.                                                                 *)

Crash(c) ==
  /\ "crash" \in regime.faults /\ pc[c] # "idle"
  /\ Goto(c, "idle")
  /\ loc' = [loc EXCEPT ![c] = Idle]
  /\ lease' = [r \in Requests |-> IF lease[r] = c THEN Ghost ELSE lease[r]]
  /\ UNCHANGED <<req, passed, prom, github, disk, good>>

\* A canary that runs longer than the lease timeout goes on without it.
LeaseExpires(r) ==
  /\ "theft" \in regime.faults /\ lease[r] \in Procs
  /\ lease' = [lease EXCEPT ![r] = Ghost]
  /\ UNCHANGED <<req, passed, prom, github, disk, pc, loc, good>>

Starts(c) ==
  \/ \E p \in Proms, r \in Requests : Prepare(c, p, r)
  \/ \E p \in Proms : \/ OpenPr(c, p) \/ ObserveMerge(c, p) \/ RunCanary(c, p)
                      \/ RollBack(c, p) \/ OpenRevert(c, p)

Step(c) ==
  \/ Receipt(c) \/ Push(c) \/ CreatePr(c) \/ CreateRefused(c) \/ PrOpened(c) \/ MergeObserved(c)
  \/ CanaryStarts(c) \/ (\E pass \in BOOLEAN : Profiles(c, pass))
  \/ CanaryFails(c) \/ Release(c) \/ Switch(c) \/ Activated(c) \/ Closes(c)
  \/ Restore(c) \/ RolledBack(c) \/ RevertOpened(c)

Next ==
  /\ \/ \E c \in Procs : Starts(c) \/ Step(c) \/ Crash(c) \/ ReleaseFails(c) \/ RevertFails(c)
     \/ \E r \in Requests : \/ Reopen(r) \/ CloseRequest(r) \/ Reverify(r) \/ Edit(r)
                            \/ PrepareReopens(r) \/ LeaseExpires(r)
     \/ \E n \in DOMAIN pulls : Merge(n) \/ Decline(n)
  /\ UNCHANGED regime

Spec == Init /\ [][Next]_vars

-----------------------------------------------------------------------------
(* Properties.                                                             *)

Pulls == [req : Requests, state : {"open", "merged", "closed"}, head : Heads]

Labels == {"idle", "receipt", "push", "create", "opened", "merged", "canary_row",
           "profiles", "canary_fails", "release", "switch", "active_row", "close",
           "restore", "rolled_back", "revert"}

\* Every row and every command's memory has its type.
TypeOK ==
  /\ req \in [Requests -> [phase : {"ACTIVE", "VERIFIED", "CLOSED"},
                           candidate : Heads, verified : Heads]]
  /\ passed \in [Requests -> SUBSET Heads]
  /\ prom \in [Proms -> Rows \cup {None}]
  /\ branch \in [Requests -> Heads]
  /\ pulls \in Seq(Pulls)
  /\ Len(pulls) <= MaxPulls
  /\ revert \in [Proms -> {"none", "branch", "open"}]
  /\ releases \subseteq Proms \cup {Base}
  /\ link \in Proms \cup {Base, NoRelease}
  /\ sandbox \subseteq Proms /\ good \subseteq Proms
  /\ lease \in [Requests -> Procs \cup {Nobody, Ghost}]
  /\ pc \in [Procs -> Labels]
  /\ loc \in [Procs -> [prom : Proms \cup {None}, row : Rows \cup {None}]]

NoFaults   == regime.faults \subseteq {"edit", "git"}
LeasesHold == "theft" \notin regime.faults

\* The active release was active from the start or passed its canary, and
\* its directory exists, whatever crashed, overlapped or lost its lease, and
\* however often rollbacks restored what an earlier preparation read.
ActivePassedCanary ==
  link \in (good \cap releases) \cup {regime.first}

\* A promotion that observed its merge was merged with the very commit that
\* passed a full check, even when later promotions of the request pushed
\* other commits to the branch of the open pull request.
MergedWasVerified ==
  \A p \in Proms : Status(p) \in Statuses \ {"PREPARED", "PR_OPEN"} =>
    /\ pulls[prom[p].pull] =
         [req |-> prom[p].req, state |-> "merged", head |-> prom[p].head]
    /\ prom[p].head \in passed[prom[p].req]

\* Where promotions follow one another, the link shows the newest promotion
\* that is active, also after failed canaries and rollbacks: an
\* active promotion is the link's target or the one before another active one.
Above(p) == {q \in Proms : Status(q) = "ACTIVE" /\ prom[q].prev = p}

LatestStaysActive ==
  /\ ~ regime.overlap /\ NoFaults
  /\ \A p \in Proms : Status(p) \notin {"CANARY", "FAILED"}
  /\ \A c \in Procs : pc[c] # "rolled_back"
  => /\ \A p \in Proms : Status(p) = "ACTIVE" => link = p \/ Above(p) # {}
     /\ link \in Proms => Status(link) = "ACTIVE"

\* A promotion that was rolled back stays rolled back: no canary that is
\* still running makes its row active again.
RolledBackIsFinal ==
  [][\A p \in Proms : LeasesHold /\ Status(p) = "ROLLED_BACK" => Status(p)' = "ROLLED_BACK"]_vars

\* The request of a promotion that ended is closed, unless the command died.
EndedIsClosed ==
  NoFaults => \A p \in Proms : Status(p) \in {"ACTIVE", "ROLLED_BACK"} =>
    \/ req[prom[p].req].phase = "CLOSED"
    \/ \E c \in Procs : Mine(c) = p

\* No canary is left alone: only a crash, or a release directory that cannot
\* be made, leaves a promotion in CANARY without a command that ends it.
CanaryIsRun ==
  regime.faults \subseteq {"edit"} => \A p \in Proms : Status(p) = "CANARY" =>
    \E c \in Procs : Mine(c) = p /\ pc[c] \in
      {"profiles", "canary_fails", "release", "switch", "active_row", "restore", "rolled_back"}

\* Link, rows and requests agree: the link shows the newest active promotion,
\* one that ended has closed its request, and one in CANARY is being ended.
LinkAndRowsAgree == LatestStaysActive /\ EndedIsClosed /\ CanaryIsRun

\* The inductive invariant of PromotionProofs.  A row may be an old copy in
\* the hands of a command, so what is said of rows is said of copies too.
Known(x) == x \in (good \cap releases) \cup {regime.first}

MergedRow(row) ==
  pulls[row.pull] = [req |-> row.req, state |-> "merged", head |-> row.head]

RowSound(row) ==
  /\ row.head \in passed[row.req]
  /\ Known(row.prev)
  /\ row.pull # 0 => row.pull \in DOMAIN pulls /\ pulls[row.pull].req = row.req
  /\ row.status # "PREPARED" => row.pull # 0
  /\ row.status \notin {"PREPARED", "PR_OPEN"} => MergedRow(row)

BeforeOpen == {"receipt", "push", "create"}
AfterMerge == {"merged", "canary_row", "profiles", "canary_fails", "release", "switch",
               "active_row", "restore", "rolled_back", "revert"}

LocalSound(c) ==
  pc[c] # "idle" =>
    /\ Mine(c) \in Proms /\ loc[c].row \in Rows
    /\ RowSound(loc[c].row)
    /\ pc[c] \in BeforeOpen => loc[c].row.status = "PREPARED"
    /\ pc[c] = "opened" => loc[c].row.pull # 0
    /\ pc[c] \in AfterMerge => loc[c].row.pull # 0 /\ MergedRow(loc[c].row)
    /\ pc[c] \in {"release", "switch"} => Mine(c) \in good
    /\ pc[c] = "switch" => Mine(c) \in releases

IInv ==
  /\ TypeOK
  /\ Known(link)
  /\ \A r \in Requests : req[r].verified \in passed[r]
  /\ \A p \in Proms : Prepared(p) => RowSound(prom[p])
  /\ \A c \in Procs : LocalSound(c)

\* "Canary fails -> active pointer stays/restores last-known-good and rollback
\* evidence is preserved" (operator-governance-policy.md): the rollback of a
\* promotion that was never active takes no other release out of service.
CanaryFailureKeepsRelease ==
  [][\A c \in Procs : Restore(c) /\ loc[c].row.status = "FAILED" => link' = link]_vars
=============================================================================
