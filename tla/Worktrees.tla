----------------------------- MODULE Worktrees -----------------------------
(***************************************************************************)
(* The worktrees of the agents (bin/gac/gac-worktree.sh) and the ledger of *)
(* branch claims beside them (D2 of bin/gac/swarm_discipline.py).          *)
(*                                                                         *)
(* A session claims agent/<actor>/<session>, gets a worktree on it, works, *)
(* and releases or merges it, one command at a time.  Three things go on   *)
(* around it without its lock: the release of another session purges       *)
(* orphaned claims, claim_gc drops old ones, and cleanup removes idle      *)
(* worktrees.  Any command may die between two of its steps.               *)
(*                                                                         *)
(* git and GitHub are what the script sees of them: local and remote refs, *)
(* open pull requests, and how far the commits of a branch have come.      *)
(***************************************************************************)
EXTENDS FiniteSets

CONSTANTS
  Sessions,   \* all of them use the ledger of claims,
  Builders,   \* these also have worktrees
  Actors,
  Fetched,    \* branches of other clones, under refs/remotes/origin only
  None        \* no claim, no worktree, no branch, nothing condemned

Branch == [actor : Actors, session : Builders]

ASSUME BuildersAssumption == Builders \subseteq Sessions
ASSUME FetchedAssumption == Fetched \subseteq Branch

VARIABLES
  claim,      \* claim[s]: the branch in branch-claims/<s>.json
  heads,      \* refs/heads
  work,       \* work[b]: what has become of the commits on b
  prs,        \* the branches with an open pull request
  tree,       \* tree[s]: the worktree ws-<s>
  guard,      \* the sessions whose .lifecycle-lock directory exists
  op,         \* op[s]: the command of the session that is running
  gc,         \* the claim that claim_gc has found old
  sweep,      \* the worktree that cleanup is looking at
  dropped     \* history: the sessions whose running release has dropped their
              \* claim and which have claimed nothing since

git == <<heads, work, prs>>
vars == <<claim, git, tree, guard, op, gc, sweep, dropped>>

----------------------------------------------------------------------------
Tree == [branch : Branch, dirty : BOOLEAN]

(* A command, how far it has come, the branch it is about, and the session *)
(* whose claim file it is about to purge.                                  *)
Op == [cmd : {"claim", "release", "merge"},
       at : {"registered", "unclaimed", "kept", "merged", "checked", "removed", "deleted"},
       branch : Branch \cup {None}, orphan : Sessions \cup {None}]

ASSUME NoneAssumption == None \notin Sessions \cup Branch \cup Tree \cup Op

Running(s, cmd, at) == op[s] # None /\ op[s].cmd = cmd /\ op[s].at = at
Enter(s, cmd, at, b) ==
  op' = [op EXCEPT ![s] = [cmd |-> cmd, at |-> at, branch |-> b, orphan |-> None]]
Leave(s) ==
  /\ op' = [op EXCEPT ![s] = None]
  /\ dropped' = dropped \ {s}

Clean(s) == tree[s] # None /\ ~tree[s].dirty

(* for-each-ref prints origin/<branch> for a remote ref and the code looks *)
(* for remotes/origin/<branch>: only a local ref is ever found.            *)
BranchExists(b) == b \in heads

HeldByAnother(b, s) == \E u \in Sessions \ {s} : claim[u] = b
HasActiveClaim(b) == \E u \in Sessions : claim[u] = b

(* resolve_branch_for: the claim's branch, else work/<s>, which no command *)
(* creates any more; merge then looks for one agent/*/<s>.                 *)
Resolved(s) == IF claim[s] # None THEN {claim[s]} ELSE {}
MergeBranch(s) ==
  IF Resolved(s) \cap heads # {} THEN Resolved(s)
  ELSE LET own == {b \in heads : b.session = s}
       IN IF Cardinality(own) = 1 THEN own ELSE Resolved(s)

Init ==
  /\ claim = [s \in Sessions |-> None]
  /\ heads = {}
  /\ work = [b \in Branch |-> "none"]
  /\ prs = {}
  /\ tree = [s \in Sessions |-> None]
  /\ guard = {}
  /\ op = [s \in Sessions |-> None]
  /\ gc = None
  /\ sweep = None
  /\ dropped = {}

----------------------------------------------------------------------------
(* The ledger *)

BadRegister(s, b) ==                \* the holder is not looked up
  /\ claim' = [claim EXCEPT ![s] = b]
  /\ dropped' = dropped \ {s}

(* acquire_branch_lock, under flock: a claim of the session on whatever    *)
(* branch is overwritten, the claim of another on this branch is respected.*)
Register(s, b) ==
  /\ ~HeldByAnother(b, s)
  /\ claim' = [claim EXCEPT ![s] = b]
  /\ dropped' = dropped \ {s}

(* branch-claim from the command line, for any branch.                     *)
RegisterByHand(s, b) ==
  /\ Register(s, b)
  /\ UNCHANGED <<git, tree, guard, op, gc, sweep>>

(* branch-release drops the session's own claim first. Where it fails, its *)
(* callers go on: the claim is kept and nothing is purged.                 *)
BranchRelease(s, cmd) ==
  /\ claim' = [claim EXCEPT ![s] = None]
  /\ Enter(s, cmd, "unclaimed", None)

(* It then reads every other claim and judges it by its branch ...         *)
PurgeJudge(s, u) ==
  /\ op[s] # None /\ op[s].at = "unclaimed" /\ op[s].orphan = None
  /\ claim[u] # None /\ ~BranchExists(claim[u])
  /\ op' = [op EXCEPT ![s].orphan = u]
  /\ UNCHANGED <<claim, git, tree, guard, gc, sweep, dropped>>

(* ... and deletes the file, whatever is in it by now.                     *)
PurgeUnlink(s) ==
  /\ op[s] # None /\ op[s].orphan # None
  /\ claim' = [claim EXCEPT ![op[s].orphan] = None]
  /\ op' = [op EXCEPT ![s].orphan = None]
  /\ UNCHANGED <<git, tree, guard, gc, sweep, dropped>>

(* claim_gc reads a claim and finds it older than its ttl (any amount of   *)
(* time may have passed since it was written) ...                          *)
GcRead(u) ==
  /\ gc = None
  /\ claim[u] # None
  /\ gc' = [file |-> u, branch |-> claim[u]]
  /\ UNCHANGED <<claim, git, tree, guard, op, sweep, dropped>>

(* ... asks GitHub for an open pull request of the branch, and deletes the *)
(* file unless one is named: when there is none, and when gh fails.        *)
GcUnlink ==
  /\ gc # None
  /\ \/ gc.branch \in prs /\ UNCHANGED claim
     \/ claim' = [claim EXCEPT ![gc.file] = None]
  /\ gc' = None
  /\ UNCHANGED <<git, tree, guard, op, sweep, dropped>>

----------------------------------------------------------------------------
(* gac-worktree.sh claim *)

(* The lifecycle guard and the claim come before the worktree.             *)
ClaimStart(s, a) ==
  LET b == [actor |-> a, session |-> s]
  IN /\ op[s] = None /\ s \notin guard
     /\ Register(s, b)
     /\ guard' = guard \cup {s}
     /\ Enter(s, "claim", "registered", b)
     /\ UNCHANGED <<git, tree, gc, sweep>>

(* git worktree add -b, after a fetch that may take minutes.               *)
ClaimAddTree(s) ==
  /\ Running(s, "claim", "registered")
  /\ tree[s] = None /\ op[s].branch \notin heads
  /\ heads' = heads \cup {op[s].branch}
  /\ work' = [work EXCEPT ![op[s].branch] = "none"]
  /\ tree' = [tree EXCEPT ![s] = [branch |-> op[s].branch, dirty |-> FALSE]]
  /\ guard' = guard \ {s}
  /\ Leave(s)
  /\ UNCHANGED <<claim, prs, gc, sweep>>

(* The worktree is there already; or the branch is there without it, or    *)
(* the fetch fails, and the command gives up.  The claim stays.            *)
ClaimLeave(s) ==
  /\ Running(s, "claim", "registered")
  /\ guard' = guard \ {s}
  /\ Leave(s)
  /\ UNCHANGED <<claim, git, tree, gc, sweep>>

----------------------------------------------------------------------------
(* The agent at work *)

Edit(s) ==
  /\ Clean(s)
  /\ tree' = [tree EXCEPT ![s].dirty = TRUE]
  /\ UNCHANGED <<claim, git, guard, op, gc, sweep, dropped>>

Commit(s) ==
  /\ tree[s] # None /\ tree[s].dirty
  /\ tree' = [tree EXCEPT ![s].dirty = FALSE]
  /\ work' = [work EXCEPT ![tree[s].branch] = "local"]
  /\ UNCHANGED <<claim, heads, prs, guard, op, gc, sweep, dropped>>

(* Push and open a pull request (or push to the one that is open).         *)
Push(s) ==
  /\ tree[s] # None /\ work[tree[s].branch] = "local"
  /\ work' = [work EXCEPT ![tree[s].branch] = "pushed"]
  /\ prs' = prs \cup {tree[s].branch}
  /\ UNCHANGED <<claim, heads, tree, guard, op, gc, sweep, dropped>>

----------------------------------------------------------------------------
(* gac-worktree.sh release *)

(* (branch-release fails and there is no worktree: nothing happens.)       *)
ReleaseStart(s) ==
  /\ op[s] = None
  /\ \/ BranchRelease(s, "release") /\ dropped' = dropped \cup {s}
     \/ /\ tree[s] # None /\ Enter(s, "release", "kept", None)
        /\ UNCHANGED <<claim, dropped>>
  /\ UNCHANGED <<git, tree, guard, gc, sweep>>

(* branch-release is over, whether it dropped the claim or failed.         *)
PastLedger(s) ==
  (Running(s, "release", "unclaimed") \/ Running(s, "release", "kept")) /\ op[s].orphan = None

(* No worktree, or a dirty one: nothing more is done.  (branch-release     *)
(* from the command line ends here too.)                                   *)
ReleaseRefuse(s) ==
  /\ PastLedger(s)
  /\ ~Clean(s)
  /\ Leave(s)
  /\ UNCHANGED <<claim, git, tree, guard, gc, sweep>>

ReleaseCheck(s) ==
  /\ PastLedger(s)
  /\ Clean(s)
  /\ Enter(s, "release", "checked", tree[s].branch)
  /\ UNCHANGED <<claim, git, tree, guard, gc, sweep, dropped>>

(* git worktree remove --force, here and in merge.                         *)
RemoveTree(s) ==
  /\ op[s] # None /\ op[s].at = "checked"
  /\ tree' = [tree EXCEPT ![s] = None]
  /\ Enter(s, op[s].cmd, "removed", op[s].branch)
  /\ UNCHANGED <<claim, git, guard, gc, sweep, dropped>>

(* git branch -D refuses a branch that a worktree has checked out.         *)
DeleteHeads(bs) ==
  LET deleted == {b \in bs : \A s \in Sessions : tree[s] = None \/ tree[s].branch # b}
  IN /\ heads' = heads \ deleted
     /\ work' = [b \in Branch |-> IF b \in deleted THEN "none" ELSE work[b]]

BadReleaseBranch(s) ==              \* the branch is looked up before the claim is dropped
  /\ Running(s, "release", "removed")
  /\ DeleteHeads({op[s].branch} \cap heads)
  /\ Leave(s)
  /\ UNCHANGED <<claim, prs, tree, guard, gc, sweep>>

(* The branch is looked up in the claim. git log --oneline --not           *)
(* origin/main <branch> is to tell whether it has commits outside main;    *)
(* --not negates both, the output is always empty, and a branch that is    *)
(* found is deleted with whatever is on it.                                *)
ReleaseBranch(s) ==
  /\ Running(s, "release", "removed")
  /\ DeleteHeads(Resolved(s) \cap heads)
  /\ Leave(s)
  /\ UNCHANGED <<claim, prs, tree, guard, gc, sweep>>

----------------------------------------------------------------------------
(* gac-worktree.sh merge *)

(* gh pr merge --squash: what was pushed lands on main.                    *)
MergePr(s, b) ==
  /\ op[s] = None /\ Clean(s)
  /\ b \in MergeBranch(s) \cap prs
  /\ prs' = prs \ {b}
  /\ work' = [work EXCEPT ![b] = IF @ = "pushed" THEN "landed" ELSE @]
  /\ Enter(s, "merge", "merged", b)
  /\ UNCHANGED <<claim, heads, tree, guard, gc, sweep, dropped>>

MergeCheck(s) ==
  /\ Running(s, "merge", "merged")
  /\ \/ Clean(s) /\ Enter(s, "merge", "checked", op[s].branch) /\ UNCHANGED dropped
     \/ ~Clean(s) /\ Leave(s)
  /\ UNCHANGED <<claim, git, tree, guard, gc, sweep>>

(* git branch -D ...                                                       *)
MergeBranchAway(s) ==
  /\ Running(s, "merge", "removed")
  /\ DeleteHeads({op[s].branch})
  /\ Enter(s, "merge", "deleted", None)
  /\ UNCHANGED <<claim, prs, tree, guard, gc, sweep, dropped>>

(* ... and then branch-release, with which merge ends.                     *)
MergeUnclaim(s) ==
  /\ Running(s, "merge", "deleted")
  /\ \/ BranchRelease(s, "merge") /\ UNCHANGED dropped
     \/ Leave(s) /\ UNCHANGED claim
  /\ UNCHANGED <<git, tree, guard, gc, sweep>>

MergeEnd(s) ==
  /\ Running(s, "merge", "unclaimed") /\ op[s].orphan = None
  /\ Leave(s)
  /\ UNCHANGED <<claim, git, tree, guard, gc, sweep>>

(* The command is killed: no trap runs, a lifecycle guard stays.           *)
Die(s) ==
  /\ op[s] # None
  /\ Leave(s)
  /\ UNCHANGED <<claim, git, tree, guard, gc, sweep>>

----------------------------------------------------------------------------
(* gac-worktree.sh cleanup: the claim of an idle worktree's branch, then   *)
(* git status, then git worktree remove --force.  The branch it deletes is *)
(* work/<s>: those of this model stay.                                     *)

SweepClaimGate(s) ==
  /\ sweep = None
  /\ tree[s] # None /\ ~HasActiveClaim(tree[s].branch)
  /\ sweep' = [session |-> s, gate |-> "unclaimed"]
  /\ UNCHANGED <<claim, git, tree, guard, op, gc, dropped>>

SweepStatusGate ==
  /\ sweep # None /\ sweep.gate = "unclaimed"
  /\ sweep' = IF Clean(sweep.session) THEN [sweep EXCEPT !.gate = "clean"] ELSE None
  /\ UNCHANGED <<claim, git, tree, guard, op, gc, dropped>>

SweepRemove ==
  /\ sweep # None /\ sweep.gate = "clean"
  /\ tree' = [tree EXCEPT ![sweep.session] = None]
  /\ sweep' = None
  /\ UNCHANGED <<claim, git, guard, op, gc, dropped>>

----------------------------------------------------------------------------
Next ==
  \/ \E s \in Sessions :
       \/ \E b \in Branch : RegisterByHand(s, b)
       \/ \E u \in Sessions : PurgeJudge(s, u)
       \/ PurgeUnlink(s)
       \/ GcRead(s)
       \/ ReleaseStart(s) \/ ReleaseRefuse(s)
       \/ Die(s)
  \/ \E s \in Builders :
       \/ \E a \in Actors : ClaimStart(s, a)
       \/ ClaimAddTree(s) \/ ClaimLeave(s)
       \/ Edit(s) \/ Commit(s) \/ Push(s)
       \/ ReleaseCheck(s) \/ RemoveTree(s) \/ ReleaseBranch(s)
       \/ \E b \in Branch : MergePr(s, b)
       \/ MergeCheck(s) \/ MergeBranchAway(s) \/ MergeUnclaim(s) \/ MergeEnd(s)
       \/ SweepClaimGate(s)
  \/ GcUnlink
  \/ SweepStatusGate
  \/ SweepRemove

Spec == Init /\ [][Next]_vars

----------------------------------------------------------------------------
TypeOK ==
  /\ claim \in [Sessions -> Branch \cup {None}]
  /\ heads \subseteq Branch /\ prs \subseteq Branch
  /\ work \in [Branch -> {"none", "local", "pushed", "landed"}]
  /\ tree \in [Sessions -> Tree \cup {None}]
  /\ \A s \in Sessions : tree[s] # None => tree[s].branch.session = s
  /\ guard \subseteq Sessions
  /\ op \in [Sessions -> Op \cup {None}]
  /\ gc \in [file : Sessions, branch : Branch] \cup {None}
  /\ sweep \in [session : Sessions, gate : {"unclaimed", "clean"}] \cup {None}
  /\ dropped \subseteq Sessions

(* Whatever is purged, collected or taken back meanwhile, two sessions     *)
(* never hold claims on one branch. (The type invariant, which has every   *)
(* worktree on a branch of its own session, is the first part of it.)      *)
OneSessionPerBranch ==
  /\ TypeOK
  /\ \A s, u \in Sessions :
       s # u /\ claim[s] # None /\ claim[u] # None => claim[s] # claim[u]

(* A release whose session has claimed nothing since deletes no branch     *)
(* with commits that are not on main. The test for such commits does not   *)
(* work (line 1188); what keeps the work is that the release drops the     *)
(* claim before it looks the branch up in it (1159, 1186), and that nobody *)
(* gives a session its claim back but the session itself.                  *)
ReleaseKeepsUnmergedWork ==
  [][\A s \in dropped :
       Running(s, "release", "removed") /\ op'[s] # op[s]
         => \A b \in heads \ heads' : work[b] \in {"none", "landed"}]_vars

(* "merged into main: delete, else keep": whatever a release finds, no     *)
(* branch it deletes has commits that are not on main.                     *)
UnmergedWorkIsKept ==
  [][\A s \in Builders :
       Running(s, "release", "removed") /\ op'[s] # op[s]
         => \A b \in heads \ heads' : work[b] \in {"none", "landed"}]_vars

(* "prevents a claim from staying after its session exited abnormally":    *)
(* what a release purges is an orphan, not the claim of a session that is  *)
(* being set up.                                                           *)
PurgeSparesClaimants ==
  [][\A s, u \in Sessions :
       op'[s] # None /\ op'[s].orphan = u /\ op[s].orphan = None
         => ~Running(u, "claim", "registered")]_vars

(* "the branch still exists in local or remote refs": a claim on a branch  *)
(* that has either is not taken for an orphan.                             *)
PurgeKeepsBranchesWithRefs ==
  [][\A s, u \in Sessions :
       op'[s] # None /\ op'[s].orphan = u /\ op[s].orphan = None
         => claim[u] \notin heads \cup Fetched]_vars

(* "claimed_at + ttl < now": claim_gc deletes no claim that was written    *)
(* after it judged the file (as one on another branch was).                *)
GcSparesFreshClaims ==
  [][\A u \in Sessions :
       gc # None /\ gc' = None /\ gc.file = u /\ claim[u] # None /\ claim'[u] = None
         => claim[u] = gc.branch]_vars

(* "merged into main: delete, else keep": a release leaves no branch of    *)
(* which all commits are on main.                                          *)
ReleaseDeletesMerged ==
  [][\A s \in Sessions :
       Running(s, "release", "removed") /\ op'[s] # None
       /\ work[op[s].branch] \in {"none", "landed"}
         => op[s].branch \notin heads']_vars

(* "the worktree must have been submitted (push and pull request)": merge  *)
(* deletes a branch only when every commit on it has been pushed.          *)
MergeDeletesPushedWork ==
  [][\A b \in heads \ heads' : work[b] # "local"]_vars

(* "skip what has uncommitted changes, so that no work is lost": no        *)
(* worktree with uncommitted changes is removed.                           *)
DirtyTreesAreKept ==
  [][\A s \in Sessions : tree[s] # None /\ tree[s].dirty => tree'[s] # None]_vars
=============================================================================
