------------------------ MODULE SwarmDisciplineProofs ------------------------
(***************************************************************************)
(* Machine-checked proofs about the two disciplines: the branch claims of  *)
(* Worktrees (D2), for any sessions and actors, and the numbers of         *)
(* AdrClaims (D1), for any sessions and any bound of the numbers.          *)
(*                                                                         *)
(* D2: only Register writes a claim, and it looks for another holder of    *)
(* the branch and writes in one step, under flock; everything else around  *)
(* it - purges, claim_gc, releases, dying commands - only takes claims     *)
(* away.                                                                   *)
(*                                                                         *)
(* D1: that no two sessions hold one number rests on the lock. Claims are  *)
(* dropped without it but written only under it, so what the session that  *)
(* holds it has loaded still covers every claim that is left.              *)
(***************************************************************************)
EXTENDS AdrClaims, Worktrees, TLAPS

Apart ==
  \A s, u \in Sessions :
    s # u /\ claim[s] # None /\ claim[u] # None => claim[s] # claim[u]

(* A session that is being set up is given a branch of its own.            *)
OwnBranch ==
  \A s \in Sessions : Running(s, "claim", "registered") =>
    op[s].branch \in Branch /\ op[s].branch.session = s

(* Claims that are taken away leave the others apart.                      *)
Fewer ==
  \A s \in Sessions : claim'[s] # None => claim'[s] = claim[s]

LEMMA FewerApart ==
  ASSUME Apart, Fewer
  PROVE  Apart'
BY DEF Apart, Fewer

(* A command of the session enters a step with a well-typed record.        *)
LEMMA OpTypes ==
  ASSUME TypeOK, NEW s \in Sessions,
         \/ \E cmd \in {"claim", "release", "merge"},
               at \in {"registered", "unclaimed", "kept", "merged", "checked", "removed",
                       "deleted"},
               b \in Branch \cup {None} : Enter(s, cmd, at, b)
         \/ Leave(s) \/ UNCHANGED op
  PROVE  op' \in [Sessions -> Op \cup {None}]
BY DEF TypeOK, Enter, Leave, Op

(* branch-release drops the claim.                                         *)
LEMMA BranchReleaseKeeps ==
  ASSUME TypeOK, Apart, NEW s \in Sessions, NEW cmd \in {"release", "merge"}, BranchRelease(s, cmd)
  PROVE  /\ claim' \in [Sessions -> Branch \cup {None}]
         /\ op' \in [Sessions -> Op \cup {None}]
         /\ Apart'
<1>1. op' \in [Sessions -> Op \cup {None}] BY OpTypes DEF BranchRelease
<1>2. claim' \in [Sessions -> Branch \cup {None}] /\ Fewer
  BY DEF BranchRelease, Fewer, TypeOK
<1>3. QED BY <1>1, <1>2, FewerApart

(* The ledger's own commands.                                              *)
LEMMA LedgerKeeps ==
  ASSUME TypeOK, Apart, NEW s \in Sessions,
         \/ \E b \in Branch : RegisterByHand(s, b)
         \/ \E u \in Sessions : PurgeJudge(s, u)
         \/ PurgeUnlink(s) \/ GcRead(s) \/ GcUnlink
         \/ ReleaseStart(s) \/ ReleaseRefuse(s) \/ Die(s)
  PROVE  TypeOK' /\ Apart'
<1> USE NoneAssumption DEF TypeOK, git
<1>1. CASE \E b \in Branch : RegisterByHand(s, b)
  BY <1>1 DEF RegisterByHand, Register, HeldByAnother, Apart
<1>2. CASE \E u \in Sessions : PurgeJudge(s, u)
  <2>1. op' \in [Sessions -> Op \cup {None}] BY <1>2 DEF PurgeJudge, Op
  <2>2. QED BY <1>2, <2>1 DEF PurgeJudge, Apart
<1>3. CASE PurgeUnlink(s)
  <2>1. op' \in [Sessions -> Op \cup {None}] /\ op[s].orphan \in Sessions BY <1>3 DEF PurgeUnlink, Op
  <2>2. Fewer BY <1>3, <2>1 DEF PurgeUnlink, Fewer
  <2>3. QED BY <1>3, <2>1, <2>2, FewerApart DEF PurgeUnlink
<1>4. CASE GcRead(s) BY <1>4 DEF GcRead, Apart
<1>5. CASE GcUnlink
  <2>1. claim' \in [Sessions -> Branch \cup {None}] /\ Fewer BY <1>5 DEF GcUnlink, Fewer
  <2>2. QED BY <1>5, <2>1, FewerApart DEF GcUnlink
<1>6. CASE ReleaseStart(s)
  <2>1. UNCHANGED <<heads, work, prs, tree, guard, gc, sweep>> /\ dropped' \subseteq Sessions
    BY <1>6 DEF ReleaseStart
  <2>2. CASE BranchRelease(s, "release") BY <2>1, <2>2, BranchReleaseKeeps
  <2>3. CASE Enter(s, "release", "kept", None) /\ UNCHANGED claim
    BY <2>1, <2>3, OpTypes DEF Apart
  <2>4. QED BY <1>6, <2>2, <2>3 DEF ReleaseStart
<1>7. CASE ReleaseRefuse(s) \/ Die(s)
  BY <1>7, OpTypes DEF ReleaseRefuse, Die, Leave, Apart
<1>8. QED BY <1>1, <1>2, <1>3, <1>4, <1>5, <1>6, <1>7

(* The commands of the script that claims, releases and merges.            *)
LEMMA CommandKeeps ==
  ASSUME TypeOK, Apart, OwnBranch, NEW s \in Builders,
         \/ \E a \in Actors : ClaimStart(s, a)
         \/ ClaimAddTree(s) \/ ClaimLeave(s)
         \/ ReleaseCheck(s) \/ RemoveTree(s) \/ ReleaseBranch(s)
         \/ \E b \in Branch : MergePr(s, b)
         \/ MergeCheck(s) \/ MergeBranchAway(s) \/ MergeUnclaim(s) \/ MergeEnd(s)
  PROVE  TypeOK' /\ Apart'
<1> USE NoneAssumption, BuildersAssumption DEF TypeOK, git
<1>1. CASE \E a \in Actors : ClaimStart(s, a)
  <2>1. PICK a \in Actors : ClaimStart(s, a) BY <1>1
  <2>2. [actor |-> a, session |-> s] \in Branch BY DEF Branch
  <2>3. op' \in [Sessions -> Op \cup {None}] BY <2>1, <2>2, OpTypes DEF ClaimStart
  <2>4. QED BY <2>1, <2>2, <2>3 DEF ClaimStart, Register, HeldByAnother, Apart
<1>2. CASE ClaimAddTree(s)
  <2>1. op' \in [Sessions -> Op \cup {None}] BY <1>2, OpTypes DEF ClaimAddTree
  <2>2. op[s].branch \in Branch /\ op[s].branch.session = s BY <1>2 DEF ClaimAddTree, OwnBranch
  <2>3. QED BY <1>2, <2>1, <2>2 DEF ClaimAddTree, Leave, Tree, Apart
<1>3. CASE ClaimLeave(s) BY <1>3, OpTypes DEF ClaimLeave, Leave, Apart
<1>4. CASE ReleaseCheck(s)
  <2>1. op' \in [Sessions -> Op \cup {None}] BY <1>4, OpTypes DEF ReleaseCheck, Clean, Tree
  <2>2. QED BY <1>4, <2>1 DEF ReleaseCheck, Apart
<1>5. CASE RemoveTree(s)
  <2>1. op' \in [Sessions -> Op \cup {None}] BY <1>5, OpTypes DEF RemoveTree, Op
  <2>2. QED BY <1>5, <2>1 DEF RemoveTree, Apart
<1>6. CASE ReleaseBranch(s)
  <2>1. op' \in [Sessions -> Op \cup {None}] BY <1>6, OpTypes DEF ReleaseBranch, Running, Op
  <2>2. QED BY <1>6, <2>1 DEF ReleaseBranch, DeleteHeads, Leave, Apart
<1>7. CASE \E b \in Branch : MergePr(s, b)
  <2>1. PICK b \in Branch : MergePr(s, b) BY <1>7
  <2>2. op' \in [Sessions -> Op \cup {None}] BY <2>1, OpTypes DEF MergePr
  <2>3. QED BY <2>1, <2>2 DEF MergePr, Apart
<1>8. CASE MergeCheck(s)
  <2>1. op' \in [Sessions -> Op \cup {None}] BY <1>8, OpTypes DEF MergeCheck, Running, Op
  <2>2. QED BY <1>8, <2>1 DEF MergeCheck, Leave, Apart
<1>9. CASE MergeBranchAway(s)
  <2>1. op' \in [Sessions -> Op \cup {None}] BY <1>9, OpTypes DEF MergeBranchAway, Running, Op
  <2>2. QED BY <1>9, <2>1 DEF MergeBranchAway, DeleteHeads, Apart
<1>10. CASE MergeUnclaim(s)
  <2>1. UNCHANGED <<heads, work, prs, tree, guard, gc, sweep>> BY <1>10 DEF MergeUnclaim
  <2>2. CASE BranchRelease(s, "merge") /\ UNCHANGED dropped BY <2>1, <2>2, BranchReleaseKeeps
  <2>3. CASE Leave(s) /\ UNCHANGED claim BY <2>1, <2>3, OpTypes DEF Leave, Apart
  <2>4. QED BY <1>10, <2>2, <2>3 DEF MergeUnclaim
<1>11. CASE MergeEnd(s) BY <1>11, OpTypes DEF MergeEnd, Leave, Apart
<1>12. QED BY <1>1, <1>2, <1>3, <1>4, <1>5, <1>6, <1>7, <1>8, <1>9, <1>10, <1>11

(* The agents and the sweep.                                               *)
LEMMA OthersKeep ==
  ASSUME TypeOK, Apart,
         \/ \E s \in Builders : Edit(s) \/ Commit(s) \/ Push(s) \/ SweepClaimGate(s)
         \/ SweepStatusGate \/ SweepRemove
  PROVE  TypeOK' /\ Apart'
<1> USE NoneAssumption, BuildersAssumption DEF TypeOK, git
<1>1. ASSUME NEW s \in Builders, Edit(s) \/ Commit(s) PROVE TypeOK' /\ Apart'
  <2>1. tree[s] \in Tree BY <1>1 DEF Edit, Clean, Commit
  <2>2. \A d \in BOOLEAN : LET t == [tree[s] EXCEPT !.dirty = d]
                           IN t \in Tree /\ t.branch = tree[s].branch
    BY <2>1 DEF Tree
  <2>3. PICK d \in BOOLEAN : tree' = [tree EXCEPT ![s] = [tree[s] EXCEPT !.dirty = d]]
    BY <1>1 DEF Edit, Commit
  <2>4. /\ tree' \in [Sessions -> Tree \cup {None}]
        /\ \A u \in Sessions : tree'[u] # None => tree'[u].branch.session = u
    BY <2>1, <2>2, <2>3
  <2>5. work' \in [Branch -> {"none", "local", "pushed", "landed"}] BY <1>1 DEF Edit, Commit
  <2>6. QED BY <1>1, <2>4, <2>5 DEF Edit, Commit, Apart
<1>2. ASSUME NEW s \in Builders, Push(s) PROVE TypeOK' /\ Apart'
  BY <1>2 DEF Push, Tree, Apart
<1>3. ASSUME NEW s \in Builders, SweepClaimGate(s) PROVE TypeOK' /\ Apart'
  BY <1>3 DEF SweepClaimGate, Apart
<1>4. CASE SweepStatusGate
  <2>1. sweep' \in [session : Sessions, gate : {"unclaimed", "clean"}] \cup {None}
    BY <1>4 DEF SweepStatusGate
  <2>2. QED BY <1>4, <2>1 DEF SweepStatusGate, Apart
<1>5. CASE SweepRemove BY <1>5 DEF SweepRemove, Apart
<1>6. QED BY <1>1, <1>2, <1>3, <1>4, <1>5

(* The branch of a command that is under way does not change.              *)
LEMMA OwnBranchStays ==
  ASSUME TypeOK, OwnBranch, [Next]_vars
  PROVE  OwnBranch'
<1> SUFFICES ASSUME NEW u \in Sessions, Running(u, "claim", "registered")'
             PROVE  op'[u].branch \in Branch /\ op'[u].branch.session = u
  BY DEF OwnBranch
<1> USE NoneAssumption, BuildersAssumption DEF TypeOK, Running
<1>1. CASE op'[u] # None /\ op[u] # None /\ op'[u].cmd = op[u].cmd
           /\ op'[u].at = op[u].at /\ op'[u].branch = op[u].branch
  BY <1>1 DEF OwnBranch
<1>2. ASSUME NEW s \in Builders, NEW a \in Actors, ClaimStart(s, a)
      PROVE  op'[u].branch \in Branch /\ op'[u].branch.session = u
  BY <1>1, <1>2 DEF ClaimStart, Enter, Branch
<1>3. ASSUME NEW s \in Sessions, op' = [op EXCEPT ![s] = None]
      PROVE  op'[u].branch \in Branch /\ op'[u].branch.session = u
  BY <1>1, <1>3
<1>4. ASSUME NEW s \in Sessions, NEW cmd, NEW at, NEW b, at # "registered", Enter(s, cmd, at, b)
      PROVE  op'[u].branch \in Branch /\ op'[u].branch.session = u
  BY <1>1, <1>4 DEF Enter
<1>5. ASSUME NEW s \in Sessions, NEW o, op[s] # None, op' = [op EXCEPT ![s].orphan = o]
      PROVE  op'[u].branch \in Branch /\ op'[u].branch.session = u
  BY <1>1, <1>5 DEF Op
<1>6. CASE UNCHANGED op BY <1>1, <1>6
<1>7. CASE \E s \in Sessions :
             \/ \E b \in Branch : RegisterByHand(s, b)
             \/ \E v \in Sessions : PurgeJudge(s, v)
             \/ PurgeUnlink(s) \/ GcRead(s)
             \/ ReleaseStart(s) \/ ReleaseRefuse(s) \/ Die(s)
  BY <1>3, <1>4, <1>5, <1>6, <1>7
  DEF RegisterByHand, PurgeJudge, PurgeUnlink, GcRead, ReleaseStart, BranchRelease,
      ReleaseRefuse, Die, Leave
<1>8. CASE \E s \in Builders :
             \/ \E a \in Actors : ClaimStart(s, a)
             \/ ClaimAddTree(s) \/ ClaimLeave(s) \/ MergeCheck(s) \/ MergeEnd(s)
             \/ Edit(s) \/ Commit(s) \/ Push(s) \/ SweepClaimGate(s)
  BY <1>2, <1>3, <1>4, <1>6, <1>8
  DEF ClaimAddTree, ClaimLeave, MergeCheck, MergeEnd, Edit, Commit, Push, SweepClaimGate, Leave
<1>9. CASE \E s \in Builders :
             \/ ReleaseCheck(s) \/ RemoveTree(s) \/ ReleaseBranch(s)
             \/ \E b \in Branch : MergePr(s, b)
             \/ MergeBranchAway(s) \/ MergeUnclaim(s)
  BY <1>3, <1>4, <1>9 DEF ReleaseCheck, RemoveTree, ReleaseBranch, MergePr, MergeBranchAway,
     MergeUnclaim, BranchRelease, Leave
<1>10. CASE GcUnlink \/ SweepStatusGate \/ SweepRemove \/ UNCHANGED vars
  BY <1>6, <1>10 DEF GcUnlink, SweepStatusGate, SweepRemove, vars
<1>11. QED BY <1>7, <1>8, <1>9, <1>10 DEF Next

-----------------------------------------------------------------------------
(* Nobody gives a session the claim back that its release has dropped.     *)
Unclaimed == \A s \in dropped : claim[s] = None

LEMMA UnclaimedStays ==
  ASSUME TypeOK, Unclaimed, [Next]_vars
  PROVE  Unclaimed'
<1> USE NoneAssumption, BuildersAssumption DEF TypeOK, Unclaimed
<1>1. ASSUME NEW s \in Sessions, NEW b, Register(s, b) PROVE Unclaimed'
  BY <1>1 DEF Register
<1>2. ASSUME NEW s \in Sessions, ReleaseStart(s) PROVE Unclaimed'
  BY <1>2 DEF ReleaseStart, BranchRelease, Enter
<1>3. CASE Fewer /\ dropped' \subseteq dropped
  BY <1>3 DEF Fewer
<1>4. CASE \E s \in Sessions :
             \/ \E b \in Branch : RegisterByHand(s, b)
             \/ \E u \in Sessions : PurgeJudge(s, u)
             \/ PurgeUnlink(s) \/ GcRead(s)
             \/ ReleaseStart(s) \/ ReleaseRefuse(s) \/ Die(s)
  <2>1. PICK s \in Sessions :
             \/ \E b \in Branch : RegisterByHand(s, b)
             \/ \E u \in Sessions : PurgeJudge(s, u)
             \/ PurgeUnlink(s) \/ GcRead(s)
             \/ ReleaseStart(s) \/ ReleaseRefuse(s) \/ Die(s)
    BY <1>4
  <2>2. CASE \E b \in Branch : RegisterByHand(s, b)
    BY <1>1, <2>2 DEF RegisterByHand
  <2>3. CASE \/ \E u \in Sessions : PurgeJudge(s, u)
             \/ PurgeUnlink(s) \/ GcRead(s) \/ ReleaseRefuse(s) \/ Die(s)
    <3>1. Fewer /\ dropped' \subseteq dropped
      BY <2>3 DEF PurgeJudge, PurgeUnlink, GcRead, ReleaseRefuse, Die, Leave, Fewer
    <3>2. QED BY <1>3, <3>1
  <2>4. QED BY <1>2, <2>1, <2>2, <2>3
<1>5. CASE \E s \in Builders : \E a \in Actors : ClaimStart(s, a)
  BY <1>1, <1>5 DEF ClaimStart
<1>6. CASE \E s \in Builders :
             \/ ClaimAddTree(s) \/ ClaimLeave(s)
             \/ Edit(s) \/ Commit(s) \/ Push(s)
             \/ ReleaseCheck(s) \/ RemoveTree(s) \/ ReleaseBranch(s)
             \/ \E b \in Branch : MergePr(s, b)
             \/ MergeCheck(s) \/ MergeBranchAway(s) \/ MergeEnd(s)
             \/ SweepClaimGate(s)
  <2>1. UNCHANGED claim /\ dropped' \subseteq dropped
    BY <1>6 DEF ClaimAddTree, ClaimLeave, Edit, Commit, Push, ReleaseCheck, RemoveTree,
       ReleaseBranch, MergePr, MergeCheck, MergeBranchAway, MergeEnd, SweepClaimGate, Leave
  <2>2. QED BY <2>1
<1>7. CASE \E s \in Builders : MergeUnclaim(s)
  <2>1. Fewer /\ dropped' \subseteq dropped BY <1>7 DEF MergeUnclaim, BranchRelease, Leave, Fewer
  <2>2. QED BY <1>3, <2>1
<1>8. CASE GcUnlink \/ SweepStatusGate \/ SweepRemove \/ UNCHANGED vars
  <2>1. Fewer /\ dropped' = dropped
    BY <1>8 DEF GcUnlink, SweepStatusGate, SweepRemove, vars, Fewer
  <2>2. QED BY <1>3, <2>1
<1>9. QED BY <1>4, <1>5, <1>6, <1>7, <1>8 DEF Next

-----------------------------------------------------------------------------
IInv == TypeOK /\ Apart /\ OwnBranch /\ Unclaimed

LEMMA InvHolds == Spec => []IInv
<1>1. Init => IInv
  BY NoneAssumption DEF Init, IInv, TypeOK, Apart, OwnBranch, Unclaimed, Running
<1>2. ASSUME IInv, [Next]_vars PROVE IInv'
  <2>1. CASE UNCHANGED vars
    <3>1. TypeOK' BY <1>2, <2>1 DEF IInv, TypeOK, vars, git
    <3>2. Apart' BY <1>2, <2>1 DEF IInv, Apart, vars
    <3>3. QED BY <1>2, <3>1, <3>2, OwnBranchStays, UnclaimedStays DEF IInv
  <2>2. CASE Next
    <3>1. CASE \/ \E s \in Sessions :
                    \/ \E b \in Branch : RegisterByHand(s, b)
                    \/ \E u \in Sessions : PurgeJudge(s, u)
                    \/ PurgeUnlink(s) \/ GcRead(s)
                    \/ ReleaseStart(s) \/ ReleaseRefuse(s) \/ Die(s)
      BY <1>2, <3>1, LedgerKeeps, OwnBranchStays, UnclaimedStays DEF IInv
    <3>2. CASE GcUnlink
      <4>1. PICK s \in Sessions : TRUE BY <1>2, <3>2 DEF IInv, TypeOK, GcUnlink
      <4>2. QED BY <1>2, <3>2, <4>1, LedgerKeeps, OwnBranchStays, UnclaimedStays DEF IInv
    <3>3. CASE \E s \in Builders :
                 \/ \E a \in Actors : ClaimStart(s, a)
                 \/ ClaimAddTree(s) \/ ClaimLeave(s)
                 \/ ReleaseCheck(s) \/ RemoveTree(s) \/ ReleaseBranch(s)
                 \/ \E b \in Branch : MergePr(s, b)
                 \/ MergeCheck(s) \/ MergeBranchAway(s) \/ MergeUnclaim(s) \/ MergeEnd(s)
      BY <1>2, <3>3, CommandKeeps, OwnBranchStays, UnclaimedStays DEF IInv
    <3>4. CASE \/ \E s \in Builders : Edit(s) \/ Commit(s) \/ Push(s) \/ SweepClaimGate(s)
               \/ SweepStatusGate \/ SweepRemove
      BY <1>2, <3>4, OthersKeep, OwnBranchStays, UnclaimedStays DEF IInv
    <3>5. QED BY <1>2, <2>2, <3>1, <3>2, <3>3, <3>4 DEF Next
  <2>3. QED BY <1>2, <2>1, <2>2
<1>3. QED BY <1>1, <1>2, PTL DEF Spec

(* Two sessions never hold claims on one branch, and every worktree is on  *)
(* a branch of its own session, whatever is purged, collected, taken back  *)
(* or killed meanwhile (acquire_branch_lock, claim_gc, gac-worktree.sh).   *)
THEOREM BranchesHaveOneHolder == Spec => []OneSessionPerBranch
<1>1. IInv => OneSessionPerBranch BY DEF IInv, Apart, OneSessionPerBranch
<1>2. QED BY <1>1, InvHolds, PTL

(* A release whose session has claimed nothing since it dropped the claim  *)
(* deletes no branch with commits outside main, though the test for such   *)
(* commits never finds any (gac-worktree.sh 1159, 1186 and 1188).          *)
THEOREM DroppedClaimsKeepWork == Spec => ReleaseKeepsUnmergedWork
<1>1. ASSUME IInv, Next, NEW s \in dropped,
             Running(s, "release", "removed"), op'[s] # op[s],
             NEW b \in heads \ heads'
      PROVE  work[b] \in {"none", "landed"}
  <2>1. PICK u \in Builders : ReleaseBranch(u) \/ MergeBranchAway(u)
    <3>1. heads' # heads /\ ~(heads \subseteq heads') BY <1>1
    <3>2. ASSUME NEW u \in Sessions,
                 \/ \E c \in Branch : RegisterByHand(u, c)
                 \/ \E v \in Sessions : PurgeJudge(u, v)
                 \/ PurgeUnlink(u) \/ GcRead(u)
                 \/ ReleaseStart(u) \/ ReleaseRefuse(u) \/ Die(u)
          PROVE  FALSE
      BY <3>1, <3>2 DEF git, RegisterByHand, PurgeJudge, PurgeUnlink, GcRead,
         ReleaseStart, ReleaseRefuse, Die
    <3>3. ASSUME NEW u \in Builders,
                 \/ \E a \in Actors : ClaimStart(u, a)
                 \/ ClaimAddTree(u) \/ ClaimLeave(u)
                 \/ Edit(u) \/ Commit(u) \/ Push(u)
                 \/ ReleaseCheck(u) \/ RemoveTree(u)
                 \/ \E c \in Branch : MergePr(u, c)
                 \/ MergeCheck(u) \/ MergeUnclaim(u) \/ MergeEnd(u) \/ SweepClaimGate(u)
          PROVE  FALSE
      BY <3>1, <3>3 DEF git, ClaimStart, ClaimAddTree, ClaimLeave, Edit, Commit, Push,
         ReleaseCheck, RemoveTree, MergePr, MergeCheck, MergeUnclaim, MergeEnd, SweepClaimGate
    <3>4. ~(GcUnlink \/ SweepStatusGate \/ SweepRemove)
      BY <3>1 DEF git, GcUnlink, SweepStatusGate, SweepRemove
    <3>5. QED BY <1>1, <3>2, <3>3, <3>4 DEF Next
  <2>2. \A v \in Sessions : v # u => op'[v] = op[v]
    BY <1>1, <2>1 DEF ReleaseBranch, MergeBranchAway, Enter, Leave, IInv, TypeOK
  <2>3. u = s BY <1>1, <2>2 DEF IInv, TypeOK
  <2>4. ReleaseBranch(s) BY <1>1, <2>1, <2>3 DEF MergeBranchAway, Running
  <2>5. Resolved(s) = {} BY <1>1 DEF IInv, Unclaimed, Resolved
  <2>6. QED BY <1>1, <2>4, <2>5 DEF ReleaseBranch, DeleteHeads
<1>2. IInv /\ [Next]_vars =>
        [\A s \in dropped :
           Running(s, "release", "removed") /\ op'[s] # op[s]
             => \A b \in heads \ heads' : work[b] \in {"none", "landed"}]_vars
  BY <1>1
<1>3. QED BY <1>2, InvHolds, PTL DEF Spec, ReleaseKeepsUnmergedWork

-----------------------------------------------------------------------------
(* D1: the numbers of ADRs.                                                *)

(* flock: one session at a time is inside acquire_adr_claim.               *)
OneInside == \A s, u \in Claimers : pc[s] # "idle" /\ pc[u] # "idle" => s = u

(* The claims it loaded cover those there are.                             *)
LoadedCovers ==
  \A s, u \in Claimers :
    pc[s] = "loaded" /\ adrClaim[u] # NoNumber => claimed[s][u] = adrClaim[u]

Unique == \A s, u \in Claimers : s # u /\ adrClaim[s] # NoNumber => adrClaim[s] # adrClaim[u]

AdrIInv == AdrTypeOK /\ OneInside /\ LoadedCovers /\ Unique

(* Any move back to "idle" keeps the types of the call's variables.        *)
LEMMA ReturnTypes ==
  ASSUME AdrTypeOK, NEW s \in Claimers, Return(s)
  PROVE  /\ pc' = [pc EXCEPT ![s] = "idle"]
         /\ pc' \in [Claimers -> {"idle", "listed", "loaded"}]
         /\ asked' \in [Claimers -> Numbers \cup {NoNumber}]
         /\ existing' \in [Claimers -> SUBSET Numbers]
         /\ claimed' \in [Claimers -> [Claimers -> Numbers \cup {NoNumber}]]
         /\ \A u \in Claimers : u # s => claimed'[u] = claimed[u] /\ pc'[u] = pc[u]
         /\ pc'[s] = "idle"
         /\ verdict' = NoVerdict
<1>1. [u \in Claimers |-> NoNumber] \in [Claimers -> Numbers \cup {NoNumber}]
  OBVIOUS
<1>. QED  BY <1>1 DEF AdrTypeOK, Return

LEMMA AdrInitInv == AdrInit => AdrIInv
BY DEF AdrInit, AdrIInv, AdrTypeOK, OneInside, LoadedCovers, Unique, NoNumber

(* Steps that leave claims and calls alone keep all but the types.         *)
LEMMA CallsAlone ==
  ASSUME AdrIInv, UNCHANGED <<adrClaim, pc, claimed>>
  PROVE  OneInside' /\ LoadedCovers' /\ Unique'
BY DEF AdrIInv, OneInside, LoadedCovers, Unique

LEMMA AdrNextInv == AdrIInv /\ [AdrNext]_adrVars => AdrIInv'
<1>. SUFFICES ASSUME AdrIInv, [AdrNext]_adrVars PROVE AdrIInv'
  OBVIOUS
<1>. USE DEF AdrIInv
<1>1. ASSUME NEW s \in Claimers, NEW number \in Numbers \cup {NoNumber}, Acquire(s, number)
      PROVE  AdrIInv'
  <2>1. AdrTypeOK'
    BY <1>1 DEF Acquire, AdrTypeOK, repo, NumbersOf, RemoteNumbers, Adr
  <2>2. OneInside' /\ LoadedCovers' /\ Unique'
    BY <1>1 DEF Acquire, LockFree, OneInside, LoadedCovers, Unique, AdrTypeOK
  <2>. QED  BY <2>1, <2>2
<1>2. ASSUME NEW s \in Claimers, LoadClaims(s) PROVE AdrIInv'
  <2>1. AdrTypeOK'
    BY <1>2 DEF LoadClaims, AdrTypeOK, repo
  <2>2. OneInside' /\ LoadedCovers' /\ Unique'
    BY <1>2 DEF LoadClaims, OneInside, LoadedCovers, Unique, AdrTypeOK
  <2>. QED  BY <2>1, <2>2
<1>3. ASSUME NEW s \in Claimers, Decide(s) PROVE AdrIInv'
  <2>1. PICK t : t = Target(s)
    OBVIOUS
  <2>2. pc[s] = "loaded" /\ Return(s) /\ UNCHANGED repo
    BY <1>3 DEF Decide
  <2>3. OneInside'
    BY <2>2, ReturnTypes DEF OneInside
  <2>4. CASE adrClaim' = adrClaim
    <3>1. AdrTypeOK'
      BY <2>2, <2>4, ReturnTypes DEF AdrTypeOK, repo
    <3>2. LoadedCovers' /\ Unique'
      BY <2>2, <2>4, ReturnTypes DEF LoadedCovers, Unique
    <3>. QED  BY <2>3, <3>1, <3>2
  <2>5. CASE adrClaim' # adrClaim
    <3>1. adrClaim' = [adrClaim EXCEPT ![s] = t] /\ ~Refused(s) /\ t \in Numbers
      BY <1>3, <2>1, <2>5 DEF Decide
    <3>2. AdrTypeOK'
      BY <2>2, <3>1, ReturnTypes DEF AdrTypeOK, repo
    <3>3. \A u \in Claimers : u # s => pc[u] = "idle" /\ adrClaim[u] # t
      BY <2>1, <2>2, <3>1 DEF Refused, OneInside, LoadedCovers, Numbers, NoNumber
    <3>4. LoadedCovers'
      BY <2>2, <3>3, ReturnTypes DEF LoadedCovers
    <3>5. Unique'
      BY <3>1, <3>3 DEF Unique, AdrTypeOK
    <3>. QED  BY <2>3, <3>2, <3>4, <3>5
  <2>. QED  BY <2>4, <2>5
<1>4. ASSUME NEW s \in Claimers, DieClaiming(s) PROVE AdrIInv'
  <2>1. AdrTypeOK'
    BY <1>4, ReturnTypes DEF DieClaiming, AdrTypeOK, repo
  <2>2. OneInside' /\ LoadedCovers' /\ Unique'
    BY <1>4, ReturnTypes DEF DieClaiming, OneInside, LoadedCovers, Unique
  <2>. QED  BY <2>1, <2>2
<1>5. ASSUME NEW s \in Claimers, DropClaim(s) PROVE AdrIInv'
  <2>1. AdrTypeOK'
    BY <1>5 DEF DropClaim, AdrTypeOK, repo, calls
  <2>2. OneInside' /\ LoadedCovers' /\ Unique'
    BY <1>5 DEF DropClaim, OneInside, LoadedCovers, Unique, AdrTypeOK, calls
  <2>. QED  BY <2>1, <2>2
<1>6. ASSUME NEW s \in Claimers, NEW n \in Numbers, Write(s, n) PROVE AdrIInv'
  <2>1. AdrTypeOK'
    BY <1>6 DEF Write, AdrTypeOK, calls, Adr
  <2>. QED  BY <1>6, <2>1, CallsAlone DEF Write, calls
<1>7. ASSUME NEW s \in Claimers, NEW n \in Numbers, AdrCheck(s, n) PROVE AdrIInv'
  <2>1. Authorized(s, n) \in BOOLEAN
    BY DEF Authorized
  <2>2. verdict' \in Verdict
    BY <1>7, <2>1 DEF AdrCheck, Verdict
  <2>3. AdrTypeOK'
    BY <1>7, <2>2 DEF AdrCheck, AdrTypeOK, calls, repo
  <2>. QED  BY <1>7, <2>3, CallsAlone DEF AdrCheck, calls
<1>8. ASSUME NEW s \in Claimers, NEW n \in Numbers, NEW covered \in BOOLEAN,
             CommitAdr(s, n, covered)
      PROVE  AdrIInv'
  <2>1. verdict' \in Verdict
    BY <1>8 DEF CommitAdr, Verdict, TakenForAdr
  <2>2. commits' \subseteq files'
    BY <1>8 DEF CommitAdr, AdrTypeOK
  <2>3. AdrTypeOK'
    BY <1>8, <2>1, <2>2 DEF CommitAdr, AdrTypeOK, calls
  <2>. QED  BY <1>8, <2>3, CallsAlone DEF CommitAdr, calls
<1>9. ASSUME NEW n \in Numbers, Merge(n) PROVE AdrIInv'
  <2>1. AdrTypeOK'
    BY <1>9 DEF Merge, AdrTypeOK, calls
  <2>. QED  BY <1>9, <2>1, CallsAlone DEF Merge, calls
<1>10. CASE Pull
  <2>1. files' \subseteq Adr
    BY <1>10 DEF Pull, AdrTypeOK, Adr
  <2>2. AdrTypeOK'
    BY <1>10, <2>1 DEF Pull, AdrTypeOK, calls
  <2>. QED  BY <1>10, <2>2, CallsAlone DEF Pull, calls
<1>11. CASE UNCHANGED adrVars
  <2>1. AdrTypeOK'
    BY <1>11 DEF adrVars, repo, calls, AdrTypeOK
  <2>. QED  BY <1>11, <2>1, CallsAlone DEF adrVars, calls
<1>. QED
  BY <1>1, <1>2, <1>3, <1>4, <1>5, <1>6, <1>7, <1>8, <1>9, <1>10, <1>11 DEF AdrNext

LEMMA AdrInvariant == AdrSpec => []AdrIInv
BY AdrInitInv, AdrNextInv, PTL DEF AdrSpec

(* No two sessions hold one number, however many claim it at once and      *)
(* whoever drops claims without the lock meanwhile.                        *)
THEOREM NoNumberTwice == AdrSpec => []OneHolderPerNumber
<1>1. AdrIInv => OneHolderPerNumber
  BY DEF AdrIInv, OneHolderPerNumber, Unique
<1>. QED  BY <1>1, AdrInvariant, PTL

(* No step moves a session's claim to another number.                      *)
LEMMA KeptStep ==
  ASSUME AdrIInv, AdrNext, NEW s \in Claimers, adrClaim[s] # NoNumber
  PROVE  adrClaim'[s] \in {adrClaim[s], NoNumber}
<1>1. ASSUME NEW u \in Claimers, Decide(u) PROVE adrClaim'[s] = adrClaim[s]
  <2>1. CASE u = s
    <3>1. claimed[s][s] # NoNumber
      BY <1>1, <2>1 DEF AdrIInv, Decide, LoadedCovers
    <3>. QED  BY <1>1, <2>1, <3>1 DEF Decide
  <2>2. CASE u # s
    BY <1>1, <2>2 DEF Decide, AdrIInv, AdrTypeOK
  <2>. QED  BY <2>1, <2>2
<1>2. ASSUME NEW u \in Claimers, DropClaim(u) PROVE adrClaim'[s] \in {adrClaim[s], NoNumber}
  BY <1>2 DEF DropClaim, AdrIInv, AdrTypeOK
<1>. QED
  BY <1>1, <1>2 DEF AdrNext, Acquire, LoadClaims, DieClaiming, Write, AdrCheck, CommitAdr, Merge, Pull

(* A session that has a claim keeps its number, whatever it asks for.      *)
THEOREM ClaimsStay == AdrSpec => NumberIsKept
<1>1. AdrIInv /\ [AdrNext]_adrVars =>
        [\A s \in Claimers :
           adrClaim[s] # NoNumber => adrClaim'[s] \in {adrClaim[s], NoNumber}]_adrVars
  BY KeptStep
<1>. QED  BY <1>1, AdrInvariant, PTL DEF AdrSpec, NumberIsKept
=============================================================================
