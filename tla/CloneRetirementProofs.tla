----------------------- MODULE CloneRetirementProofs -----------------------
(***************************************************************************)
(* Machine-checked proofs about CloneRetirement, for any directories, any  *)
(* number of calls of each kind and any bounds.                            *)
(*                                                                         *)
(* Three things carry them: where a directory is, as the renames move it;  *)
(* that a commit belongs to one clone; and that nothing but a lease        *)
(* reaches into a quarantine, so what a check saw there is still so when   *)
(* the later checks have passed.                                           *)
(***************************************************************************)
EXTENDS CloneRetirement, TLAPS

Inside == Checking \cup {"restore", "back", "delete", "deleting"}
Outside == {"prove", "proof", "writeproof", "auth", "writeauth", "stat", "move"}
Removed == {"intent", "writeintent", "settle", "writesettled"}

(* Where the directories are: what is whole or half removed is at the      *)
(* path, in a call's quarantine or left behind, and nothing else is there. *)
Places ==
  /\ \A p \in Procs : pc[p] \in Inside <=> payload[p] # None
  /\ \A p \in Procs : payload[p] # None =>
       /\ state[payload[p]] = IF pc[p] = "deleting" THEN "torn" ELSE "whole"
       /\ payload[p] # dest /\ payload[p] \notin left
  /\ \A p, q \in Procs : payload[p] = payload[q] /\ payload[p] # None => p = q
  /\ dest # None => state[dest] = "whole"
  /\ dest \notin left
  /\ \A d \in left : state[d] \in {"whole", "torn"}
  /\ \A d \in Dirs : state[d] \in {"whole", "torn"} =>
       d = dest \/ d \in left \/ \E p \in Procs : payload[p] = d

(* The commits that are known as a clone's: made in it, pushed or merged   *)
(* from it, or seen in it by a call.                                       *)
Marks(d) ==
  ({head[d], remote[d]} \cup merged[d] \cup {saw[p] : p \in {q \in Procs : examined[q] = d}})
    \ {0, None}

CommitsApart ==
  /\ \A d \in Dirs : remote[d] # 0 /\ 0 \notin merged[d]
  /\ \A d \in Dirs : Marks(d) \subseteq 1..commits
  /\ \A d, e \in Dirs : d # e => Marks(d) \cap Marks(e) = {}

(* What a call has found so far, and what of it must still be so.          *)
Found(p) ==
  /\ pc[p] \in Inside \cup Outside => examined[p] \in Dirs
  /\ pc[p] \in Removed \cup {"proof", "writeproof", "stat"} => p \in Squash
  /\ pc[p] \in {"auth", "writeauth", "second"} => p \in Abort
  /\ pc[p] \in (Inside \cup Outside) \ {"prove"} /\ p \notin Abort =>
       saw[p] \in merged[examined[p]] /\ (p \in Squash => examined[p] = Delivered)
  /\ pc[p] \in Inside \cup Outside /\ p \notin Squash => expected[p] = examined[p]
  /\ pc[p] \in Inside \cup {"move"} /\ p \in Abort => auth = 0
  /\ pc[p] \in Removed => state[Delivered] = "gone"

Checked(p) ==
  /\ pc[p] \in {"clean", "active", "second", "delete", "deleting"} =>
       payload[p] = examined[p] /\ (leased[payload[p]] \/ head[payload[p]] = saw[p])
  /\ pc[p] = "active" => leased[payload[p]] \/ ~dirty[payload[p]]
  /\ pc[p] \in {"second", "delete", "deleting"} => ~leased[payload[p]] /\ ~dirty[payload[p]]
  /\ pc[p] \in {"delete", "deleting"} /\ p \in Abort =>
       payload[p] = Unready /\ head[payload[p]] = 0

IInv ==
  /\ TypeOK /\ Places /\ CommitsApart
  /\ \A p \in Procs : Found(p) /\ Checked(p)
  /\ NoWorkIsLost /\ SettledIsGone

-----------------------------------------------------------------------------
AgentStep(d) ==
  Lease(d) \/ Edit(d) \/ Commit(d) \/ Push(d) \/ Merge(d) \/ Onboard(d)
CallStep(p) ==
  \/ Look(p) \/ Prove(p) \/ Stat(p) \/ Move(p) \/ Check(p) \/ Refuse(p)
  \/ Restore(p) \/ Back(p) \/ Delete(p) \/ Deleted(p) \/ Replay(p) \/ Die(p)
  \/ CreateProof(p) \/ WriteProof(p) \/ CreateAuth(p) \/ WriteAuth(p)
  \/ CreateIntent(p) \/ WriteIntent(p) \/ CreateSettled(p) \/ WriteSettled(p)

(* Every step is an agent's or a call's.                                   *)
LEMMA StepKinds ==
  ASSUME [Next]_vars
  PROVE  (\E d \in Dirs : AgentStep(d)) \/ (\E p \in Procs : CallStep(p)) \/ UNCHANGED vars
BY DEF Next, AgentStep, CallStep

(* The values that stand for nothing are no directory and no number.       *)
LEMMA NoneApart == None \notin Dirs /\ None \notin Nat /\ Torn \notin Nat /\ None # Torn
BY RetirementAssumption

(* A call never changes what agents work with.                             *)
LEMMA CallsTouchNothing ==
  ASSUME NEW p \in Procs, CallStep(p)
  PROVE  UNCHANGED untouched
BY DEF CallStep, Look, Prove, Stat, Move, Check, Refuse, Restore, Back, Delete, Deleted,
       Replay, Die, CreateProof, WriteProof, CreateAuth, WriteAuth, CreateIntent,
       WriteIntent, CreateSettled, WriteSettled, Proceed

(* The type invariant is kept by the agents.                               *)
LEMMA AgentTypes ==
  ASSUME TypeOK, NEW d \in Dirs, AgentStep(d)
  PROVE  TypeOK'
<1> USE RetirementAssumption DEF TypeOK, Commits, place, calls, held, receipts
<1>1. CASE Lease(d) BY <1>1 DEF Lease
<1>2. CASE Edit(d) BY <1>2 DEF Edit
<1>3. CASE Commit(d) BY <1>3 DEF Commit
<1>4. CASE Push(d) BY <1>4 DEF Push
<1>5. CASE Merge(d) BY <1>5 DEF Merge
<1>6. CASE Onboard(d) BY <1>6 DEF Onboard
<1>7. QED BY <1>1, <1>2, <1>3, <1>4, <1>5, <1>6 DEF AgentStep

(* A call that ends keeps its variables well typed.                        *)
LEMMA ForgetTypes ==
  ASSUME TypeOK, NEW p \in Procs, Forget(p)
  PROVE  /\ pc' \in [Procs -> Steps] /\ expected' \in [Procs -> Dirs \cup {None}]
         /\ saw' \in [Procs -> Commits] /\ mainSeen' \in [Procs -> 0..MaxMain]
         /\ examined' \in [Procs -> Dirs \cup {None}]
BY RetirementAssumption DEF TypeOK, Forget, Goto, Steps, Commits

LEMMA EndTypes ==
  ASSUME TypeOK, NEW p \in Procs, End(p)
  PROVE  /\ left' \subseteq Dirs /\ payload' \in [Procs -> Dirs \cup {None}]
         /\ pc' \in [Procs -> Steps] /\ expected' \in [Procs -> Dirs \cup {None}]
         /\ saw' \in [Procs -> Commits] /\ mainSeen' \in [Procs -> 0..MaxMain]
         /\ examined' \in [Procs -> Dirs \cup {None}]
<1>1. left' \subseteq Dirs /\ payload' \in [Procs -> Dirs \cup {None}]
  BY DEF TypeOK, End, Kept
<1>2. QED BY <1>1, ForgetTypes DEF End

(* The type invariant is kept by the calls.                                *)
LEMMA CallTypes ==
  ASSUME TypeOK, NEW p \in Procs, CallStep(p)
  PROVE  TypeOK'
<1> USE RetirementAssumption, CallsTouchNothing
        DEF TypeOK, untouched, Commits, Steps, Checking, Goto, place, receipts, held
<1>1. CASE Look(p) BY <1>1 DEF Look
<1>2. CASE Prove(p)
  <2>1. PICK m \in 0..MaxMain : mainSeen' = [mainSeen EXCEPT ![p] = m]
    BY <1>2 DEF Prove
  <2>2. pc' \in [Procs -> Steps]
    BY <1>2, p \in Plain \/ p \in Squash \/ p \in Abort DEF Prove, Procs
  <2>3. QED BY <1>2, <2>1, <2>2 DEF Prove
<1>3. CASE Stat(p) BY <1>3 DEF Stat
<1>4. CASE Move(p) BY <1>4 DEF Move
<1>5. CASE Check(p) BY <1>5 DEF Check, After
<1>6. CASE Refuse(p) BY <1>6, EndTypes DEF Refuse, Stop
<1>7. CASE Restore(p) BY <1>7, EndTypes DEF Restore, Stop
<1>8. CASE Back(p)
  <2>1. CASE Stop(p) BY <1>8, <2>1, EndTypes DEF Back, Stop
  <2>2. CASE ~Stop(p)
    <3>1. /\ dest' = payload[p] /\ payload' = [payload EXCEPT ![p] = None] /\ Forget(p)
          /\ UNCHANGED <<left, state, receipts, deaths>>
      BY <1>8, <2>2 DEF Back
    <3>2. QED BY <3>1, ForgetTypes
  <2>3. QED BY <2>1, <2>2
<1>9. CASE Delete(p) BY <1>9 DEF Delete
<1>10. CASE Deleted(p)
  <2>1. state' \in [Dirs -> {"none", "whole", "torn", "gone"}] /\ payload' \in [Procs -> Dirs \cup {None}]
    BY <1>10 DEF Deleted
  <2>2. CASE p \in Squash BY <1>10, <2>1, <2>2 DEF Deleted
  <2>3. CASE Forget(p) BY <1>10, <2>1, <2>3, ForgetTypes DEF Deleted
  <2>4. QED BY <1>10, <2>2, <2>3 DEF Deleted
<1>11. CASE Replay(p) BY <1>11 DEF Replay
<1>12. CASE Die(p) BY <1>12, EndTypes DEF Die, Stop
<1>13. CASE CreateProof(p) BY <1>13, EndTypes DEF CreateProof, Create, Created, Receipt
<1>14. CASE WriteProof(p) BY <1>14 DEF WriteProof, Proceed, Receipt
<1>15. CASE CreateAuth(p) BY <1>15, EndTypes DEF CreateAuth, Create, Created
<1>16. CASE WriteAuth(p) BY <1>16 DEF WriteAuth, Proceed
<1>17. CASE CreateIntent(p) BY <1>17, EndTypes DEF CreateIntent, Create, Created, Receipt
<1>18. CASE WriteIntent(p) BY <1>18 DEF WriteIntent, Proceed, Receipt
<1>19. CASE CreateSettled(p) BY <1>19, EndTypes DEF CreateSettled, Created, Receipt
<1>20. CASE WriteSettled(p) BY <1>20, EndTypes DEF WriteSettled, Receipt
<1>21. QED
  BY <1>1, <1>2, <1>3, <1>4, <1>5, <1>6, <1>7, <1>8, <1>9, <1>10, <1>11, <1>12, <1>13,
     <1>14, <1>15, <1>16, <1>17, <1>18, <1>19, <1>20 DEF CallStep

-----------------------------------------------------------------------------
(* Where directories are, when a call only goes from one step to another.  *)
LEMMA WalkPlaces ==
  ASSUME TypeOK, Places, NEW p \in Procs, NEW s, UNCHANGED <<place, state>>, Goto(p, s),
         s \in Inside <=> pc[p] \in Inside, s # "deleting", pc[p] # "deleting"
  PROVE  Places'
BY NoneApart DEF Places, TypeOK, Goto, place

(* The same when it ends: what it had in its quarantine is left behind.    *)
LEMMA EndPlaces ==
  ASSUME TypeOK, Places, NEW p \in Procs, End(p), UNCHANGED <<dest, state>>
  PROVE  Places'
<1> USE DEF TypeOK, End, Forget, Goto
<1>1. left' = left \cup ({payload[p]} \ {None}) BY DEF Kept
<1>2. /\ payload' = [payload EXCEPT ![p] = None]
      /\ pc' = [pc EXCEPT ![p] = "idle"] /\ "idle" \notin Inside
  BY DEF Inside, Checking
<1>3. payload[p] # None => state[payload[p]] \in {"whole", "torn"} BY DEF Places
<1>4. QED BY <1>1, <1>2, <1>3, NoneApart DEF Places

(* Agents move no clone; onboard puts a new one where nothing was.         *)
LEMMA AgentPlaces ==
  ASSUME TypeOK, Places, NEW d \in Dirs, AgentStep(d)
  PROVE  Places'
<1>1. CASE Onboard(d)
  BY <1>1, NoneApart DEF Onboard, TypeOK, Places, calls
<1>2. CASE UNCHANGED <<place, state, pc>>
  BY <1>2, Zenon DEF Places, place
<1>3. QED
  BY <1>1, <1>2 DEF AgentStep, Lease, Edit, Commit, Push, Merge, calls

(* Every call keeps track of what it moves.                                *)
LEMMA CallPlaces ==
  ASSUME TypeOK, Places, NEW p \in Procs, CallStep(p)
  PROVE  Places'
<1> DEFINE Walks(s) == /\ UNCHANGED <<place, state>> /\ Goto(p, s)
                       /\ s \in Inside <=> pc[p] \in Inside
                       /\ s # "deleting" /\ pc[p] # "deleting"
<1> USE DEF Inside, Checking, receipts, held, place
<1>1. CASE \E s \in Steps : Walks(s) BY <1>1, WalkPlaces
<1>2. CASE End(p) /\ UNCHANGED <<dest, state>> BY <1>2, EndPlaces
<1>3. CASE Move(p)
  BY <1>3, NoneApart DEF Move, Places, TypeOK, Goto
<1>4. CASE Back(p) /\ ~Stop(p)
  BY <1>4, NoneApart DEF Back, Places, TypeOK, Forget, Goto, Free
<1>5. CASE Delete(p)
  BY <1>5, NoneApart DEF Delete, Places, TypeOK, Goto
<1>6. CASE Deleted(p)
  <2>1. PICK s : s \notin Inside /\ Goto(p, s)
    BY <1>6 DEF Deleted, Forget
  <2>2. QED BY <1>6, <2>1, NoneApart DEF Deleted, Places, TypeOK, Goto
<1>7. CASE Look(p) \/ Prove(p) \/ Stat(p) \/ Check(p) \/ Replay(p)
  <2> HIDE DEF Walks
  <2>1. CASE Look(p) BY <1>1, <2>1 DEF Look, Walks, Steps
  <2>2. CASE Prove(p)
    BY <1>1, <2>2, p \in Plain \/ p \in Squash \/ p \in Abort DEF Prove, Procs, Walks, Steps
  <2>3. CASE Stat(p) BY <1>1, <2>3 DEF Stat, Walks, Steps
  <2>4. CASE Check(p) BY <1>1, <2>4 DEF Check, After, Walks, Steps
  <2>5. CASE Replay(p) BY <1>1, <2>5 DEF Replay, Walks, Steps
  <2>6. QED BY <1>7, <2>1, <2>2, <2>3, <2>4, <2>5
<1>8. CASE \/ CreateProof(p) \/ WriteProof(p) \/ CreateAuth(p) \/ WriteAuth(p)
           \/ CreateIntent(p) \/ WriteIntent(p) \/ CreateSettled(p) \/ WriteSettled(p)
  <2> HIDE DEF Walks
  <2>1. CASE CreateProof(p) BY <1>1, <1>2, <2>1 DEF CreateProof, Create, Walks, Steps
  <2>2. CASE WriteProof(p) BY <1>1, <2>2 DEF WriteProof, Proceed, Walks, Steps
  <2>3. CASE CreateAuth(p) BY <1>1, <1>2, <2>3 DEF CreateAuth, Create, Walks, Steps
  <2>4. CASE WriteAuth(p) BY <1>1, <2>4 DEF WriteAuth, Proceed, Walks, Steps
  <2>5. CASE CreateIntent(p) BY <1>1, <1>2, <2>5 DEF CreateIntent, Create, Walks, Steps
  <2>6. CASE WriteIntent(p) BY <1>1, <2>6 DEF WriteIntent, Proceed, Walks, Steps
  <2>7. CASE CreateSettled(p) BY <1>1, <1>2, <2>7 DEF CreateSettled, Walks, Steps
  <2>8. CASE WriteSettled(p) BY <1>2, <2>8 DEF WriteSettled
  <2>9. QED BY <1>8, <2>1, <2>2, <2>3, <2>4, <2>5, <2>6, <2>7, <2>8
<1>9. CASE Refuse(p) \/ Restore(p) \/ (Back(p) /\ Stop(p)) \/ Die(p)
  <2> HIDE DEF Walks
  <2>1. CASE Refuse(p) BY <1>1, <1>2, <2>1 DEF Refuse, Stop, Walks, Steps
  <2>2. CASE Restore(p) BY <1>1, <1>2, <2>2 DEF Restore, Stop, Walks, Steps
  <2>3. CASE Stop(p) BY <1>2, <2>3 DEF Stop
  <2>4. QED BY <1>9, <2>1, <2>2, <2>3 DEF Die
<1>10. QED
  BY <1>3, <1>4, <1>5, <1>6, <1>7, <1>8, <1>9 DEF CallStep

-----------------------------------------------------------------------------
(* What an agent's step leaves as it is. It reaches into a quarantine only *)
(* under a lease, which it can neither take nor give back there.           *)
LEMMA AgentsKeep ==
  ASSUME TypeOK, Places, NEW d \in Dirs, AgentStep(d)
  PROVE  /\ UNCHANGED <<payload, left, calls>>
         /\ \A e \in Dirs : /\ merged[e] \subseteq merged'[e]
                            /\ state[e] # "none" => state'[e] = state[e]
                            /\ e # dest => leased'[e] = leased[e]
                            /\ e # dest /\ ~leased[e] => head'[e] = head[e] /\ dirty'[e] = dirty[e]
<1> USE DEF TypeOK, place
<1>1. CASE Lease(d) BY <1>1 DEF Lease
<1>2. CASE Edit(d) BY <1>2 DEF Edit, Reaches
<1>3. CASE Commit(d) BY <1>3 DEF Commit, Reaches
<1>4. CASE Push(d) BY <1>4 DEF Push
<1>5. CASE Merge(d) BY <1>5 DEF Merge
<1>6. CASE Onboard(d) BY <1>6 DEF Onboard
<1>7. QED BY <1>1, <1>2, <1>3, <1>4, <1>5, <1>6 DEF AgentStep

(* What a call's step leaves as it is: what the other calls hold to, an    *)
(* authorization once it is written, and what it has itself seen.          *)
LEMMA CallsKeep ==
  ASSUME TypeOK, NEW p \in Procs, CallStep(p)
  PROVE  /\ \A q \in Procs \ {p} :
              /\ pc'[q] = pc[q] /\ payload'[q] = payload[q]
              /\ expected'[q] = expected[q] /\ examined'[q] = examined[q] /\ saw'[q] = saw[q]
         /\ auth = 0 => auth' = 0
         /\ \A e \in Dirs : e # payload[p] => state'[e] = state[e]
         /\ examined'[p] \in Dirs =>
              \/ examined'[p] = examined[p] /\ saw'[p] = saw[p]
              \/ saw'[p] = head[examined'[p]]
<1> USE NoneApart DEF TypeOK, place, held, receipts, Goto, Forget, End, Stop
<1>1. CASE Look(p) BY <1>1 DEF Look
<1>2. CASE Prove(p) BY <1>2 DEF Prove
<1>3. CASE Stat(p) BY <1>3 DEF Stat
<1>4. CASE Move(p) BY <1>4 DEF Move
<1>5. CASE Check(p) BY <1>5 DEF Check
<1>6. CASE Refuse(p) BY <1>6 DEF Refuse
<1>7. CASE Restore(p) BY <1>7 DEF Restore
<1>8. CASE Back(p) BY <1>8 DEF Back
<1>9. CASE Delete(p) BY <1>9 DEF Delete
<1>10. CASE Deleted(p) BY <1>10 DEF Deleted
<1>11. CASE Replay(p) BY <1>11 DEF Replay
<1>12. CASE Die(p) BY <1>12 DEF Die
<1>13. CASE CreateProof(p) BY <1>13 DEF CreateProof, Create
<1>14. CASE WriteProof(p) BY <1>14 DEF WriteProof, Proceed
<1>15. CASE CreateAuth(p) BY <1>15 DEF CreateAuth, Create, Created
<1>16. CASE WriteAuth(p) BY <1>16 DEF WriteAuth, Proceed
<1>17. CASE CreateIntent(p) BY <1>17 DEF CreateIntent, Create
<1>18. CASE WriteIntent(p) BY <1>18 DEF WriteIntent, Proceed
<1>19. CASE CreateSettled(p) BY <1>19 DEF CreateSettled
<1>20. CASE WriteSettled(p) BY <1>20 DEF WriteSettled
<1>21. QED
  BY <1>1, <1>2, <1>3, <1>4, <1>5, <1>6, <1>7, <1>8, <1>9, <1>10, <1>11, <1>12, <1>13,
     <1>14, <1>15, <1>16, <1>17, <1>18, <1>19, <1>20 DEF CallStep

(* What is gone stays gone.                                                *)
LEMMA GoneStays ==
  ASSUME TypeOK, Places, [Next]_vars, NEW d \in Dirs, state[d] = "gone"
  PROVE  state'[d] = "gone"
<1>1. ASSUME NEW e \in Dirs, AgentStep(e) PROVE state'[d] = "gone" BY <1>1, AgentsKeep
<1>2. ASSUME NEW p \in Procs, CallStep(p) PROVE state'[d] = "gone"
  BY <1>2, CallsKeep, NoneApart DEF Places
<1>3. QED BY <1>1, <1>2, StepKinds DEF vars, clone

-----------------------------------------------------------------------------
(* No clone comes to a commit of another's when no marks are added.        *)
LEMMA FewerMarks ==
  ASSUME TypeOK, TypeOK', CommitsApart, commits' = commits,
         \A d \in Dirs : Marks(d)' \subseteq Marks(d) /\ remote'[d] # 0 /\ 0 \notin merged'[d]
  PROVE  CommitsApart'
<1>1. \A d \in Dirs : Marks(d)' \subseteq 1..commits' BY DEF CommitsApart
<1>2. \A d, e \in Dirs : d # e => Marks(d)' \cap Marks(e)' = {}
  BY DEF CommitsApart
<1>3. QED BY <1>1, <1>2 DEF CommitsApart

(* A new commit is the clone's in which it is made.                        *)
LEMMA AgentMarks ==
  ASSUME TypeOK, TypeOK', CommitsApart, NEW d \in Dirs, AgentStep(d)
  PROVE  CommitsApart'
<1>1. CASE Commit(d)
  <2>1. /\ commits' = commits + 1 /\ head' = [head EXCEPT ![d] = commits + 1]
        /\ UNCHANGED <<remote, merged, saw, examined>>
    BY <1>1 DEF Commit, calls, held
  <2>2. \A e \in Dirs : Marks(e)' \subseteq Marks(e) \cup (IF e = d THEN {commits + 1} ELSE {})
    BY <2>1 DEF Marks, TypeOK
  <2>3. commits \in Nat /\ commits' \in Nat
    BY RetirementAssumption DEF TypeOK, Commits
  <2>4. \A e \in Dirs : commits + 1 \notin Marks(e) BY <2>3 DEF CommitsApart
  <2>5. \A e \in Dirs : Marks(e)' \subseteq 1..commits'
    BY <2>1, <2>2, <2>3 DEF CommitsApart
  <2>6. \A e, f \in Dirs : e # f => Marks(e)' \cap Marks(f)' = {}
    BY <2>2, <2>4 DEF CommitsApart
  <2>7. QED BY <2>1, <2>5, <2>6 DEF CommitsApart
<1>2. CASE Lease(d) \/ Edit(d) \/ Onboard(d)
  <2>1. UNCHANGED <<head, remote, merged, commits, saw, examined>>
    BY <1>2 DEF Lease, Edit, Onboard, calls, held
  <2>2. \A e \in Dirs : Marks(e)' = Marks(e) BY <2>1 DEF Marks
  <2>3. QED BY <2>1, <2>2, FewerMarks DEF CommitsApart
<1>3. CASE Push(d)
  <2>1. /\ remote' = [remote EXCEPT ![d] = head[d]] /\ head[d] # 0
        /\ UNCHANGED <<head, merged, commits, saw, examined>>
    BY <1>3 DEF Push, calls, held
  <2>2. \A e \in Dirs : Marks(e)' \subseteq Marks(e) BY <2>1 DEF Marks, TypeOK
  <2>3. QED BY <2>1, <2>2, FewerMarks DEF CommitsApart, TypeOK
<1>4. CASE Merge(d)
  <2>1. /\ merged' = [merged EXCEPT ![d] = @ \cup {remote[d]}] /\ remote[d] # None
        /\ \A e \in Dirs : remote'[e] \in {remote[e], None}
        /\ UNCHANGED <<head, commits, saw, examined>>
    BY <1>4 DEF Merge, calls, held, TypeOK
  <2>2. \A e \in Dirs : Marks(e)' \subseteq Marks(e) BY <2>1 DEF Marks, TypeOK
  <2>3. QED BY <2>1, <2>2, FewerMarks, NoneApart DEF CommitsApart, TypeOK
<1>5. QED BY <1>1, <1>2, <1>3, <1>4 DEF AgentStep

(* A call only remembers what it saw in the clone it looks at.             *)
LEMMA CallMarks ==
  ASSUME TypeOK, TypeOK', CommitsApart, NEW p \in Procs, CallStep(p)
  PROVE  CommitsApart'
<1>1. UNCHANGED <<head, remote, merged, commits>>
  BY CallsTouchNothing DEF untouched
<1>2. \A q \in Procs : examined'[q] \in Dirs =>
         \/ examined'[q] = examined[q] /\ saw'[q] = saw[q]
         \/ saw'[q] = head[examined'[q]]
  BY CallsKeep
<1>3. \A d \in Dirs : Marks(d)' \subseteq Marks(d)
  BY <1>1, <1>2 DEF Marks
<1>4. QED BY <1>1, <1>3, FewerMarks DEF CommitsApart

-----------------------------------------------------------------------------
Call(p) == Found(p) /\ Checked(p)

(* What a call knows is not made false by an agent.                        *)
LEMMA AgentCall ==
  ASSUME IInv, NEW d \in Dirs, AgentStep(d), NEW p \in Procs
  PROVE  Call(p)'
<1>1. UNCHANGED <<pc, expected, saw, examined, auth, payload>>
  BY AgentsKeep DEF calls, held, receipts, IInv
<1>2. ASSUME pc[p] \in Inside \cup Outside PROVE merged[examined[p]] \subseteq merged'[examined[p]]
  BY <1>2, AgentsKeep DEF IInv, Found, Call
<1>3. ASSUME state[Delivered] = "gone" PROVE state'[Delivered] = "gone"
  BY <1>3, AgentsKeep, RetirementAssumption DEF IInv
<1>4. Found(p)'
  BY <1>1, <1>2, <1>3 DEF IInv, Found, Inside, Outside, Removed, Checking
<1>5. CASE pc[p] \in Inside
  <2>1. payload[p] \in Dirs /\ payload[p] # dest
    BY <1>5 DEF IInv, Places, TypeOK
  <2>2. /\ leased'[payload[p]] = leased[payload[p]]
        /\ ~leased[payload[p]] => /\ head'[payload[p]] = head[payload[p]]
                                  /\ dirty'[payload[p]] = dirty[payload[p]]
    BY <2>1, AgentsKeep DEF IInv
  <2>3. Checked(p)' BY <1>1, <2>2 DEF IInv, Checked
  <2>4. QED BY <1>4, <2>3 DEF Call
<1>6. CASE pc[p] \notin Inside
  BY <1>1, <1>4, <1>6 DEF Call, Checked, Inside, Checking
<1>7. QED BY <1>5, <1>6

(* Nor by another call.                                                    *)
LEMMA OtherCall ==
  ASSUME IInv, NEW q \in Procs, CallStep(q), NEW p \in Procs \ {q}, [Next]_vars
  PROVE  Call(p)'
<1>1. /\ pc'[p] = pc[p] /\ payload'[p] = payload[p] /\ expected'[p] = expected[p]
      /\ examined'[p] = examined[p] /\ saw'[p] = saw[p] /\ (auth = 0 => auth' = 0)
  BY CallsKeep DEF IInv
<1>2. UNCHANGED <<head, dirty, leased, merged>> BY CallsTouchNothing DEF untouched
<1>3. state[Delivered] = "gone" => state'[Delivered] = "gone"
  BY GoneStays, RetirementAssumption DEF IInv
<1>4. Found(p)' BY <1>1, <1>2, <1>3 DEF IInv, Found
<1>5. Checked(p)' BY <1>1, <1>2 DEF IInv, Checked
<1>6. QED BY <1>4, <1>5 DEF Call

(* A call that has ended knows nothing.                                    *)
LEMMA EndedCall ==
  ASSUME TypeOK, NEW p \in Procs, Forget(p)
  PROVE  Call(p)'
<1>1. pc'[p] = "idle" BY DEF TypeOK, Forget, Goto
<1>2. QED BY <1>1 DEF Call, Found, Checked, Inside, Outside, Removed, Checking

(* When its HEAD is a merged one that the call saw, a directory is the one *)
(* the call examined: no other clone has that commit.                      *)
LEMMA SameCommit ==
  ASSUME IInv, NEW p \in Procs, NEW d \in Dirs, examined[p] \in Dirs,
         saw[p] \in merged[examined[p]], head[d] = saw[p]
  PROVE  d = examined[p]
<1>1. saw[p] # 0 /\ saw[p] # None
  BY NoneApart DEF IInv, CommitsApart, TypeOK, Commits
<1>2. saw[p] \in Marks(examined[p]) /\ saw[p] \in Marks(d)
  BY <1>1 DEF Marks
<1>3. QED BY <1>2 DEF IInv, CommitsApart

(* What a call comes to know by a step of its own.                         *)
LEMMA OwnCall ==
  ASSUME IInv, NEW p \in Procs, CallStep(p), [Next]_vars
  PROVE  Call(p)'
<1> USE DEF Inside, Outside, Removed, Checking
<1>1. TypeOK /\ Places /\ Call(p) BY DEF IInv, Call
<1>2. UNCHANGED untouched /\ (auth = 0 => auth' = 0)
  BY <1>1, CallsTouchNothing, CallsKeep
<1>3. state[Delivered] = "gone" => state'[Delivered] = "gone"
  BY <1>1, GoneStays, RetirementAssumption
<1>4. CASE Forget(p) BY <1>1, <1>4, EndedCall
<1>5. CASE Look(p)
  <2>1. pc'[p] = "prove" /\ expected'[p] = dest /\ examined'[p] = dest /\ dest \in Dirs
    BY <1>1, <1>5 DEF Look, TypeOK, Goto
  <2>2. QED BY <2>1 DEF Call, Found, Checked
<1>6. CASE Prove(p)
  <2>1. /\ pc'[p] = CASE p \in Plain -> "move" [] p \in Squash -> "proof" [] p \in Abort -> "auth"
        /\ UNCHANGED <<expected, saw, examined>> /\ pc[p] = "prove" /\ Proven(p, examined[p])
    BY <1>1, <1>6 DEF Prove, TypeOK, Goto
  <2>2. QED
    BY <1>1, <1>2, <2>1, RetirementAssumption DEF Call, Found, Checked, Proven, Procs, untouched
<1>7. CASE Stat(p)
  <2>1. pc[p] = "stat" /\ pc'[p] = "move" /\ UNCHANGED <<saw, examined>>
    BY <1>1, <1>7 DEF Stat, TypeOK, Goto
  <2>2. QED
    BY <1>1, <1>2, <2>1, RetirementAssumption DEF Call, Found, Checked, untouched
<1>8. CASE Move(p)
  <2>1. pc[p] = "move" /\ pc'[p] = "head" /\ UNCHANGED <<expected, saw, examined>>
    BY <1>1, <1>8 DEF Move, TypeOK, Goto, held
  <2>2. QED BY <1>1, <1>2, <2>1 DEF Call, Found, Checked, untouched
<1>9. CASE Check(p)
  <2>1. /\ pc[p] \in Checking /\ pc'[p] = After(p) /\ Passes(p, payload[p])
        /\ UNCHANGED <<expected, saw, examined, payload>>
    BY <1>1, <1>9 DEF Check, TypeOK, Goto, held, place
  <2>2. payload[p] \in Dirs BY <1>1, <2>1 DEF Places, TypeOK
  <2>3. CASE pc[p] = "head"
    <3>1. payload[p] = expected[p] /\ head[payload[p]] = saw[p] /\ pc'[p] = "clean"
      BY <2>1, <2>3 DEF Passes, SameHead, After
    <3>2. payload[p] = examined[p]
      BY <1>1, <2>2, <2>3, <3>1, SameCommit, RetirementAssumption DEF Call, Found, Procs
    <3>3. QED BY <1>1, <1>2, <2>1, <2>3, <3>1, <3>2 DEF Call, Found, Checked, untouched
  <2>4. CASE pc[p] = "clean"
    <3>1. ~dirty[payload[p]] /\ pc'[p] = "active" BY <2>1, <2>4 DEF Passes, After
    <3>2. QED BY <1>1, <1>2, <2>1, <2>4, <3>1 DEF Call, Found, Checked, untouched
  <2>5. CASE pc[p] = "active"
    <3>1. ~leased[payload[p]] /\ pc'[p] = IF p \in Abort THEN "second" ELSE "delete"
      BY <2>1, <2>5 DEF Passes, After
    <3>2. QED BY <1>1, <1>2, <2>1, <2>5, <3>1 DEF Call, Found, Checked, untouched
  <2>6. CASE pc[p] = "second"
    <3>1. Fits(p, payload[p]) /\ p \in Abort /\ pc'[p] = "delete"
      BY <1>1, <2>1, <2>6 DEF Passes, After, Call, Found
    <3>2. QED BY <1>1, <1>2, <2>1, <2>6, <3>1 DEF Call, Found, Checked, Fits, untouched
  <2>7. QED BY <2>1, <2>3, <2>4, <2>5, <2>6
<1>10. CASE (Refuse(p) \/ Restore(p)) /\ ~Forget(p)
  <2>1. /\ pc[p] \in Inside /\ pc'[p] \in {"restore", "back"}
        /\ UNCHANGED <<expected, saw, examined>>
    BY <1>1, <1>10 DEF Refuse, Restore, Stop, End, TypeOK, Goto, held
  <2>2. QED BY <1>1, <1>2, <2>1 DEF Call, Found, Checked, untouched
<1>11. CASE Delete(p)
  <2>1. pc[p] = "delete" /\ pc'[p] = "deleting" /\ UNCHANGED <<expected, saw, examined, payload>>
    BY <1>1, <1>11 DEF Delete, TypeOK, Goto, held, place
  <2>2. QED BY <1>1, <1>2, <2>1 DEF Call, Found, Checked, untouched
<1>12. CASE Deleted(p) /\ p \in Squash
  <2>1. pc[p] = "deleting" /\ pc'[p] = "intent" /\ state' = [state EXCEPT ![payload[p]] = "gone"]
    BY <1>1, <1>12 DEF Deleted, TypeOK, Goto
  <2>2. payload[p] = Delivered
    BY <1>1, <1>12, <2>1, RetirementAssumption DEF Call, Found, Checked
  <2>3. state'[Delivered] = "gone"
    BY <1>1, <2>1, <2>2, RetirementAssumption DEF TypeOK
  <2>4. QED BY <1>12, <2>1, <2>3 DEF Call, Found, Checked
<1>13. CASE Replay(p)
  <2>1. pc'[p] = "settle" /\ p \in Squash /\ intent # None
    BY <1>1, <1>13, NoneApart DEF Replay, Chain, TypeOK, Goto
  <2>2. state'[Delivered] = "gone" BY <1>3, <2>1 DEF IInv, SettledIsGone
  <2>3. QED BY <2>1, <2>2 DEF Call, Found, Checked
<1>14. CASE (CreateProof(p) \/ WriteProof(p)) /\ ~Forget(p)
  <2>1. /\ pc[p] \in {"proof", "writeproof"} /\ pc'[p] \in {"writeproof", "stat"}
        /\ UNCHANGED <<expected, saw, examined>>
    BY <1>1, <1>14 DEF CreateProof, WriteProof, Create, Proceed, End, TypeOK, Goto, held
  <2>2. QED
    BY <1>1, <1>2, <2>1, RetirementAssumption DEF Call, Found, Checked, untouched
<1>15. CASE (CreateAuth(p) \/ WriteAuth(p)) /\ ~Forget(p)
  <2>1. /\ pc[p] \in {"auth", "writeauth"} /\ pc'[p] \in {"writeauth", "move"}
        /\ pc'[p] = "move" => auth' = 0
        /\ UNCHANGED <<expected, saw, examined>>
    BY <1>1, <1>15, NoneApart DEF CreateAuth, WriteAuth, Create, Created, Proceed, End, TypeOK, Goto, held
  <2>2. QED
    BY <1>1, <1>2, <2>1, RetirementAssumption DEF Call, Found, Checked, untouched
<1>16. CASE (CreateIntent(p) \/ WriteIntent(p) \/ CreateSettled(p)) /\ ~Forget(p)
  <2>1. pc[p] \in Removed /\ pc'[p] \in {"writeintent", "settle", "writesettled"}
    BY <1>1, <1>16 DEF CreateIntent, WriteIntent, CreateSettled, Create, Proceed, End, TypeOK, Goto
  <2>2. QED BY <1>1, <1>3, <2>1 DEF Call, Found, Checked
<1>17. CASE Back(p) \/ Die(p) \/ WriteSettled(p) \/ (Deleted(p) /\ p \notin Squash)
  BY <1>4, <1>17 DEF Back, Die, WriteSettled, Deleted, Stop, End
<1>18. QED
  BY <1>4, <1>5, <1>6, <1>7, <1>8, <1>9, <1>10, <1>11, <1>12, <1>13, <1>14, <1>15, <1>16, <1>17
  DEF CallStep

-----------------------------------------------------------------------------
(* Only the two steps of a removal change what there is of a directory.    *)
LEMMA OnlyRemovals ==
  ASSUME NEW p \in Procs, CallStep(p), ~Delete(p), ~Deleted(p)
  PROVE  UNCHANGED state
BY DEF CallStep, Look, Prove, Stat, Move, Check, Refuse, Restore, Back, Replay, Die,
       CreateProof, WriteProof, CreateAuth, WriteAuth, CreateIntent, WriteIntent,
       CreateSettled, WriteSettled, Proceed, Stop

(* What a removal begins on has passed every check.                        *)
LEMMA RemovalBegins ==
  ASSUME IInv, [Next]_vars, NEW d \in Dirs,
         state[d] \notin {"torn", "gone"}, state'[d] \in {"torn", "gone"}
  PROVE  \E p \in Procs : CallStep(p) /\ Delete(p) /\ payload[p] = d /\ examined[p] = d
<1>1. ASSUME NEW e \in Dirs, AgentStep(e) PROVE FALSE
  <2>1. CASE state[d] # "none" BY <1>1, <2>1, AgentsKeep DEF IInv
  <2>2. CASE state[d] = "none"
    BY <1>1, <2>2 DEF IInv, TypeOK, AgentStep, Lease, Edit, Commit, Push, Merge, Onboard
  <2>3. QED BY <2>1, <2>2
<1>2. ASSUME NEW p \in Procs, CallStep(p)
      PROVE  CallStep(p) /\ Delete(p) /\ payload[p] = d /\ examined[p] = d
  <2>1. payload[p] = d BY <1>2, CallsKeep DEF IInv
  <2>2. ~Deleted(p) BY <2>1, NoneApart DEF IInv, Places, Deleted
  <2>3. Delete(p) BY <1>2, <2>2, OnlyRemovals
  <2>4. QED BY <1>2, <2>1, <2>3 DEF Delete, IInv, Checked
<1>3. QED BY <1>1, <1>2, StepKinds DEF vars, clone

(* A removal that begins loses no work, and what is removed stays as it    *)
(* was.                                                                    *)
LEMMA WorkStays ==
  ASSUME IInv, [Next]_vars
  PROVE  NoWorkIsLost'
<1> SUFFICES ASSUME NEW d \in Dirs, state'[d] \in {"torn", "gone"}
             PROVE  /\ ~dirty'[d] /\ ~leased'[d]
                    /\ \/ head'[d] \in merged'[d]
                       \/ head'[d] = 0 /\ d = Unready /\ auth' = 0
  BY DEF NoWorkIsLost
<1>1. CASE state[d] \in {"torn", "gone"}
  <2>1. /\ ~dirty[d] /\ ~leased[d] /\ d # dest
        /\ head[d] \in merged[d] \/ (head[d] = 0 /\ d = Unready /\ auth = 0)
    BY <1>1, NoneApart DEF IInv, NoWorkIsLost, Places, TypeOK
  <2>2. ASSUME NEW e \in Dirs, AgentStep(e)
        PROVE  /\ UNCHANGED auth /\ merged[d] \subseteq merged'[d]
               /\ head'[d] = head[d] /\ dirty'[d] = dirty[d] /\ leased'[d] = leased[d]
    BY <2>1, <2>2, AgentsKeep DEF IInv, calls, receipts
  <2>3. ASSUME NEW p \in Procs, CallStep(p) PROVE UNCHANGED untouched /\ (auth = 0 => auth' = 0)
    BY <2>3, CallsTouchNothing, CallsKeep DEF IInv
  <2>4. QED BY <2>1, <2>2, <2>3, StepKinds DEF vars, clone, receipts, untouched
<1>2. CASE state[d] \notin {"torn", "gone"}
  <2>1. PICK p \in Procs : CallStep(p) /\ Delete(p) /\ payload[p] = d /\ examined[p] = d
    BY <1>2, RemovalBegins
  <2>2. UNCHANGED untouched /\ (auth = 0 => auth' = 0)
    BY <2>1, CallsTouchNothing, CallsKeep DEF IInv
  <2>3. pc[p] = "delete" BY <2>1 DEF Delete
  <2>4. ~leased[d] /\ ~dirty[d] /\ head[d] = saw[p]
    BY <2>1, <2>3 DEF IInv, Checked
  <2>5. CASE p \in Abort
    BY <2>1, <2>2, <2>3, <2>4, <2>5 DEF IInv, Found, Checked, Inside, untouched
  <2>6. CASE p \notin Abort
    BY <2>1, <2>2, <2>3, <2>4, <2>6 DEF IInv, Found, Inside, untouched
  <2>7. QED BY <2>5, <2>6
<1>3. QED BY <1>1, <1>2

(* The last two receipts are written by a call that removed the clone, or  *)
(* that found the first of them.                                           *)
LEMMA ReceiptsTrue ==
  ASSUME IInv, [Next]_vars
  PROVE  SettledIsGone'
<1> SUFFICES ASSUME intent' # None \/ settled' # None PROVE state'[Delivered] = "gone"
  BY DEF SettledIsGone
<1>1. Delivered \in Dirs BY RetirementAssumption
<1>2. CASE state[Delivered] = "gone" BY <1>1, <1>2, GoneStays DEF IInv
<1>3. CASE intent' = intent /\ settled' = settled
  BY <1>2, <1>3 DEF IInv, SettledIsGone
<1>4. ASSUME NEW p \in Procs, CallStep(p), ~(intent' = intent /\ settled' = settled)
      PROVE  state'[Delivered] = "gone"
  <2>1. CreateIntent(p) \/ WriteIntent(p) \/ CreateSettled(p) \/ WriteSettled(p)
    BY <1>4 DEF CallStep, Look, Prove, Stat, Move, Check, Refuse, Restore, Back, Delete, Deleted,
       Replay, Die, CreateProof, WriteProof, CreateAuth, WriteAuth, Proceed, Stop, receipts
  <2>2. pc[p] \in Removed
    BY <2>1 DEF CreateIntent, WriteIntent, CreateSettled, WriteSettled, Proceed, Removed
  <2>3. QED BY <1>2, <2>2 DEF IInv, Found
<1>5. ASSUME NEW d \in Dirs, AgentStep(d) PROVE intent' = intent /\ settled' = settled
  BY <1>5, AgentsKeep DEF IInv, calls, receipts
<1>6. QED BY <1>3, <1>4, <1>5, StepKinds DEF vars, receipts

-----------------------------------------------------------------------------
(* The invariant holds at the start, when nothing has been looked at.      *)
LEMMA InvStarts == Init => IInv
<1> SUFFICES ASSUME Init PROVE IInv OBVIOUS
<1> USE RetirementAssumption, NoneApart DEF Init
<1>1. TypeOK BY DEF TypeOK, Commits, Steps, Receipt
<1>2. Places BY DEF Places, Inside, Checking
<1>3. CommitsApart
  <2>1. \A d \in Dirs : Marks(d) = {} BY DEF Marks
  <2>2. QED BY <2>1 DEF CommitsApart
<1>4. \A p \in Procs : Found(p) /\ Checked(p)
  BY DEF Found, Checked, Inside, Outside, Removed, Checking
<1>5. NoWorkIsLost /\ SettledIsGone BY DEF NoWorkIsLost, SettledIsGone
<1>6. QED BY <1>1, <1>2, <1>3, <1>4, <1>5 DEF IInv

(* And every step keeps it.                                                *)
LEMMA InvStays == IInv /\ [Next]_vars => IInv'
<1> SUFFICES ASSUME IInv, [Next]_vars PROVE IInv' OBVIOUS
<1>1. TypeOK /\ Places /\ CommitsApart BY DEF IInv
<1>2. ASSUME NEW d \in Dirs, AgentStep(d)
      PROVE  TypeOK' /\ Places' /\ CommitsApart' /\ \A p \in Procs : Call(p)'
  BY <1>1, <1>2, AgentTypes, AgentPlaces, AgentMarks, AgentCall
<1>3. ASSUME NEW q \in Procs, CallStep(q)
      PROVE  TypeOK' /\ Places' /\ CommitsApart' /\ \A p \in Procs : Call(p)'
  BY <1>1, <1>3, CallTypes, CallPlaces, CallMarks, OwnCall, OtherCall
<1>4. CASE UNCHANGED vars
  <2> USE <1>4 DEF vars, clone, held, receipts
  <2>1. TypeOK' BY <1>1 DEF TypeOK
  <2>2. Places' BY <1>1 DEF Places
  <2>3. CommitsApart'
    <3>1. \A d \in Dirs : Marks(d)' = Marks(d) BY DEF Marks
    <3>2. QED BY <1>1, <2>1, <3>1, FewerMarks DEF CommitsApart
  <2>4. \A p \in Procs : Call(p)' BY DEF IInv, Call, Found, Checked
  <2>5. QED BY <2>1, <2>2, <2>3, <2>4, WorkStays, ReceiptsTrue DEF IInv, Call
<1>5. QED BY <1>2, <1>3, <1>4, StepKinds, WorkStays, ReceiptsTrue DEF IInv, Call

LEMMA InvHolds == Spec => []IInv
BY InvStarts, InvStays, PTL DEF Spec

(* Whatever agents do at any moment, and wherever calls die: of a clone    *)
(* that is removed, or half removed, the HEAD was merged, nothing was      *)
(* changed since and nobody held a lease in it, or it never had work and   *)
(* its removal was authorized in writing (retire, abort-unready).          *)
THEOREM WorkIsSafe == Spec => []NoWorkIsLost
<1>1. IInv => NoWorkIsLost BY DEF IInv
<1>2. QED BY <1>1, InvHolds, PTL

(* No rename of quarantine_remove_verified hides or replaces a clone: each *)
(* that is not gone is in one place.                                       *)
THEOREM ClonesAreFound == Spec => []OnePlaceEach
<1>1. ASSUME IInv PROVE OnePlaceEach
  <2>1. TypeOK /\ Places BY <1>1 DEF IInv
  <2>2. ASSUME NEW d \in Dirs, state[d] \in {"whole", "torn"}
        PROVE  (dest = d) # (d \in left \cup {payload[p] : p \in Procs})
    <3>1. CASE dest = d BY <2>1, <3>1, NoneApart DEF Places
    <3>2. CASE dest # d BY <2>1, <2>2, <3>2 DEF Places
    <3>3. QED BY <3>1, <3>2
  <2>3. QED BY <2>1, <2>2, NoneApart DEF Places, OnePlaceEach
<1>2. QED BY <1>1, InvHolds, PTL

(* Where a receipt of the squash form says that the removal was intended   *)
(* or settled, the clone of that pull request is gone.                     *)
THEOREM ReceiptsAreTrue == Spec => []SettledIsGone
<1>1. IInv => SettledIsGone BY DEF IInv
<1>2. QED BY <1>1, InvHolds, PTL

(* A call removes only the directory it looked at first, also where it     *)
(* takes the inode it holds to later than its proof (the squash form).     *)
THEOREM OnlyTheExamined == Spec => RemovesWhatItExamined
<1>1. IInv /\ [Next]_vars =>
        [\A d \in Dirs : state[d] = "whole" /\ state'[d] = "torn" =>
           \E p \in Procs : payload[p] = d /\ examined[p] = d]_vars
  BY RemovalBegins
<1>2. QED BY <1>1, InvHolds, PTL DEF Spec, RemovesWhatItExamined

(* A call that ends before its rename, or after its removal, leaves        *)
(* nothing behind; one that gives up at the path finds a clone there.      *)
THEOREM LeftForAReason == Spec => LeftBehindForAReason
<1>1. ASSUME IInv, [Next]_vars, left' # left PROVE deaths' > deaths \/ dest # None
  <2> USE DEF Inside, Checking, place, held, receipts
  <2>1. ASSUME NEW d \in Dirs, AgentStep(d) PROVE FALSE
    BY <1>1, <2>1, AgentsKeep DEF IInv
  <2>2. ASSUME NEW p \in Procs, CallStep(p) PROVE deaths' > deaths \/ dest # None
    <3>1. pc[p] \notin Inside /\ End(p) => left' = left
      BY <1>1, NoneApart DEF IInv, Places, TypeOK, End, Kept
    <3>2. CASE Die(p)
      <4>1. deaths \in Nat /\ deaths' = deaths + 1
        BY <1>1, <3>2, RetirementAssumption DEF Die, IInv, TypeOK
      <4>2. QED BY <4>1
    <3>3. CASE Restore(p) \/ Back(p)
      BY <1>1, <3>3 DEF Restore, Back, Free, Stop
    <3>4. CASE Refuse(p)
      BY <1>1, <3>1, <3>4 DEF Refuse, Stop
    <3>5. CASE \/ CreateProof(p) \/ WriteProof(p) \/ CreateAuth(p) \/ WriteAuth(p)
               \/ CreateIntent(p) \/ WriteIntent(p) \/ CreateSettled(p) \/ WriteSettled(p)
      BY <1>1, <3>1, <3>5
      DEF CreateProof, WriteProof, CreateAuth, WriteAuth, CreateIntent, WriteIntent,
          CreateSettled, WriteSettled, Create, Proceed
    <3>6. CASE Look(p) \/ Prove(p) \/ Stat(p) \/ Move(p) \/ Check(p) \/ Delete(p) \/ Deleted(p) \/ Replay(p)
      BY <1>1, <3>6 DEF Look, Prove, Stat, Move, Check, Delete, Deleted, Replay
    <3>7. QED BY <2>2, <3>2, <3>3, <3>4, <3>5, <3>6 DEF CallStep
  <2>3. QED BY <1>1, <2>1, <2>2, StepKinds DEF vars
<1>2. IInv /\ [Next]_vars => [left' # left => deaths' > deaths \/ dest # None]_vars
  BY <1>1
<1>3. QED BY <1>2, InvHolds, PTL DEF Spec, LeftBehindForAReason
=============================================================================
