-------------------------- MODULE RelocationProofs --------------------------
(***************************************************************************)
(* Machine-checked proofs about Relocation, for any number of files, of    *)
(* calls and of writes of the client.                                      *)
(*                                                                         *)
(* While only one call is at work, where each file is follows from the     *)
(* call's step: ahead of the move or behind it, on its way back or not.    *)
(* Two calls at once can lose nothing either, as long as nobody writes: no *)
(* step takes a file away without putting it somewhere.                    *)
(***************************************************************************)
EXTENDS Relocation, TLAPS

AllZero == [f \in File |-> 0]
Busy(p) == pc[p] # "idle"

(* Calls follow one another until two of them are at work at once.         *)
Alone == ~shared => \A p, q \in Procs : Busy(p) /\ Busy(q) => p = q

(* A call is at a file where its step needs one; none has moved any yet.   *)
AtFile(p) ==
  /\ ~Busy(p) => moved[p] = {} /\ bad[p] = FALSE
  /\ pc[p] = "move" => at[p] # 0
  /\ pc[p] \in {"unmove", "back"} => at[p] \in File
  /\ pc[p] = "redo" => at[p] # 0
  /\ pc[p] \in {"undo", "look"} => at[p] <= Files
  /\ pc[p] = "back" => plan[p][at[p]] # None

Basics == TypeOK /\ Alone /\ \A p \in Procs : AtFile(p)

-----------------------------------------------------------------------------
(* Nobody writes: every file is somewhere, in its only version.            *)
Somewhere(f) == source[f] # None \/ staging[f] # None \/ target[f] # None

Unwritten ==
  writes = 0 =>
    /\ live = {<<f, 0>> : f \in File}
    /\ \A f \in File : {source[f], staging[f], target[f]} \subseteq {0, None} /\ Somewhere(f)

(* One call at a time: what its next rename would replace is not there, or *)
(* is a client's file that came after the look.                            *)
Kept == \A v \in live : v[2] \in {source[v[1]], staging[v[1]], target[v[1]]}

Returned(p, f) == f \in moved[p] /\ (pc[p] = "redo" => at[p] <= f)

FreeAhead(p) ==
  /\ pc[p] = "move" => \A f \in File : at[p] <= f => staging[f] = None
  /\ pc[p] \in {"unmove", "back"} /\ ~late => source[at[p]] = None
  /\ RollingBack(p) => \A f \in File : Returned(p, f) => target[f] = None

Lossless ==
  /\ ~stagingDir => staging = Empty
  /\ ~shared => \A p \in Procs : FreeAhead(p)
  /\ ~shared /\ ~late => Kept

-----------------------------------------------------------------------------
(* The manifest a call is about to publish, or goes by, is true.           *)
Listing(p) ==
  /\ pc[p] \in {"manifest", "rmroots", "publish"} => Verified(p)
  /\ pc[p] \in {"rmroots", "publish"} => manifest = "staging" /\ listed = plan[p]
  /\ RollingBack(p) /\ ~disturbed =>
       /\ plan[p] = listed
       /\ \A f \in File : Planned(p, f) =>
            IF Returned(p, f) THEN source[f] = plan[p][f] ELSE target[f] = plan[p][f]
       /\ \A f \in moved[p] : Planned(p, f)
       /\ pc[p] \in {"look", "back"} => \A f \in moved[p] : at[p] < f

TrueListing ==
  ~shared =>
    /\ \A p \in Procs : Listing(p)
    /\ manifest = "target" /\ ~disturbed /\ (\A p \in Procs : ~RollingBack(p)) =>
         \A f \in File : listed[f] # None => target[f] = listed[f]

-----------------------------------------------------------------------------
(* Nothing is at a target that is not there, and no apply is at work while *)
(* there is a manifest; if nobody writes, what it lists is there or back.  *)
ThereOrBack == \A f \in File : listed[f] # None => listed[f] \in {source[f], target[f]}

Papers ==
  /\ target # Empty => targetDir
  /\ ~shared =>
       /\ manifest = "target" => targetDir /\ \A p \in Procs : pc[p] \notin Applying \cup Undoing
       /\ \A p \in Procs : pc[p] \in {"rmtarget", "receipt"} => manifest # "target"
       /\ manifest = "target" /\ writes = 0 => ThereOrBack

-----------------------------------------------------------------------------
(* No kill and no write: a file is in one place, which the step tells. A   *)
(* file whose move back failed stays in staging.                           *)
Unwinding(p) == pc[p] \in {"undo", "unmove"}

InStaging(p, f) ==
  \/ pc[p] = "move" /\ f < at[p]
  \/ pc[p] \in {"verify", "manifest", "rmroots", "publish"}
  \/ Unwinding(p) /\ f \in moved[p] /\ (f <= at[p] \/ f \in stuck)

InTarget(p, f) == RollingBack(p) /\ ~Returned(p, f)

Place(p, f) ==
  /\ source[f] = IF InStaging(p, f) \/ InTarget(p, f) THEN None ELSE 0
  /\ staging[f] = IF InStaging(p, f) THEN 0 ELSE None
  /\ target[f] = IF InTarget(p, f) THEN 0 ELSE None

Placed(p) ==
  /\ \A f \in File : Place(p, f)
  /\ plan[p] = AllZero
  /\ ~Unwinding(p) => bad[p] = FALSE /\ stuck = {}
  /\ Unwinding(p) =>
       /\ bad[p] <=> stuck # {}
       /\ \A f \in stuck : f \in moved[p] /\ at[p] < f
  /\ pc[p] \in Applying => moved[p] = {f \in File : InStaging(p, f)}
  /\ pc[p] = "unmove" => at[p] \in moved[p]
  /\ pc[p] \in {"look", "back"} => moved[p] = {f \in File : at[p] < f}
  /\ pc[p] \in Returning \ {"look", "back"} => moved[p] = File

Quiet == ~shared /\ kills = 0 /\ writes = 0

WholeOrUnderWay ==
  Quiet =>
    /\ AtRest => Together \/ Split
    /\ \A p \in Procs : Busy(p) => Placed(p)
    /\ manifest # None => listed = AllZero

IInv == Basics /\ Unwritten /\ Lossless /\ TrueListing /\ Papers /\ WholeOrUnderWay

-----------------------------------------------------------------------------
CallStep(p) ==
  \/ Apply(p) \/ MakeStaging(p) \/ Move(p) \/ Verify(p) \/ WriteManifest(p)
  \/ RemoveRoots(p) \/ Publish(p) \/ Undo(p) \/ Unmove(p) \/ Cleanup(p)
  \/ Rollback(p) \/ Look(p) \/ Back(p) \/ Restored(p) \/ Archive(p)
  \/ RemoveTarget(p) \/ WriteReceipt(p) \/ Redo(p) \/ Fault(p) \/ Killed(p)

-----------------------------------------------------------------------------
(* What a call's step makes of its control variables: it touches no other  *)
(* call's.                                                                 *)
ControlTypes ==
  /\ pc \in [Procs -> Steps] /\ at \in [Procs -> 0..Files + 1]
  /\ plan \in [Procs -> Contents] /\ moved \in [Procs -> SUBSET File]
  /\ bad \in [Procs -> BOOLEAN]

Others(p) ==
  \A q \in Procs \ {p} :
    /\ pc'[q] = pc[q] /\ at'[q] = at[q] /\ plan'[q] = plan[q]
    /\ moved'[q] = moved[q] /\ bad'[q] = bad[q]

Becomes(p, s, i, pl, m, b) ==
  /\ pc'[p] = s /\ at'[p] = i /\ plan'[p] = pl /\ moved'[p] = m /\ bad'[p] = b
  /\ Others(p) /\ ControlTypes'

Ended(p) == Becomes(p, "idle", 0, Empty, {}, FALSE)
Goes(p, s, i) == Becomes(p, s, i, plan[p], moved[p], bad[p])
Still ==
  UNCHANGED <<source, staging, target, roots, stagingDir, targetDir, manifest, listed, archived, receipt>>
Diverted(p) ==
  \/ pc[p] \in Applying /\ Goes(p, "undo", Files)
  \/ pc[p] \notin Applying /\ Goes(p, "redo", 1)
Failed(p) == Diverted(p) /\ Still
SameHistory == UNCHANGED <<live, late, disturbed, shared, stuck, writes, calls, faults, kills>>

LEMMA StepsHave ==
  /\ \A s \in {"idle", "mkdir", "move", "verify", "manifest", "rmroots", "publish",
               "undo", "unmove", "cleanup", "look", "back", "restored", "archive",
               "rmtarget", "receipt", "redo"} : s \in Steps
  /\ Applying \subseteq Steps /\ Returning \subseteq Steps
BY DEF Steps, Applying, Undoing, Returning

LEMMA FilesNat == Files \in Nat /\ Files > 0 /\ File = 1..Files
BY RelocationAssumption DEF File

LEMMA EmptyTypes == Empty \in Contents /\ \A f \in File : Empty[f] = None
BY DEF Empty, Contents

LEMMA Ending ==
  ASSUME TypeOK, NEW p \in Procs, End(p)
  PROVE  Ended(p)
BY StepsHave, FilesNat, EmptyTypes
   DEF TypeOK, End, Goto, Reach, Ended, Becomes, Others, ControlTypes

LEMMA Diverting ==
  ASSUME TypeOK, NEW p \in Procs, ToUndoing(p)
  PROVE  Diverted(p)
<1>1. 1 \in 0..Files + 1 /\ Files \in 0..Files + 1
  BY FilesNat
<1>2. CASE pc[p] \in Applying
  BY <1>1, <1>2, StepsHave
     DEF TypeOK, ToUndoing, Goto, Reach, Diverted, Goes, Becomes, Others, ControlTypes
<1>3. CASE pc[p] \notin Applying
  BY <1>1, <1>3, StepsHave
     DEF TypeOK, ToUndoing, Goto, Reach, Diverted, Goes, Becomes, Others, ControlTypes
<1>. QED  BY <1>2, <1>3

LEMMA Failing ==
  ASSUME TypeOK, NEW p \in Procs, Fail(p)
  PROVE  Failed(p)
BY Diverting DEF Fail, Failed, Still, places, dirs, paper

LEMMA Going ==
  ASSUME TypeOK, NEW p \in Procs, NEW s \in Steps, NEW i \in 0..Files + 1,
         \/ Goto(p, s)
         \/ pc' = pc /\ s = pc[p],
         \/ Reach(p, i)
         \/ at' = at /\ i = at[p],
         UNCHANGED <<plan, moved, bad>>
  PROVE  Goes(p, s, i)
<1>1. pc'[p] = s /\ pc' \in [Procs -> Steps] /\ \A q \in Procs \ {p} : pc'[q] = pc[q]
  BY DEF TypeOK, Goto
<1>2. at'[p] = i /\ at' \in [Procs -> 0..Files + 1] /\ \A q \in Procs \ {p} : at'[q] = at[q]
  BY DEF TypeOK, Reach
<1>. QED  BY <1>1, <1>2 DEF TypeOK, Goes, Becomes, Others, ControlTypes

LEMMA Noting ==
  ASSUME TypeOK, NEW p \in Procs, NEW s \in Steps, NEW i \in 0..Files + 1, NEW f \in File,
         \/ Goto(p, s)
         \/ pc' = pc /\ s = pc[p],
         Reach(p, i), Note(p, f), UNCHANGED <<plan, bad>>
  PROVE  Becomes(p, s, i, plan[p], moved[p] \cup {f}, bad[p])
<1>1. pc'[p] = s /\ pc' \in [Procs -> Steps] /\ \A q \in Procs \ {p} : pc'[q] = pc[q]
  BY DEF TypeOK, Goto
<1>2. at'[p] = i /\ at' \in [Procs -> 0..Files + 1] /\ \A q \in Procs \ {p} : at'[q] = at[q]
  BY DEF TypeOK, Reach
<1>3. moved'[p] = moved[p] \cup {f} /\ moved' \in [Procs -> SUBSET File]
      /\ \A q \in Procs \ {p} : moved'[q] = moved[q]
  BY DEF TypeOK, Note
<1>. QED  BY <1>1, <1>2, <1>3 DEF TypeOK, Becomes, Others, ControlTypes

-----------------------------------------------------------------------------
(* Each step with its cases apart.                                         *)
LEMMA ApplyDoes ==
  ASSUME TypeOK, NEW p \in Procs, Apply(p)
  PROVE  /\ pc[p] = "idle" /\ roots /\ source # Empty /\ Clear /\ Still
         /\ Becomes(p, "mkdir", at[p], source, moved[p], bad[p])
BY StepsHave
   DEF TypeOK, Apply, Goto, Becomes, Others, ControlTypes, Still, places, dirs, paper

LEMMA MakeStagingDoes ==
  ASSUME TypeOK, NEW p \in Procs, MakeStaging(p)
  PROVE  /\ pc[p] = "mkdir" /\ SameHistory
         /\ \/ Failed(p)
            \/ /\ Goes(p, "move", 1) /\ ~stagingDir /\ stagingDir'
               /\ UNCHANGED <<places, roots, targetDir, paper>>
<1>1. 1 \in 0..Files + 1 BY FilesNat
<1>2. pc[p] = "mkdir" /\ SameHistory
  BY DEF MakeStaging, SameHistory, history, bounds
<1>3. CASE stagingDir
  BY <1>2, <1>3, Failing DEF MakeStaging
<1>4. CASE ~stagingDir
  BY <1>1, <1>2, <1>4, Going, StepsHave DEF MakeStaging
<1>. QED  BY <1>3, <1>4

Taken(p, f) ==
  /\ source[f] # None
  /\ source' = [source EXCEPT ![f] = None] /\ staging' = [staging EXCEPT ![f] = source[f]]
  /\ stagingDir' /\ UNCHANGED <<target, roots, targetDir, paper>>

LEMMA MoveDoes ==
  ASSUME TypeOK, NEW p \in Procs, AtFile(p), Move(p)
  PROVE  /\ pc[p] = "move" /\ SameHistory
         /\ \/ at[p] > Files /\ Goes(p, "verify", 0) /\ Still
            \/ /\ at[p] \in File /\ ~Planned(p, at[p])
               /\ Goes(p, "move", at[p] + 1) /\ Still
            \/ Failed(p)
            \/ /\ at[p] \in File /\ Planned(p, at[p]) /\ Taken(p, at[p])
               /\ Becomes(p, "move", at[p] + 1, plan[p], moved[p] \cup {at[p]}, bad[p])
<1>0. pc[p] = "move" /\ SameHistory
  BY DEF Move, SameHistory, history, bounds
<1>1. at[p] \in Nat /\ at[p] # 0 /\ at[p] <= Files + 1
  BY <1>0, FilesNat DEF TypeOK, AtFile
<1>2. 0 \in 0..Files + 1 /\ (at[p] <= Files => at[p] \in File /\ at[p] + 1 \in 0..Files + 1)
  BY <1>1, FilesNat
<1>3. CASE at[p] > Files
  <2>1. Goto(p, "verify") /\ Reach(p, 0) /\ UNCHANGED <<places, dirs, paper, plan, moved, bad>>
    BY <1>1, <1>3, FilesNat DEF Move
  <2>. QED  BY <1>0, <1>2, <1>3, <2>1, Going, StepsHave DEF Still, places, dirs, paper
<1>4. CASE at[p] <= Files /\ ~Planned(p, at[p])
  <2>1. Reach(p, at[p] + 1) /\ UNCHANGED <<places, dirs, paper, pc, plan, moved, bad>>
    BY <1>1, <1>4, FilesNat DEF Move
  <2>. QED  BY <1>0, <1>2, <1>4, <2>1, Going, StepsHave DEF Still, places, dirs, paper
<1>5. CASE at[p] <= Files /\ Planned(p, at[p]) /\ source[at[p]] = None
  BY <1>0, <1>1, <1>5, Failing, FilesNat DEF Move
<1>6. CASE at[p] <= Files /\ Planned(p, at[p]) /\ source[at[p]] # None
  <2>1. /\ Taken(p, at[p]) /\ Note(p, at[p]) /\ Reach(p, at[p] + 1)
        /\ UNCHANGED <<pc, plan, bad>>
    BY <1>1, <1>6, FilesNat DEF Move, Taken
  <2>. QED  BY <1>0, <1>2, <1>6, <2>1, Noting, StepsHave
<1>. QED  BY <1>1, <1>3, <1>4, <1>5, <1>6, FilesNat

LEMMA VerifyDoes ==
  ASSUME TypeOK, NEW p \in Procs, Verify(p)
  PROVE  /\ pc[p] = "verify" /\ SameHistory
         /\ \/ Failed(p)
            \/ Verified(p) /\ Goes(p, "manifest", at[p]) /\ Still
<1>1. at[p] \in 0..Files + 1 BY DEF TypeOK
<1>2. pc[p] = "verify" /\ SameHistory
  BY DEF Verify, SameHistory, history, bounds
<1>3. CASE ~Verified(p)
  <2>1. Fail(p) BY <1>3 DEF Verify
  <2>. QED  BY <1>2, <2>1, Failing
<1>4. CASE Verified(p)
  <2>1. Goto(p, "manifest") /\ UNCHANGED <<places, dirs, paper, at, plan, moved, bad>>
    BY <1>4 DEF Verify
  <2>. QED
    BY <1>1, <1>2, <1>4, <2>1, Going, StepsHave DEF Still, places, dirs, paper
<1>. QED  BY <1>3, <1>4

LEMMA WriteManifestDoes ==
  ASSUME TypeOK, NEW p \in Procs, WriteManifest(p)
  PROVE  /\ pc[p] = "manifest" /\ SameHistory /\ Goes(p, "rmroots", at[p])
         /\ manifest' = "staging" /\ listed' = plan[p] /\ stagingDir'
         /\ UNCHANGED <<places, roots, targetDir, archived, receipt>>
<1>1. at[p] \in 0..Files + 1 BY DEF TypeOK
<1>. QED
  BY <1>1, Going, StepsHave DEF WriteManifest, SameHistory, history, bounds

LEMMA RemoveRootsDoes ==
  ASSUME TypeOK, NEW p \in Procs, RemoveRoots(p)
  PROVE  /\ pc[p] = "rmroots" /\ SameHistory
         /\ \/ Failed(p)
            \/ /\ Goes(p, "publish", at[p]) /\ roots' = FALSE
               /\ UNCHANGED <<places, stagingDir, targetDir, paper>>
<1>1. at[p] \in 0..Files + 1 BY DEF TypeOK
<1>. QED
  BY <1>1, Failing, Going, StepsHave DEF RemoveRoots, SameHistory, history, bounds

LEMMA PublishDoes ==
  ASSUME TypeOK, NEW p \in Procs, Publish(p)
  PROVE  /\ pc[p] = "publish" /\ SameHistory
         /\ \/ Failed(p)
            \/ /\ Ended(p) /\ target = Empty
               /\ target' = staging /\ staging' = Empty /\ targetDir' = TRUE /\ stagingDir' = FALSE
               /\ manifest' = IF manifest = "staging" THEN "target" ELSE manifest
               /\ UNCHANGED <<source, roots, listed, archived, receipt>>
BY Failing, Ending DEF Publish, SameHistory, history, bounds

LEMMA UndoDoes ==
  ASSUME TypeOK, NEW p \in Procs, AtFile(p), Undo(p)
  PROVE  /\ pc[p] = "undo" /\ SameHistory /\ Still
         /\ \/ at[p] = 0 /\ Ended(p) /\ bad[p]
            \/ at[p] = 0 /\ Goes(p, "cleanup", 0) /\ ~bad[p]
            \/ at[p] \in File /\ at[p] \notin moved[p] /\ Goes(p, "undo", at[p] - 1)
            \/ /\ at[p] \in moved[p] /\ Blocked(at[p])
               /\ Becomes(p, "undo", at[p] - 1, plan[p], moved[p], TRUE)
            \/ at[p] \in moved[p] /\ ~Blocked(at[p]) /\ Goes(p, "unmove", at[p])
<1>0. pc[p] = "undo" /\ SameHistory /\ Still
  BY DEF Undo, SameHistory, history, bounds, Still, places, dirs, paper
<1>1. at[p] \in 0..Files /\ 0 \notin moved[p] /\ moved[p] \subseteq File
  BY <1>0, FilesNat DEF TypeOK, AtFile
<1>2. at[p] \in 0..Files + 1 /\ (at[p] # 0 => at[p] - 1 \in 0..Files + 1 /\ at[p] > 0 /\ at[p] \in File)
  BY <1>1, FilesNat
<1>3. CASE at[p] = 0
  <2>1. CASE bad[p]
    <3>1. End(p) BY <1>1, <1>3, <2>1 DEF Undo
    <3>. QED  BY <1>0, <1>3, <2>1, <3>1, Ending
  <2>2. CASE ~bad[p]
    <3>1. Goto(p, "cleanup") /\ UNCHANGED <<at, plan, moved, bad>>
      BY <1>1, <1>3, <2>2 DEF Undo
    <3>. QED  BY <1>0, <1>2, <1>3, <2>2, <3>1, Going, StepsHave
  <2>. QED  BY <2>1, <2>2
<1>4. CASE at[p] # 0 /\ at[p] \notin moved[p]
  <2>1. Reach(p, at[p] - 1) /\ UNCHANGED <<pc, plan, moved, bad>>
    BY <1>2, <1>4 DEF Undo
  <2>. QED  BY <1>0, <1>2, <1>4, <2>1, Going, StepsHave
<1>5. CASE at[p] \in moved[p] /\ Blocked(at[p])
  <2>1. bad' = [bad EXCEPT ![p] = TRUE] /\ Reach(p, at[p] - 1) /\ UNCHANGED <<pc, plan, moved>>
    BY <1>1, <1>2, <1>5 DEF Undo
  <2>2. Becomes(p, "undo", at[p] - 1, plan[p], moved[p], TRUE)
    BY <1>0, <1>1, <1>2, <1>5, <2>1 DEF TypeOK, Reach, Becomes, Others, ControlTypes
  <2>. QED  BY <1>0, <1>5, <2>2
<1>6. CASE at[p] \in moved[p] /\ ~Blocked(at[p])
  <2>1. Goto(p, "unmove") /\ UNCHANGED <<at, plan, moved, bad>>
    BY <1>1, <1>2, <1>6 DEF Undo
  <2>. QED  BY <1>0, <1>2, <1>6, <2>1, Going, StepsHave
<1>. QED  BY <1>3, <1>4, <1>5, <1>6

Untaken(p, f) ==
  /\ staging[f] # None
  /\ source' = [source EXCEPT ![f] = staging[f]] /\ staging' = [staging EXCEPT ![f] = None]

LEMMA UnmoveDoes ==
  ASSUME TypeOK, NEW p \in Procs, AtFile(p), Unmove(p)
  PROVE  /\ pc[p] = "unmove" /\ SameHistory /\ at[p] \in File /\ roots'
         /\ UNCHANGED <<target, stagingDir, targetDir, paper>>
         /\ \/ /\ staging[at[p]] = None /\ UNCHANGED <<source, staging>>
               /\ Becomes(p, "undo", at[p] - 1, plan[p], moved[p], TRUE)
            \/ Untaken(p, at[p]) /\ Goes(p, "undo", at[p] - 1)
<1>0. /\ pc[p] = "unmove" /\ SameHistory /\ at[p] \in File
      /\ Goto(p, "undo") /\ Reach(p, at[p] - 1) /\ UNCHANGED <<plan, moved>>
      /\ roots' /\ UNCHANGED <<target, stagingDir, targetDir, paper>>
  BY DEF AtFile, Unmove, SameHistory, history, bounds
<1>1. at[p] - 1 \in 0..Files + 1 BY <1>0, FilesNat
<1>2. CASE staging[at[p]] = None
  <2>1. bad' = [bad EXCEPT ![p] = TRUE] /\ UNCHANGED <<source, staging>>
    BY <1>2 DEF Unmove
  <2>2. Becomes(p, "undo", at[p] - 1, plan[p], moved[p], TRUE)
    BY <1>0, <1>1, <2>1, StepsHave DEF TypeOK, Goto, Reach, Becomes, Others, ControlTypes
  <2>. QED  BY <1>0, <1>2, <2>1, <2>2
<1>3. CASE staging[at[p]] # None
  <2>1. Untaken(p, at[p]) /\ UNCHANGED bad BY <1>3 DEF Unmove, Untaken
  <2>. QED  BY <1>0, <1>1, <1>3, <2>1, Going, StepsHave
<1>. QED  BY <1>2, <1>3

LEMMA CleanupDoes ==
  ASSUME TypeOK, NEW p \in Procs, Cleanup(p)
  PROVE  /\ pc[p] = "cleanup" /\ SameHistory /\ Ended(p)
         /\ UNCHANGED <<places, roots, targetDir, paper>>
         /\ stagingDir' = (stagingDir /\ (staging # Empty \/ manifest = "staging"))
BY Ending DEF Cleanup, SameHistory, history, bounds

LEMMA RollbackDoes ==
  ASSUME TypeOK, NEW p \in Procs, Rollback(p)
  PROVE  /\ pc[p] = "idle" /\ Returnable /\ Still
         /\ Becomes(p, "look", Files, listed, moved[p], bad[p])
<1>1. Files \in 0..Files + 1 BY FilesNat
<1>. QED
  BY <1>1, StepsHave
     DEF TypeOK, Rollback, Goto, Reach, Becomes, Others, ControlTypes, Still, places, dirs, paper

LEMMA LookDoes ==
  ASSUME TypeOK, NEW p \in Procs, AtFile(p), Look(p)
  PROVE  /\ pc[p] = "look" /\ SameHistory /\ Still
         /\ \/ at[p] = 0 /\ Goes(p, "restored", 0)
            \/ at[p] \in File /\ ~Planned(p, at[p]) /\ Goes(p, "look", at[p] - 1)
            \/ at[p] \in File /\ Planned(p, at[p]) /\ source[at[p]] # None /\ Goes(p, "redo", 1)
            \/ /\ at[p] \in File /\ Planned(p, at[p]) /\ source[at[p]] = None
               /\ Goes(p, "back", at[p])
<1>0. pc[p] = "look" /\ SameHistory
  BY DEF Look, SameHistory, history, bounds
<1>1. at[p] \in 0..Files
  BY <1>0, FilesNat DEF TypeOK, AtFile
<1>2. at[p] \in 0..Files + 1 /\ (at[p] # 0 => at[p] - 1 \in 0..Files + 1 /\ at[p] > 0 /\ at[p] \in File)
  BY <1>1, FilesNat
<1>3. CASE at[p] = 0
  <2>1. Goto(p, "restored") /\ UNCHANGED <<places, dirs, paper, at, plan, moved, bad>>
    BY <1>1, <1>3 DEF Look
  <2>. QED  BY <1>0, <1>2, <1>3, <2>1, Going, StepsHave DEF Still, places, dirs, paper
<1>4. CASE at[p] # 0 /\ ~Planned(p, at[p])
  <2>1. Reach(p, at[p] - 1) /\ UNCHANGED <<places, dirs, paper, pc, plan, moved, bad>>
    BY <1>2, <1>4 DEF Look
  <2>. QED  BY <1>0, <1>2, <1>4, <2>1, Going, StepsHave DEF Still, places, dirs, paper
<1>5. CASE at[p] # 0 /\ Planned(p, at[p]) /\ source[at[p]] # None
  <2>1. Fail(p) BY <1>2, <1>5 DEF Look
  <2>. QED  BY <1>0, <1>2, <1>5, <2>1, Failing DEF Failed, Diverted, Applying
<1>6. CASE at[p] # 0 /\ Planned(p, at[p]) /\ source[at[p]] = None
  <2>1. Goto(p, "back") /\ UNCHANGED <<places, dirs, paper, at, plan, moved, bad>>
    BY <1>2, <1>6 DEF Look
  <2>. QED  BY <1>0, <1>2, <1>6, <2>1, Going, StepsHave DEF Still, places, dirs, paper
<1>. QED  BY <1>3, <1>4, <1>5, <1>6

PutBack(f) ==
  /\ target[f] # None
  /\ source' = [source EXCEPT ![f] = target[f]] /\ target' = [target EXCEPT ![f] = None]

LEMMA BackDoes ==
  ASSUME TypeOK, NEW p \in Procs, AtFile(p), Back(p)
  PROVE  /\ pc[p] = "back" /\ SameHistory /\ at[p] \in File /\ Planned(p, at[p]) /\ roots'
         /\ UNCHANGED <<staging, stagingDir, targetDir, paper>>
         /\ \/ target[at[p]] = None /\ Goes(p, "redo", 1) /\ UNCHANGED <<source, target>>
            \/ /\ PutBack(at[p])
               /\ Becomes(p, "look", at[p] - 1, plan[p], moved[p] \cup {at[p]}, bad[p])
<1>0. /\ pc[p] = "back" /\ SameHistory /\ at[p] \in File /\ Planned(p, at[p])
      /\ roots' /\ UNCHANGED <<staging, stagingDir, targetDir, paper, plan, bad>>
  BY DEF AtFile, Back, SameHistory, history, bounds, Planned
<1>1. at[p] - 1 \in 0..Files + 1 /\ 1 \in 0..Files + 1 BY <1>0, FilesNat
<1>2. CASE target[at[p]] = None
  <2>1. Goto(p, "redo") /\ Reach(p, 1) /\ UNCHANGED <<source, target, moved>>
    BY <1>2 DEF Back
  <2>. QED  BY <1>0, <1>1, <1>2, <2>1, Going, StepsHave
<1>3. CASE target[at[p]] # None
  <2>1. PutBack(at[p]) /\ Note(p, at[p]) /\ Goto(p, "look") /\ Reach(p, at[p] - 1)
    BY <1>3 DEF Back, PutBack
  <2>. QED  BY <1>0, <1>1, <1>3, <2>1, Noting, StepsHave
<1>. QED  BY <1>2, <1>3

LEMMA RestoredDoes ==
  ASSUME TypeOK, NEW p \in Procs, Restored(p)
  PROVE  /\ pc[p] = "restored" /\ SameHistory /\ Still
         /\ \/ Goes(p, "redo", 1)
            \/ source = plan[p] /\ Goes(p, "archive", at[p])
<1>1. at[p] \in 0..Files + 1 BY DEF TypeOK
<1>2. pc[p] = "restored" /\ SameHistory
  BY DEF Restored, SameHistory, history, bounds
<1>3. CASE source # plan[p]
  <2>1. Fail(p) BY <1>3 DEF Restored
  <2>. QED  BY <1>2, <2>1, Failing DEF Failed, Diverted, Applying
<1>4. CASE source = plan[p]
  <2>1. Goto(p, "archive") /\ UNCHANGED <<places, dirs, paper, at, plan, moved, bad>>
    BY <1>4 DEF Restored
  <2>. QED  BY <1>1, <1>2, <1>4, <2>1, Going, StepsHave DEF Still, places, dirs, paper
<1>. QED  BY <1>3, <1>4

LEMMA ArchiveDoes ==
  ASSUME TypeOK, NEW p \in Procs, Archive(p)
  PROVE  /\ pc[p] = "archive" /\ SameHistory
         /\ \/ Goes(p, "redo", 1) /\ Still
            \/ /\ Goes(p, "rmtarget", at[p]) /\ manifest = "target" /\ manifest' = None
               /\ archived' /\ UNCHANGED <<places, dirs, listed, receipt>>
<1>1. at[p] \in 0..Files + 1 BY DEF TypeOK
<1>2. pc[p] = "archive" /\ SameHistory
  BY DEF Archive, SameHistory, history, bounds
<1>3. CASE manifest # "target" \/ archived
  BY <1>2, <1>3, Failing DEF Archive, Failed, Diverted, Applying
<1>4. CASE manifest = "target" /\ ~archived
  BY <1>1, <1>2, <1>4, Going, StepsHave DEF Archive
<1>. QED  BY <1>3, <1>4

LEMMA RemoveTargetDoes ==
  ASSUME TypeOK, NEW p \in Procs, RemoveTarget(p)
  PROVE  /\ pc[p] = "rmtarget" /\ SameHistory
         /\ \/ Goes(p, "redo", 1) /\ Still
            \/ /\ Goes(p, "receipt", at[p]) /\ target = Empty /\ targetDir' = FALSE
               /\ UNCHANGED <<places, roots, stagingDir, paper>>
<1>1. at[p] \in 0..Files + 1 BY DEF TypeOK
<1>2. pc[p] = "rmtarget" /\ SameHistory
  BY DEF RemoveTarget, SameHistory, history, bounds
<1>3. CASE target # Empty
  BY <1>2, <1>3, Failing DEF RemoveTarget, Failed, Diverted, Applying
<1>4. CASE target = Empty
  BY <1>1, <1>2, <1>4, Going, StepsHave DEF RemoveTarget
<1>. QED  BY <1>3, <1>4

LEMMA WriteReceiptDoes ==
  ASSUME TypeOK, NEW p \in Procs, WriteReceipt(p)
  PROVE  /\ pc[p] = "receipt" /\ SameHistory /\ Ended(p) /\ receipt'
         /\ UNCHANGED <<places, dirs, manifest, listed, archived>>
BY Ending DEF WriteReceipt, SameHistory, history, bounds

Resent(f) ==
  /\ source[f] # None
  /\ target' = [target EXCEPT ![f] = source[f]] /\ source' = [source EXCEPT ![f] = None]

LEMMA RedoDoes ==
  ASSUME TypeOK, NEW p \in Procs, AtFile(p), Redo(p)
  PROVE  /\ pc[p] = "redo" /\ SameHistory /\ targetDir' \in BOOLEAN
         /\ UNCHANGED <<staging, roots, stagingDir, paper>>
         /\ \/ at[p] > Files /\ Ended(p) /\ UNCHANGED <<source, target>>
            \/ /\ at[p] \in File /\ at[p] \notin moved[p]
               /\ Goes(p, "redo", at[p] + 1) /\ UNCHANGED <<source, target>>
            \/ /\ at[p] \in moved[p] /\ source[at[p]] = None /\ Ended(p)
               /\ UNCHANGED <<source, target>>
            \/ at[p] \in moved[p] /\ Resent(at[p]) /\ Goes(p, "redo", at[p] + 1)
<1>0. pc[p] = "redo" /\ SameHistory /\ UNCHANGED paper
  BY DEF Redo, SameHistory, history, bounds
<1>1. at[p] \in Nat /\ at[p] # 0 /\ at[p] <= Files + 1 /\ moved[p] \subseteq File
  BY <1>0, FilesNat DEF TypeOK, AtFile
<1>2. /\ at[p] <= Files => at[p] \in File /\ at[p] + 1 \in 0..Files + 1
      /\ at[p] \in moved[p] => at[p] <= Files
  BY <1>1, FilesNat
<1>3. CASE at[p] > Files
  <2>1. End(p) /\ UNCHANGED <<places, dirs>>
    BY <1>1, <1>3, FilesNat DEF Redo
  <2>. QED  BY <1>0, <1>3, <2>1, Ending DEF TypeOK, places, dirs
<1>4. CASE at[p] <= Files /\ at[p] \notin moved[p]
  <2>1. Reach(p, at[p] + 1) /\ UNCHANGED <<places, dirs, pc, plan, moved, bad>>
    BY <1>1, <1>4, FilesNat DEF Redo
  <2>. QED  BY <1>0, <1>2, <1>4, <2>1, Going, StepsHave DEF TypeOK, places, dirs
<1>5. CASE at[p] <= Files /\ at[p] \in moved[p] /\ source[at[p]] = None
  <2>1. targetDir' /\ UNCHANGED <<staging, roots, stagingDir>> /\ End(p) /\ UNCHANGED <<source, target>>
    BY <1>1, <1>5, FilesNat DEF Redo
  <2>. QED  BY <1>0, <1>5, <2>1, Ending
<1>6. CASE at[p] <= Files /\ at[p] \in moved[p] /\ source[at[p]] # None
  <2>1. /\ targetDir' /\ UNCHANGED <<staging, roots, stagingDir>> /\ Resent(at[p])
        /\ Reach(p, at[p] + 1) /\ UNCHANGED <<pc, plan, moved, bad>>
    BY <1>1, <1>6, FilesNat DEF Redo, Resent
  <2>. QED  BY <1>0, <1>2, <1>6, <2>1, Going, StepsHave
<1>. QED  BY <1>1, <1>2, <1>3, <1>4, <1>5, <1>6, FilesNat

(* What a failing step leaves done.                                        *)
Grown ==
  /\ stagingDir => stagingDir'
  /\ targetDir => targetDir'
  /\ {roots', stagingDir', targetDir', receipt'} \subseteq BOOLEAN

LEMMA FaultDoes ==
  ASSUME TypeOK, NEW p \in Procs, AtFile(p), Fault(p)
  PROVE  /\ UNCHANGED <<source, staging, target, manifest, listed, archived>> /\ Grown
         /\ UNCHANGED <<live, late, shared, writes, calls, kills>>
         /\ faults' = faults + 1 /\ faults < MaxFaults
         /\ \/ /\ pc[p] \in Applying \cup Returning /\ Diverted(p)
               /\ UNCHANGED <<stuck, disturbed>>
            \/ /\ pc[p] = "unmove" /\ at[p] \in File
               /\ Becomes(p, "undo", at[p] - 1, plan[p], moved[p], TRUE)
               /\ stuck' = stuck \cup {at[p]} /\ disturbed' = disturbed
            \/ pc[p] = "cleanup" /\ Ended(p) /\ UNCHANGED <<stuck, disturbed>>
            \/ /\ pc[p] = "redo" /\ at[p] \in moved[p] /\ Ended(p)
               /\ stuck' = stuck \cup {at[p]} /\ disturbed' = TRUE
<1>1. /\ UNCHANGED <<source, staging, target, manifest, listed, archived>> /\ Grown
      /\ UNCHANGED <<live, late, shared, writes, calls, kills>>
      /\ faults' = faults + 1 /\ faults < MaxFaults
  BY DEF Fault, HalfDone, Grown, TypeOK, places
<1>2. CASE StepFails(p)
  BY <1>1, <1>2, Diverting DEF StepFails
<1>3. CASE UnmoveFails(p)
  <2>1. at[p] \in File BY <1>3 DEF UnmoveFails, AtFile
  <2>2. at[p] - 1 \in 0..Files + 1 BY <2>1, FilesNat
  <2>3. Becomes(p, "undo", at[p] - 1, plan[p], moved[p], TRUE)
    BY <1>3, <2>2, StepsHave DEF TypeOK, UnmoveFails, Goto, Reach, Becomes, Others, ControlTypes
  <2>. QED  BY <1>1, <1>3, <2>1, <2>3 DEF UnmoveFails
<1>4. CASE CleanupFails(p) BY <1>1, <1>4, Ending DEF CleanupFails
<1>5. CASE RedoFails(p) BY <1>1, <1>5, Ending DEF RedoFails
<1>. QED  BY <1>2, <1>3, <1>4, <1>5 DEF Fault

LEMMA KilledDoes ==
  ASSUME TypeOK, NEW p \in Procs, Killed(p)
  PROVE  /\ Busy(p) /\ Ended(p) /\ Still
         /\ kills' = kills + 1 /\ kills < MaxKills
         /\ disturbed' = (disturbed \/ RollingBack(p))
         /\ UNCHANGED <<live, late, shared, stuck, writes, calls, faults>>
BY Ending DEF Killed, Busy, Still, places, dirs, paper

-----------------------------------------------------------------------------
(* Types.                                                                  *)
LEMMA ContentsMoves ==
  ASSUME NEW from \in Contents, NEW to \in Contents, NEW f \in File
  PROVE  /\ [from EXCEPT ![f] = None] \in Contents
         /\ [to EXCEPT ![f] = from[f]] \in Contents
BY DEF Contents

LEMMA CallTypes ==
  ASSUME Basics, NEW p \in Procs, CallStep(p)
  PROVE  TypeOK' /\ Others(p) /\ ControlTypes'
<1> USE FilesNat DEF Basics
<1>1. ASSUME Still, ControlTypes', SameHistory PROVE TypeOK'
  BY <1>1 DEF TypeOK, Still, ControlTypes, SameHistory
<1>2. /\ Failed(p) => Still /\ Diverted(p)
      /\ Diverted(p) => Others(p) /\ ControlTypes'
  BY DEF Failed, Diverted, Goes, Becomes
<1>3. ASSUME Ended(p) PROVE Others(p) /\ ControlTypes'
  BY <1>3 DEF Ended, Becomes
<1>4. ASSUME NEW s, NEW i, Goes(p, s, i) PROVE Others(p) /\ ControlTypes'
  BY <1>4 DEF Goes, Becomes
<1>5. ASSUME NEW s, NEW i, NEW pl, NEW m, NEW b, Becomes(p, s, i, pl, m, b)
      PROVE  Others(p) /\ ControlTypes'
  BY <1>5 DEF Becomes
<1>6. ASSUME Called, calls < MaxCalls
      PROVE  calls' \in 0..MaxCalls /\ shared' \in BOOLEAN /\ stuck' \subseteq File
  BY <1>6, RelocationAssumption DEF Called, TypeOK
<1>7. Empty \in Contents BY EmptyTypes
<1>10. CASE Apply(p)
  <2>1. Still /\ Others(p) /\ ControlTypes' BY <1>10, <1>5, ApplyDoes
  <2>2. Called /\ calls < MaxCalls /\ UNCHANGED <<live, late, disturbed, writes, faults, kills>>
    BY <1>10 DEF Apply
  <2>. QED  BY <2>1, <2>2, <1>6 DEF TypeOK, Still, ControlTypes
<1>11. CASE MakeStaging(p)
  <2>1. CASE Failed(p) BY <1>11, <1>1, <1>2, <2>1, MakeStagingDoes
  <2>2. CASE Goes(p, "move", 1) /\ stagingDir' /\ UNCHANGED <<places, roots, targetDir, paper>>
    BY <1>11, <1>4, <2>2, MakeStagingDoes
       DEF TypeOK, places, paper, ControlTypes, SameHistory, MakeStaging
  <2>. QED  BY <1>11, <2>1, <2>2, MakeStagingDoes
<1>12. CASE Move(p)
  <2>1. CASE Still
    BY <1>12, <1>1, <1>2, <1>4, <1>5, <2>1, MoveDoes
  <2>2. CASE at[p] \in File /\ Taken(p, at[p]) /\ Others(p) /\ ControlTypes'
    <3>1. source' \in Contents /\ staging' \in Contents
      BY <2>2, ContentsMoves DEF TypeOK, Taken
    <3>. QED
      BY <1>12, <2>2, <3>1, MoveDoes DEF TypeOK, Taken, paper, ControlTypes, SameHistory
  <2>. QED  BY <1>12, <1>2, <1>5, <2>1, <2>2, MoveDoes
<1>13. CASE Verify(p)
  BY <1>13, <1>1, <1>2, <1>4, VerifyDoes
<1>14. CASE WriteManifest(p)
  <2>1. listed' \in Contents BY <1>14, WriteManifestDoes DEF TypeOK
  <2>. QED
    BY <1>14, <1>4, <2>1, WriteManifestDoes DEF TypeOK, places, ControlTypes, SameHistory
<1>15. CASE RemoveRoots(p)
  <2>1. CASE Failed(p) BY <1>15, <1>1, <1>2, <2>1, RemoveRootsDoes
  <2>2. CASE ~Failed(p)
    BY <1>15, <1>4, <2>2, RemoveRootsDoes
       DEF TypeOK, places, paper, ControlTypes, SameHistory
  <2>. QED  BY <2>1, <2>2
<1>16. CASE Publish(p)
  <2>1. CASE Failed(p) BY <1>16, <1>1, <1>2, <2>1, PublishDoes
  <2>2. CASE ~Failed(p)
    BY <1>16, <1>3, <1>7, <2>2, PublishDoes DEF TypeOK, ControlTypes, SameHistory
  <2>. QED  BY <2>1, <2>2
<1>17. CASE Undo(p)
  <2>1. Others(p) /\ ControlTypes' BY <1>17, <1>3, <1>4, <1>5, UndoDoes
  <2>. QED  BY <1>17, <1>1, <2>1, UndoDoes
<1>18. CASE Unmove(p)
  <2>1. Others(p) /\ ControlTypes' BY <1>18, <1>4, <1>5, UnmoveDoes
  <2>2. source' \in Contents /\ staging' \in Contents
    <3>1. CASE UNCHANGED <<source, staging>> BY <3>1 DEF TypeOK
    <3>2. CASE Untaken(p, at[p]) /\ at[p] \in File
      BY <3>2, ContentsMoves DEF TypeOK, Untaken
    <3>. QED  BY <1>18, <3>1, <3>2, UnmoveDoes
  <2>. QED
    BY <1>18, <2>1, <2>2, UnmoveDoes DEF TypeOK, paper, ControlTypes, SameHistory
<1>19. CASE Cleanup(p)
  BY <1>19, <1>3, CleanupDoes DEF TypeOK, places, paper, ControlTypes, SameHistory
<1>20. CASE Rollback(p)
  <2>1. Still /\ Others(p) /\ ControlTypes' BY <1>20, <1>5, RollbackDoes
  <2>2. Called /\ calls < MaxCalls /\ UNCHANGED <<live, late, disturbed, writes, faults, kills>>
    BY <1>20 DEF Rollback
  <2>. QED  BY <2>1, <2>2, <1>6 DEF TypeOK, Still, ControlTypes
<1>21. CASE Look(p)
  <2>1. Others(p) /\ ControlTypes' BY <1>21, <1>4, LookDoes
  <2>. QED  BY <1>21, <1>1, <2>1, LookDoes
<1>22. CASE Back(p)
  <2>1. Others(p) /\ ControlTypes' BY <1>22, <1>4, <1>5, BackDoes
  <2>2. source' \in Contents /\ target' \in Contents
    <3>1. CASE UNCHANGED <<source, target>> BY <3>1 DEF TypeOK
    <3>2. CASE PutBack(at[p]) /\ at[p] \in File
      BY <3>2, ContentsMoves DEF TypeOK, PutBack
    <3>. QED  BY <1>22, <3>1, <3>2, BackDoes
  <2>. QED
    BY <1>22, <2>1, <2>2, BackDoes DEF TypeOK, paper, ControlTypes, SameHistory
<1>23. CASE Restored(p)
  <2>1. Others(p) /\ ControlTypes' BY <1>23, <1>4, RestoredDoes
  <2>. QED  BY <1>23, <1>1, <2>1, RestoredDoes
<1>24. CASE Archive(p)
  <2>1. Others(p) /\ ControlTypes' BY <1>24, <1>4, ArchiveDoes
  <2>. QED
    BY <1>24, <1>1, <2>1, ArchiveDoes DEF TypeOK, places, dirs, ControlTypes, SameHistory
<1>25. CASE RemoveTarget(p)
  <2>1. Others(p) /\ ControlTypes' BY <1>25, <1>4, RemoveTargetDoes
  <2>. QED
    BY <1>25, <1>1, <2>1, RemoveTargetDoes DEF TypeOK, places, paper, ControlTypes, SameHistory
<1>26. CASE WriteReceipt(p)
  BY <1>26, <1>3, WriteReceiptDoes DEF TypeOK, places, dirs, ControlTypes, SameHistory
<1>27. CASE Redo(p)
  <2>1. Others(p) /\ ControlTypes' BY <1>27, <1>3, <1>4, RedoDoes
  <2>2. source' \in Contents /\ target' \in Contents
    <3>1. CASE UNCHANGED <<source, target>> BY <3>1 DEF TypeOK
    <3>2. CASE Resent(at[p]) /\ at[p] \in File
      BY <3>2, ContentsMoves DEF TypeOK, Resent
    <3>. QED  BY <1>27, <3>1, <3>2, RedoDoes, FilesNat DEF TypeOK
  <2>. QED
    BY <1>27, <2>1, <2>2, RedoDoes DEF TypeOK, paper, ControlTypes, SameHistory
<1>28. CASE Fault(p)
  <2>0. faults' = faults + 1 /\ faults < MaxFaults BY <1>28, FaultDoes
  <2>1. faults' \in 0..MaxFaults BY <2>0, RelocationAssumption DEF TypeOK
  <2>2. Others(p) /\ ControlTypes' BY <1>28, <1>2, <1>3, <1>5, FaultDoes
  <2>3. stuck' \subseteq File /\ disturbed' \in BOOLEAN
    <3>1. /\ \/ stuck' = stuck
             \/ stuck' = stuck \cup {at[p]} /\ (at[p] \in File \/ at[p] \in moved[p])
          /\ disturbed' = disturbed \/ disturbed' = TRUE
      BY <1>28, FaultDoes
    <3>. QED  BY <3>1 DEF TypeOK
  <2>. QED  BY <1>28, <2>1, <2>2, <2>3, FaultDoes DEF TypeOK, Grown, ControlTypes
<1>29. CASE Killed(p)
  <2>0. kills' = kills + 1 /\ kills < MaxKills BY <1>29, KilledDoes
  <2>1. kills' \in 0..MaxKills BY <2>0, RelocationAssumption DEF TypeOK
  <2>2. disturbed' \in BOOLEAN BY <1>29, KilledDoes DEF TypeOK, RollingBack
  <2>. QED  BY <1>29, <1>3, <2>1, <2>2, KilledDoes DEF TypeOK, Still, ControlTypes
<1>. QED
  BY <1>10, <1>11, <1>12, <1>13, <1>14, <1>15, <1>16, <1>17, <1>18, <1>19, <1>20, <1>21,
     <1>22, <1>23, <1>24, <1>25, <1>26, <1>27, <1>28, <1>29 DEF CallStep

-----------------------------------------------------------------------------
(* Calls follow one another, and each is at a file where it needs one.     *)
LEMMA SharedStays ==
  ASSUME Basics, NEW p \in Procs, CallStep(p), Busy(p)
  PROVE  shared' = shared
<1>. USE DEF SameHistory, Busy, Basics
<1>1. CASE Apply(p) \/ Rollback(p) BY <1>1 DEF Apply, Rollback
<1>2. CASE Fault(p) \/ Killed(p) BY <1>2, FaultDoes, KilledDoes
<1>. QED
  BY <1>1, <1>2, MakeStagingDoes, MoveDoes, VerifyDoes, WriteManifestDoes, RemoveRootsDoes,
     PublishDoes, UndoDoes, UnmoveDoes, CleanupDoes, LookDoes, BackDoes, RestoredDoes,
     ArchiveDoes, RemoveTargetDoes, WriteReceiptDoes, RedoDoes DEF CallStep

LEMMA StuckStays ==
  ASSUME Basics, NEW p \in Procs, CallStep(p), Busy(p), ~Fault(p)
  PROVE  stuck' = stuck
<1>. USE DEF SameHistory, Busy, Basics
<1>1. CASE Apply(p) \/ Rollback(p) BY <1>1 DEF Apply, Rollback
<1>2. CASE Killed(p) BY <1>2, KilledDoes
<1>. QED
  BY <1>1, <1>2, MakeStagingDoes, MoveDoes, VerifyDoes, WriteManifestDoes, RemoveRootsDoes,
     PublishDoes, UndoDoes, UnmoveDoes, CleanupDoes, LookDoes, BackDoes, RestoredDoes,
     ArchiveDoes, RemoveTargetDoes, WriteReceiptDoes, RedoDoes DEF CallStep

LEMMA StartsCall ==
  ASSUME NEW p \in Procs, CallStep(p), ~Busy(p)
  PROVE  Called
<1>1. ~(pc[p] \in Applying \cup Returning) /\ ~Fault(p)
  BY DEF Busy, Applying, Returning, Fault, StepFails, UnmoveFails, CleanupFails, RedoFails
<1>. QED
  BY <1>1 DEF CallStep, Busy, Apply, Rollback, MakeStaging, Move, Verify, WriteManifest,
     RemoveRoots, Publish, Undo, Unmove, Cleanup, Look, Back, Restored, Archive,
     RemoveTarget, WriteReceipt, Redo, Fault, Killed

LEMMA CallsApart ==
  ASSUME Basics, NEW p \in Procs, CallStep(p)
  PROVE  Alone'
<1>1. Others(p) BY CallTypes
<1>2. CASE Busy(p)
  BY <1>1, <1>2, SharedStays DEF Basics, Alone, Others, Busy
<1>3. CASE ~Busy(p)
  BY <1>1, <1>3, StartsCall DEF Alone, Others, Busy, Called
<1>. QED  BY <1>2, <1>3

LEMMA CallsAtFiles ==
  ASSUME Basics, NEW p \in Procs, CallStep(p), NEW q \in Procs
  PROVE  AtFile(q)'
<1>1. CASE q # p
  <2>1. Others(p) BY CallTypes
  <2>. QED  BY <1>1, <2>1 DEF Basics, AtFile, Others, Busy
<1>2. CASE q = p
  <2>. USE <1>2, FilesNat DEF Basics, Busy
  <2>1. ASSUME Ended(p) PROVE AtFile(p)'
    BY <2>1 DEF Ended, Becomes, AtFile
  <2>2. ASSUME Failed(p) \/ Diverted(p) PROVE AtFile(p)'
    BY <2>2 DEF Failed, Diverted, Goes, Becomes, AtFile
  <2>3. ASSUME NEW s, NEW i, NEW pl, NEW m, NEW b, Becomes(p, s, i, pl, m, b),
               s \notin {"idle", "move", "undo", "unmove", "redo", "look", "back"}
        PROVE  AtFile(p)'
    BY <2>3 DEF Becomes, AtFile
  <2>4. ASSUME NEW i \in Nat, NEW pl, NEW m, NEW b,
               \/ Becomes(p, "move", i, pl, m, b) /\ i # 0
               \/ Becomes(p, "redo", i, pl, m, b) /\ i # 0
               \/ Becomes(p, "undo", i, pl, m, b) /\ i <= Files
               \/ Becomes(p, "look", i, pl, m, b) /\ i <= Files
        PROVE  AtFile(p)'
    BY <2>4 DEF Becomes, AtFile
  <2>5. ASSUME NEW f \in File, NEW m, NEW b,
               \/ Becomes(p, "unmove", f, plan[p], m, b)
               \/ Becomes(p, "back", f, plan[p], m, b) /\ Planned(p, f)
        PROVE  AtFile(p)'
    BY <2>5 DEF Becomes, AtFile, Planned
  <2>6. \A f \in File : f + 1 \in Nat /\ f - 1 \in Nat /\ f + 1 # 0 /\ f - 1 <= Files
    OBVIOUS
  <2>7. moved[p] \subseteq File BY DEF TypeOK
  <2>10. CASE Apply(p) BY <2>10, <2>3, ApplyDoes
  <2>11. CASE MakeStaging(p) BY <2>11, <2>2, <2>4, MakeStagingDoes DEF Goes
  <2>12. CASE Move(p) BY <2>12, <2>2, <2>3, <2>4, <2>6, MoveDoes DEF Goes
  <2>13. CASE Verify(p) BY <2>13, <2>2, <2>3, VerifyDoes DEF Goes
  <2>14. CASE WriteManifest(p) BY <2>14, <2>3, WriteManifestDoes DEF Goes
  <2>15. CASE RemoveRoots(p) BY <2>15, <2>2, <2>3, RemoveRootsDoes DEF Goes
  <2>16. CASE Publish(p) BY <2>16, <2>1, <2>2, PublishDoes
  <2>17. CASE Undo(p)
    BY <2>17, <2>1, <2>3, <2>4, <2>5, <2>6, <2>7, UndoDoes DEF Goes
  <2>18. CASE Unmove(p) BY <2>18, <2>4, <2>6, UnmoveDoes DEF Goes
  <2>19. CASE Cleanup(p) BY <2>19, <2>1, CleanupDoes
  <2>20. CASE Rollback(p) BY <2>20, <2>4, RollbackDoes
  <2>21. CASE Look(p) BY <2>21, <2>3, <2>4, <2>5, <2>6, LookDoes DEF Goes
  <2>22. CASE Back(p)
    <3>1. CASE Goes(p, "redo", 1) BY <2>4, <3>1 DEF Goes
    <3>2. CASE ~Goes(p, "redo", 1)
      <4>1. at[p] \in File /\ Becomes(p, "look", at[p] - 1, plan[p], moved[p] \cup {at[p]}, bad[p])
        BY <2>22, <3>2, BackDoes
      <4>2. at[p] - 1 \in Nat /\ at[p] - 1 <= Files BY <2>6, <4>1
      <4>. QED  BY <2>4, <4>1, <4>2
    <3>. QED  BY <3>1, <3>2
  <2>23. CASE Restored(p) BY <2>23, <2>3, <2>4, RestoredDoes DEF Goes
  <2>24. CASE Archive(p) BY <2>24, <2>3, <2>4, ArchiveDoes DEF Goes
  <2>25. CASE RemoveTarget(p)
    <3>1. CASE Goes(p, "redo", 1) BY <2>4, <3>1 DEF Goes
    <3>2. CASE ~Goes(p, "redo", 1)
      <4>1. Goes(p, "receipt", at[p]) BY <2>25, <3>2, RemoveTargetDoes
      <4>. QED  BY <2>3, <4>1 DEF Goes
    <3>. QED  BY <3>1, <3>2
  <2>26. CASE WriteReceipt(p) BY <2>26, <2>1, WriteReceiptDoes
  <2>27. CASE Redo(p) BY <2>27, <2>1, <2>4, <2>6, <2>7, RedoDoes DEF Goes
  <2>28. CASE Fault(p) BY <2>28, <2>1, <2>2, <2>4, <2>6, FaultDoes
  <2>29. CASE Killed(p) BY <2>29, <2>1, KilledDoes
  <2>. QED
    BY <2>10, <2>11, <2>12, <2>13, <2>14, <2>15, <2>16, <2>17, <2>18, <2>19, <2>20, <2>21,
       <2>22, <2>23, <2>24, <2>25, <2>26, <2>27, <2>28, <2>29 DEF CallStep
<1>. QED  BY <1>1, <1>2

LEMMA CallBasics ==
  ASSUME Basics, NEW p \in Procs, CallStep(p)
  PROVE  Basics'
BY CallTypes, CallsApart, CallsAtFiles DEF Basics

LEMMA WriteDoes ==
  ASSUME Basics, NEW f \in File, Write(f)
  PROVE  /\ Basics'
         /\ writes' = writes + 1 /\ writes' \in Version
         /\ source' = [source EXCEPT ![f] = writes'] /\ UNCHANGED <<staging, target, stagingDir>>
         /\ live' = (live \ {<<f, source[f]>>}) \cup {<<f, writes'>>}
         /\ late' = (late \/ InWindow(f))
         /\ disturbed' = (disturbed \/ \E p \in Procs : RollingBack(p))
         /\ UNCHANGED <<manifest, listed, targetDir, pc, at, plan, moved, bad, shared, kills>>
<1> USE DEF Basics, paper, control, bounds
<1>1. writes' = writes + 1 /\ writes' \in 0..MaxWrites
  BY RelocationAssumption DEF Write, TypeOK
<1>2. source' \in Contents
  BY <1>1 DEF Write, TypeOK, Contents, Version
<1>3. live' \subseteq File \X Version
  BY <1>1 DEF Write, TypeOK, Version
<1>4. late' \in BOOLEAN /\ disturbed' \in BOOLEAN
  BY DEF Write, TypeOK, InWindow
<1>5. TypeOK'
  BY <1>1, <1>2, <1>3, <1>4 DEF Write, TypeOK
<1>6. Alone' /\ \A p \in Procs : AtFile(p)'
  BY DEF Write, Alone, AtFile, Busy
<1>. QED  BY <1>1, <1>5, <1>6 DEF Write, Version

-----------------------------------------------------------------------------
(* Where files go: from one place to another, or the staging directory as  *)
(* a whole to the target that is not there.                                *)
Published == target = Empty /\ target' = staging /\ staging' = Empty /\ source' = source

LEMMA Rename ==
  ASSUME Basics, NEW p \in Procs, CallStep(p)
  PROVE  /\ UNCHANGED <<live, late, writes>>
         /\ \/ UNCHANGED places
            \/ pc[p] = "move" /\ at[p] \in File /\ Taken(p, at[p]) /\ target' = target
            \/ pc[p] = "publish" /\ Published
            \/ pc[p] = "unmove" /\ at[p] \in File /\ Untaken(p, at[p]) /\ target' = target
            \/ pc[p] = "back" /\ at[p] \in File /\ PutBack(at[p]) /\ staging' = staging
            \/ pc[p] = "redo" /\ at[p] \in moved[p] /\ Resent(at[p]) /\ staging' = staging
<1> USE DEF Basics, places, SameHistory
<1>1. ASSUME Failed(p) \/ Still PROVE UNCHANGED places
  BY <1>1 DEF Failed, Still
<1>2. CASE Apply(p) \/ Rollback(p)
  BY <1>1, <1>2, ApplyDoes, RollbackDoes DEF Apply, Rollback
<1>3. CASE MakeStaging(p) \/ Verify(p) \/ WriteManifest(p) \/ RemoveRoots(p) \/ Undo(p) \/ Cleanup(p)
  BY <1>1, <1>3, MakeStagingDoes, VerifyDoes, WriteManifestDoes, RemoveRootsDoes, UndoDoes, CleanupDoes
<1>4. CASE Look(p) \/ Restored(p) \/ Archive(p) \/ RemoveTarget(p) \/ WriteReceipt(p)
  BY <1>1, <1>4, LookDoes, RestoredDoes, ArchiveDoes, RemoveTargetDoes, WriteReceiptDoes
<1>5. CASE Fault(p) \/ Killed(p) BY <1>1, <1>5, FaultDoes, KilledDoes DEF Grown
<1>6. CASE Move(p) BY <1>1, <1>6, MoveDoes DEF Taken
<1>7. CASE Publish(p) BY <1>1, <1>7, PublishDoes DEF Published
<1>8. CASE Unmove(p) BY <1>8, UnmoveDoes
<1>9. CASE Back(p) BY <1>9, BackDoes
<1>10. CASE Redo(p) BY <1>10, RedoDoes
<1>. QED
  BY <1>2, <1>3, <1>4, <1>5, <1>6, <1>7, <1>8, <1>9, <1>10 DEF CallStep

-----------------------------------------------------------------------------
(* As long as nobody writes.                                               *)
LEMMA CallUnwritten ==
  ASSUME Basics, Unwritten, NEW p \in Procs, CallStep(p)
  PROVE  Unwritten'
<1>1. UNCHANGED <<live, writes>> BY Rename
<1>. SUFFICES ASSUME writes = 0, NEW f \in File
              PROVE  {source'[f], staging'[f], target'[f]} \subseteq {0, None} /\ Somewhere(f)'
  BY <1>1 DEF Unwritten
<1>2. {source[f], staging[f], target[f]} \subseteq {0, None} /\ Somewhere(f)
  BY DEF Unwritten
<1>3. /\ source \in [File -> Version \cup {None}] /\ staging \in [File -> Version \cup {None}]
      /\ target \in [File -> Version \cup {None}] /\ moved[p] \subseteq File
  BY DEF Basics, TypeOK, Contents
<1>. USE <1>2, <1>3 DEF Somewhere
<1>4. CASE UNCHANGED places BY <1>4 DEF places
<1>5. CASE at[p] \in File /\ Taken(p, at[p]) /\ target' = target BY <1>5 DEF Taken
<1>6. CASE Published BY <1>6, EmptyTypes DEF Published
<1>7. CASE at[p] \in File /\ Untaken(p, at[p]) /\ target' = target BY <1>7 DEF Untaken
<1>8. CASE at[p] \in File /\ PutBack(at[p]) /\ staging' = staging BY <1>8 DEF PutBack
<1>9. CASE at[p] \in moved[p] /\ Resent(at[p]) /\ staging' = staging BY <1>9 DEF Resent
<1>. QED  BY <1>4, <1>5, <1>6, <1>7, <1>8, <1>9, Rename

-----------------------------------------------------------------------------
(* One call at a time: those that are not at work ask for nothing.         *)
LEMMA OneAtWork ==
  ASSUME Basics, NEW p \in Procs, CallStep(p), ~shared'
  PROVE  ~shared /\ \A q \in Procs \ {p} : ~Busy(q) /\ ~Busy(q)'
<1>1. Others(p) BY CallTypes
<1>2. CASE Busy(p)
  <2>1. ~shared BY <1>2, SharedStays
  <2>. QED  BY <1>1, <1>2, <2>1 DEF Basics, Alone, Others, Busy
<1>3. CASE ~Busy(p)
  <2>1. Called BY <1>3, StartsCall
  <2>. QED  BY <1>1, <1>3, <2>1 DEF Called, Others, Busy
<1>. QED  BY <1>2, <1>3

LEMMA StagingEmpty ==
  ASSUME Basics, Lossless, NEW p \in Procs, CallStep(p)
  PROVE  (~stagingDir => staging = Empty)'
<1> USE DEF Basics, places, dirs, Lossless
<1>1. ASSUME Failed(p) \/ Still PROVE UNCHANGED <<staging, stagingDir>>
  BY <1>1 DEF Failed, Still
<1>2. CASE Apply(p) \/ Rollback(p) \/ MakeStaging(p) \/ Verify(p) \/ WriteManifest(p) \/ RemoveRoots(p)
  BY <1>1, <1>2, ApplyDoes, RollbackDoes, MakeStagingDoes, VerifyDoes, WriteManifestDoes, RemoveRootsDoes
<1>3. CASE Undo(p) \/ Cleanup(p) \/ Fault(p) \/ Killed(p)
  BY <1>1, <1>3, UndoDoes, CleanupDoes, FaultDoes, KilledDoes DEF Grown
<1>4. CASE Look(p) \/ Restored(p) \/ Archive(p) \/ RemoveTarget(p) \/ WriteReceipt(p) \/ Back(p) \/ Redo(p)
  BY <1>1, <1>4, LookDoes, RestoredDoes, ArchiveDoes, RemoveTargetDoes, WriteReceiptDoes, BackDoes, RedoDoes
<1>5. CASE Move(p) BY <1>1, <1>5, MoveDoes DEF Taken
<1>6. CASE Publish(p) BY <1>1, <1>6, PublishDoes
<1>7. CASE Unmove(p)
  <2>1. Empty = [Empty EXCEPT ![at[p]] = None] BY DEF Empty
  <2>. QED  BY <1>7, <2>1, UnmoveDoes DEF Untaken
<1>. QED  BY <1>2, <1>3, <1>4, <1>5, <1>6, <1>7 DEF CallStep

LEMMA OwnFreeAhead ==
  ASSUME Basics, Lossless, NEW p \in Procs, CallStep(p), ~shared'
  PROVE  FreeAhead(p)'
<1>1. FreeAhead(p) /\ late' = late BY OneAtWork, Rename DEF Lossless
<1>2. ASSUME \/ Ended(p)
             \/ \E s, i, pl, m, b : /\ s \in (Applying \cup Undoing) \ {"move", "unmove"}
                                   /\ Becomes(p, s, i, pl, m, b)
      PROVE  FreeAhead(p)'
  BY <1>2 DEF FreeAhead, Ended, Becomes, RollingBack, Returning, Applying, Undoing
<1>3. ASSUME Failed(p) \/ Diverted(p), pc[p] \in Applying PROVE FreeAhead(p)'
  <2>1. Becomes(p, "undo", Files, plan[p], moved[p], bad[p]) /\ "undo" \in Applying \cup Undoing
    BY <1>3 DEF Failed, Diverted, Goes, Undoing
  <2>. QED  BY <1>2, <2>1
<1>4. ASSUME Goes(p, "redo", 1), target' = target, pc[p] \in Returning PROVE FreeAhead(p)'
  <2>1. pc[p] # "redo" /\ RollingBack(p) BY <1>4 DEF Returning, RollingBack
  <2>. QED  BY <1>1, <1>4, <2>1 DEF FreeAhead, Goes, Becomes, Returned
<1>5. ASSUME NEW s \in Returning \ {"back"}, NEW i, Goes(p, s, i), target' = target,
             pc[p] \in Returning
      PROVE  FreeAhead(p)'
  BY <1>1, <1>5 DEF FreeAhead, Goes, Becomes, Returned, Returning, RollingBack
<1>6. ASSUME Failed(p) \/ (Diverted(p) /\ target' = target), pc[p] \in Returning PROVE FreeAhead(p)'
  <2>1. Goes(p, "redo", 1) /\ target' = target
    BY <1>6 DEF Failed, Diverted, Still, Applying, Returning
  <2>. QED  BY <1>4, <1>6, <2>1
<1>7. /\ \A s \in {"mkdir", "verify", "manifest", "rmroots", "publish", "undo", "cleanup"} :
             s \in Applying \cup Undoing
      /\ \A s \in {"mkdir", "move", "verify", "manifest", "rmroots", "publish"} : s \in Applying
      /\ \A s \in {"look", "restored", "archive", "rmtarget", "receipt"} : s \in Returning \ {"back"}
      /\ "back" \in Returning
  BY DEF Applying, Undoing, Returning
<1>8. at[p] \in Nat /\ moved[p] \subseteq File
  BY DEF Basics, TypeOK
<1>. USE <1>7, <1>8
<1>10. CASE Apply(p) BY <1>2, <1>10, ApplyDoes DEF Basics
<1>11. CASE MakeStaging(p)
  <2>1. CASE Failed(p) BY <1>3, <1>11, <2>1, MakeStagingDoes DEF Basics
  <2>2. CASE ~Failed(p)
    <3>1. Goes(p, "move", 1) /\ ~stagingDir /\ staging' = staging
      BY <1>11, <2>2, MakeStagingDoes DEF Basics, places
    <3>2. \A f \in File : staging'[f] = None BY <3>1, EmptyTypes DEF Lossless
    <3>. QED  BY <3>1, <3>2 DEF FreeAhead, Goes, Becomes, RollingBack, Returning
  <2>. QED  BY <2>1, <2>2
<1>12. CASE Move(p)
  <2>1. CASE Failed(p) BY <1>3, <1>12, <2>1, MoveDoes DEF Basics
  <2>2. CASE Goes(p, "verify", 0) BY <1>2, <2>2 DEF Goes
  <2>3. CASE Goes(p, "move", at[p] + 1) /\ Still /\ pc[p] = "move"
    BY <1>1, <2>3, FilesNat DEF FreeAhead, Goes, Becomes, Still, RollingBack, Returning
  <2>4. CASE /\ at[p] \in File /\ Taken(p, at[p]) /\ pc[p] = "move"
             /\ Becomes(p, "move", at[p] + 1, plan[p], moved[p] \cup {at[p]}, bad[p])
    <3>1. \A f \in File : at[p] + 1 <= f => staging'[f] = None
      <4>1. \A f \in File : at[p] + 1 <= f => at[p] <= f /\ f # at[p] BY FilesNat
      <4>2. staging \in [File -> Version \cup {None}] BY DEF Basics, TypeOK, Contents
      <4>. QED  BY <1>1, <2>4, <4>1, <4>2 DEF FreeAhead, Taken
    <3>. QED  BY <2>4, <3>1 DEF FreeAhead, Becomes, RollingBack, Returning
  <2>. QED  BY <1>12, <2>1, <2>2, <2>3, <2>4, MoveDoes DEF Basics
<1>13. CASE Verify(p) BY <1>2, <1>3, <1>13, VerifyDoes DEF Basics, Goes
<1>14. CASE WriteManifest(p) BY <1>2, <1>14, WriteManifestDoes DEF Basics, Goes
<1>15. CASE RemoveRoots(p) BY <1>2, <1>3, <1>15, RemoveRootsDoes DEF Basics, Goes
<1>16. CASE Publish(p) BY <1>2, <1>3, <1>16, PublishDoes DEF Basics
<1>17. CASE Undo(p)
  <2>1. CASE at[p] \in moved[p] /\ ~Blocked(at[p]) /\ Goes(p, "unmove", at[p]) /\ Still
    BY <2>1 DEF FreeAhead, Goes, Becomes, Still, Blocked, RollingBack, Returning
  <2>. QED  BY <1>2, <1>17, <2>1, UndoDoes DEF Basics, Goes
<1>18. CASE Unmove(p) BY <1>2, <1>18, UnmoveDoes DEF Basics, Goes
<1>19. CASE Cleanup(p) BY <1>2, <1>19, CleanupDoes DEF Basics
<1>20. CASE Rollback(p)
  <2>1. Becomes(p, "look", Files, listed, {}, bad[p])
    BY <1>20, RollbackDoes DEF Basics, AtFile, Busy
  <2>. QED  BY <2>1 DEF FreeAhead, Becomes, Returned
<1>21. CASE Look(p)
  <2>0. pc[p] = "look" /\ target' = target /\ pc[p] \in Returning /\ source' = source
    BY <1>21, LookDoes DEF Basics, Still
  <2>1. CASE source[at[p]] = None /\ Goes(p, "back", at[p])
    BY <1>1, <2>0, <2>1 DEF FreeAhead, Goes, Becomes, Returned, RollingBack
  <2>. QED  BY <1>4, <1>5, <1>21, <2>0, <2>1, LookDoes DEF Basics
<1>22. CASE Back(p)
  <2>0. pc[p] = "back" /\ pc[p] \in Returning
    BY <1>22, BackDoes DEF Basics
  <2>1. CASE Goes(p, "redo", 1) /\ target' = target BY <1>4, <2>0, <2>1
  <2>2. CASE /\ PutBack(at[p]) /\ at[p] \in File
             /\ Becomes(p, "look", at[p] - 1, plan[p], moved[p] \cup {at[p]}, bad[p])
    <3>1. target \in [File -> Version \cup {None}] BY DEF Basics, TypeOK, Contents
    <3>2. \A f \in moved[p] \cup {at[p]} : target'[f] = None
      BY <1>1, <2>0, <2>2, <3>1 DEF FreeAhead, PutBack, Returned, RollingBack
    <3>. QED  BY <2>2, <3>2 DEF FreeAhead, Becomes, Returned
  <2>. QED  BY <1>22, <2>1, <2>2, BackDoes DEF Basics
<1>23. CASE Restored(p) BY <1>4, <1>5, <1>23, RestoredDoes DEF Basics, Still
<1>24. CASE Archive(p) BY <1>4, <1>5, <1>24, ArchiveDoes DEF Basics, Still, places
<1>25. CASE RemoveTarget(p) BY <1>4, <1>5, <1>25, RemoveTargetDoes DEF Basics, Still, places
<1>26. CASE WriteReceipt(p) BY <1>2, <1>26, WriteReceiptDoes DEF Basics
<1>27. CASE Redo(p)
  <2>0. pc[p] = "redo" BY <1>27, RedoDoes DEF Basics
  <2>1. CASE Ended(p) BY <1>2, <2>1
  <2>2. CASE Goes(p, "redo", at[p] + 1) /\ target' = target
    BY <1>1, <2>0, <2>2, FilesNat DEF FreeAhead, Goes, Becomes, Returned, RollingBack
  <2>3. CASE at[p] \in moved[p] /\ Resent(at[p]) /\ Goes(p, "redo", at[p] + 1)
    <3>1. \A f \in File : at[p] + 1 <= f => at[p] <= f /\ f # at[p] BY FilesNat
    <3>2. target \in [File -> Version \cup {None}] BY DEF Basics, TypeOK, Contents
    <3>. QED
      BY <1>1, <2>0, <2>3, <3>1, <3>2 DEF FreeAhead, Goes, Becomes, Returned, RollingBack, Resent
  <2>. QED  BY <1>27, <2>1, <2>2, <2>3, RedoDoes DEF Basics
<1>28. CASE Fault(p) BY <1>2, <1>3, <1>6, <1>28, FaultDoes DEF Basics
<1>29. CASE Killed(p) BY <1>2, <1>29, KilledDoes DEF Basics
<1>. QED
  BY <1>10, <1>11, <1>12, <1>13, <1>14, <1>15, <1>16, <1>17, <1>18, <1>19, <1>20, <1>21,
     <1>22, <1>23, <1>24, <1>25, <1>26, <1>27, <1>28, <1>29 DEF CallStep

LEMMA CallFreeAhead ==
  ASSUME Basics, Lossless, NEW p \in Procs, CallStep(p), ~shared', NEW q \in Procs
  PROVE  FreeAhead(q)'
<1>1. CASE q = p BY <1>1, OwnFreeAhead
<1>2. CASE q # p
  BY <1>2, OneAtWork DEF FreeAhead, Busy, RollingBack, Returning
<1>. QED  BY <1>1, <1>2

(* No rename replaces what is there.                                       *)
LEMMA CallKept ==
  ASSUME Basics, Lossless, NEW p \in Procs, CallStep(p), ~shared', ~late'
  PROVE  Kept'
<1>1. ~shared /\ ~late /\ live' = live /\ Kept /\ FreeAhead(p)
  BY OneAtWork, Rename DEF Lossless
<1>2. /\ source \in [File -> Version \cup {None}] /\ staging \in [File -> Version \cup {None}]
      /\ target \in [File -> Version \cup {None}] /\ moved[p] \subseteq File
      /\ live \subseteq File \X Version /\ None \notin Version
  BY RelocationAssumption DEF Basics, TypeOK, Contents, Version
<1>. SUFFICES ASSUME NEW v \in live
              PROVE  v[2] \in {source'[v[1]], staging'[v[1]], target'[v[1]]}
  BY <1>1 DEF Kept
<1>3. v[2] \in {source[v[1]], staging[v[1]], target[v[1]]} /\ v[1] \in File /\ v[2] # None
  BY <1>1, <1>2 DEF Kept
<1>. HIDE DEF Lossless, Basics
<1>. USE <1>2, <1>3
<1>4. CASE UNCHANGED places BY <1>4 DEF places
<1>5. CASE pc[p] = "move" /\ at[p] \in File /\ Taken(p, at[p]) /\ target' = target
  <2>1. staging[at[p]] = None BY <1>1, <1>5, FilesNat DEF FreeAhead
  <2>. QED  BY <1>5, <2>1 DEF Taken
<1>6. CASE Published
  <2>1. target[v[1]] = None BY <1>6, EmptyTypes DEF Published
  <2>. QED  BY <1>6, <2>1 DEF Published
<1>7. CASE pc[p] = "unmove" /\ at[p] \in File /\ Untaken(p, at[p]) /\ target' = target
  <2>1. source[at[p]] = None BY <1>1, <1>7 DEF FreeAhead
  <2>. QED  BY <1>7, <2>1 DEF Untaken
<1>8. CASE pc[p] = "back" /\ at[p] \in File /\ PutBack(at[p]) /\ staging' = staging
  <2>1. source[at[p]] = None BY <1>1, <1>8 DEF FreeAhead
  <2>. QED  BY <1>8, <2>1 DEF PutBack
<1>9. CASE pc[p] = "redo" /\ at[p] \in moved[p] /\ Resent(at[p]) /\ staging' = staging
  <2>1. target[at[p]] = None
    BY <1>1, <1>9, FilesNat DEF FreeAhead, Returned, RollingBack
  <2>. QED  BY <1>9, <2>1 DEF Resent
<1>. QED  BY <1>4, <1>5, <1>6, <1>7, <1>8, <1>9, Rename

LEMMA CallLossless ==
  ASSUME Basics, Lossless, NEW p \in Procs, CallStep(p)
  PROVE  Lossless'
BY StagingEmpty, CallFreeAhead, CallKept DEF Lossless

(* The client writes over the file at its path only.                       *)
LEMMA WriteLossless ==
  ASSUME Basics, Lossless, NEW f \in File, Write(f)
  PROVE  Lossless'
<1>. USE WriteDoes
<1>1. (~stagingDir => staging = Empty)'
  BY DEF Lossless
<1>2. source \in [File -> Version \cup {None}] /\ at \in [Procs -> 0..Files + 1]
      /\ live \subseteq File \X Version
  BY DEF Basics, TypeOK, Contents
<1>3. ASSUME ~shared', NEW p \in Procs PROVE FreeAhead(p)'
  <2>1. FreeAhead(p) BY <1>3 DEF Lossless
  <2>2. ASSUME pc'[p] \in {"unmove", "back"}, ~late' PROVE source'[at'[p]] = None
    <3>1. ~late /\ at[p] # f BY <2>2 DEF InWindow
    <3>2. at[p] \in File BY <2>2 DEF Basics, AtFile
    <3>. QED  BY <1>2, <2>1, <2>2, <3>1, <3>2 DEF FreeAhead
  <2>. QED  BY <2>1, <2>2 DEF FreeAhead, Returned, RollingBack
<1>4. ASSUME ~shared', ~late' PROVE Kept'
  <2>1. Kept BY <1>4 DEF Lossless
  <2>2. ASSUME NEW v \in live, v # <<f, source[f]>>
        PROVE  v[2] \in {source'[v[1]], staging'[v[1]], target'[v[1]]}
    <3>1. v[2] \in {source[v[1]], staging[v[1]], target[v[1]]} /\ v = <<v[1], v[2]>>
      BY <1>2, <2>1 DEF Kept
    <3>2. CASE v[1] = f
      BY <2>2, <3>1, <3>2
    <3>3. CASE v[1] # f
      BY <1>2, <3>1, <3>3
    <3>. QED  BY <3>2, <3>3
  <2>3. source'[f] = writes' BY <1>2
  <2>. QED  BY <2>2, <2>3 DEF Kept
<1>. QED  BY <1>1, <1>3, <1>4 DEF Lossless

LEMMA WriteUnwritten ==
  ASSUME Basics, NEW f \in File, Write(f)
  PROVE  Unwritten'
BY WriteDoes DEF Basics, TypeOK, Unwritten
LEMMA DisturbedStays ==
  ASSUME Basics, NEW p \in Procs, CallStep(p)
  PROVE  disturbed => disturbed'
<1>. USE DEF Basics, SameHistory
<1>1. CASE Apply(p) \/ Rollback(p) BY <1>1 DEF Apply, Rollback
<1>2. CASE Fault(p) \/ Killed(p) BY <1>2, FaultDoes, KilledDoes
<1>. QED
  BY <1>1, <1>2, MakeStagingDoes, MoveDoes, VerifyDoes, WriteManifestDoes, RemoveRootsDoes,
     PublishDoes, UndoDoes, UnmoveDoes, CleanupDoes, LookDoes, BackDoes, RestoredDoes,
     ArchiveDoes, RemoveTargetDoes, WriteReceiptDoes, RedoDoes DEF CallStep


-----------------------------------------------------------------------------
(* The manifest is true of what is published, and a rollback goes by it.   *)
LEMMA OwnListing ==
  ASSUME Basics, TrueListing, NEW p \in Procs, CallStep(p), ~shared'
  PROVE  Listing(p)'
<1>1. Listing(p)
  BY OneAtWork DEF TrueListing
<1>2. ASSUME \/ Ended(p)
             \/ \E s \in {"mkdir", "move", "verify", "undo", "unmove", "cleanup"} :
                  \E i, pl, m, b : Becomes(p, s, i, pl, m, b)
      PROVE  Listing(p)'
  BY <1>2 DEF Listing, Ended, Becomes, RollingBack, Returning
<1>3. ASSUME Failed(p) \/ Diverted(p), pc[p] \in Applying PROVE Listing(p)'
  BY <1>2, <1>3 DEF Failed, Diverted, Goes
<1>4. ASSUME Goes(p, "redo", 1), UNCHANGED <<source, target, listed, disturbed>>, pc[p] \in Returning
      PROVE  Listing(p)'
  <2>1. pc[p] # "redo" /\ RollingBack(p) /\ moved[p] \subseteq File
    BY <1>4 DEF Returning, RollingBack, Basics, TypeOK
  <2>2. \A f \in File : 1 <= f BY FilesNat
  <2>. QED
    BY <1>1, <1>4, <2>1, <2>2
       DEF Listing, Goes, Becomes, Returned, RollingBack, Returning, Planned
<1>5. ASSUME NEW s \in Returning, NEW i, Goes(p, s, i), Still, pc[p] \in Returning, disturbed' = disturbed,
             s \in {"look", "back"} => pc[p] \in {"look", "back"} /\ i \in Int /\ i <= at[p]
      PROVE  Listing(p)'
  <2>1. /\ s \notin {"idle", "redo", "manifest", "rmroots", "publish"}
        /\ pc[p] # "redo" /\ RollingBack(p) /\ moved[p] \subseteq File /\ at[p] \in Int
    BY <1>5 DEF Returning, RollingBack, Basics, TypeOK
  <2>. QED
    BY <1>1, <1>5, <2>1, FilesNat
       DEF Listing, Goes, Becomes, Returned, RollingBack, Planned, Still
<1>6. /\ {"look", "back", "restored", "archive", "rmtarget", "receipt"} \subseteq Returning
      /\ {"mkdir", "move", "verify", "manifest", "rmroots", "publish"} \subseteq Applying
      /\ at[p] \in Int /\ moved[p] \subseteq File
      /\ source \in [File -> Version \cup {None}] /\ target \in [File -> Version \cup {None}]
  BY DEF Applying, Returning, Basics, TypeOK, Contents
<1>7. TypeOK /\ AtFile(p) BY DEF Basics
<1>. USE <1>6, <1>7
<1>8. ASSUME Diverted(p), UNCHANGED <<source, target, listed, disturbed>>, pc[p] \in Returning
      PROVE  Listing(p)'
  <2>1. Goes(p, "redo", 1)
    BY <1>8 DEF Diverted, Applying, Returning
  <2>. QED  BY <1>4, <1>8, <2>1
<1>10. CASE Apply(p) BY <1>2, <1>10, ApplyDoes
<1>11. CASE MakeStaging(p) BY <1>2, <1>3, <1>11, MakeStagingDoes DEF Goes
<1>12. CASE Move(p) BY <1>2, <1>3, <1>12, MoveDoes DEF Goes
<1>13. CASE Verify(p)
  <2>1. CASE Failed(p) BY <1>3, <1>13, <2>1, VerifyDoes
  <2>2. CASE Verified(p) /\ Goes(p, "manifest", at[p]) /\ Still
    BY <2>2 DEF Listing, Goes, Becomes, Still, Verified, Planned, RollingBack, Returning
  <2>. QED  BY <1>13, <2>1, <2>2, VerifyDoes
<1>14. CASE WriteManifest(p)
  BY <1>1, <1>14, WriteManifestDoes
     DEF Listing, Goes, Becomes, places, Verified, Planned, RollingBack, Returning
<1>15. CASE RemoveRoots(p)
  <2>1. CASE Failed(p) BY <1>3, <1>15, <2>1, RemoveRootsDoes
  <2>2. CASE ~Failed(p)
    BY <1>1, <1>15, <2>2, RemoveRootsDoes
       DEF Listing, Goes, Becomes, places, paper, Verified, Planned, RollingBack, Returning
  <2>. QED  BY <2>1, <2>2
<1>16. CASE Publish(p) BY <1>2, <1>3, <1>16, PublishDoes
<1>17. CASE Undo(p) BY <1>2, <1>17, UndoDoes DEF Goes
<1>18. CASE Unmove(p) BY <1>2, <1>18, UnmoveDoes DEF Goes
<1>19. CASE Cleanup(p) BY <1>2, <1>19, CleanupDoes
<1>20. CASE Rollback(p)
  <2>1. Becomes(p, "look", Files, listed, {}, bad[p]) /\ Still /\ Returnable
    BY <1>20, RollbackDoes DEF AtFile, Busy
  <2>. QED
    BY <2>1 DEF Listing, Becomes, Returned, Still, Returnable, Planned
<1>21. CASE Look(p)
  <2>1. pc[p] = "look" /\ Still /\ disturbed' = disturbed
    BY <1>21, LookDoes DEF SameHistory
  <2>2. at[p] - 1 \in Int /\ at[p] - 1 <= at[p] OBVIOUS
  <2>3. CASE Goes(p, "restored", 0) BY <1>5, <2>1, <2>3
  <2>4. CASE Goes(p, "look", at[p] - 1) BY <1>5, <2>1, <2>2, <2>4
  <2>5. CASE Goes(p, "redo", 1) BY <1>4, <2>1, <2>5 DEF Still
  <2>6. CASE Goes(p, "back", at[p]) BY <1>5, <2>1, <2>6
  <2>. QED  BY <1>21, <2>3, <2>4, <2>5, <2>6, LookDoes
<1>22. CASE Back(p)
  <2>1. pc[p] = "back" /\ at[p] \in File /\ Planned(p, at[p]) /\ UNCHANGED <<disturbed, listed, manifest>>
    BY <1>22, BackDoes DEF SameHistory, paper
  <2>2. CASE Goes(p, "redo", 1) /\ UNCHANGED <<source, target>> BY <1>4, <2>1, <2>2
  <2>3. CASE /\ PutBack(at[p])
             /\ Becomes(p, "look", at[p] - 1, plan[p], moved[p] \cup {at[p]}, bad[p])
    <3>. SUFFICES ASSUME ~disturbed
                  PROVE  /\ plan[p] = listed
                         /\ \A f \in File : Planned(p, f) =>
                              IF f \in moved[p] \cup {at[p]} THEN source'[f] = plan[p][f]
                                                             ELSE target'[f] = plan[p][f]
                         /\ \A f \in moved[p] \cup {at[p]} : Planned(p, f) /\ at[p] - 1 < f
      BY <2>1, <2>3 DEF Listing, Becomes, Returned, RollingBack, Returning, Planned
    <3>1. /\ plan[p] = listed
          /\ \A f \in File : Planned(p, f) =>
               IF f \in moved[p] THEN source[f] = plan[p][f] ELSE target[f] = plan[p][f]
          /\ \A f \in moved[p] : Planned(p, f) /\ at[p] < f
      BY <1>1, <2>1 DEF Listing, Returned, RollingBack
    <3>2. at[p] \notin moved[p] BY <3>1, FilesNat
    <3>3. target[at[p]] = plan[p][at[p]] BY <2>1, <3>1, <3>2
    <3>4. \A f \in moved[p] \cup {at[p]} : Planned(p, f) /\ at[p] - 1 < f
      BY <2>1, <3>1, FilesNat
    <3>5. \A f \in File : Planned(p, f) =>
            IF f \in moved[p] \cup {at[p]} THEN source'[f] = plan[p][f]
                                           ELSE target'[f] = plan[p][f]
      BY <2>1, <2>3, <3>1, <3>2, <3>3 DEF PutBack
    <3>. QED  BY <3>1, <3>4, <3>5
  <2>. QED  BY <1>22, <2>2, <2>3, BackDoes
<1>23. CASE Restored(p)
  <2>1. pc[p] = "restored" /\ Still /\ disturbed' = disturbed
    BY <1>23, RestoredDoes DEF SameHistory
  <2>. QED  BY <1>4, <1>5, <1>23, <2>1, RestoredDoes DEF Still
<1>24. CASE Archive(p)
  <2>1. pc[p] = "archive" /\ UNCHANGED <<source, target, listed, disturbed>>
    BY <1>24, ArchiveDoes DEF SameHistory, places, Still
  <2>2. CASE Goes(p, "redo", 1) BY <1>4, <2>1, <2>2
  <2>3. CASE Goes(p, "rmtarget", at[p])
    BY <1>1, <2>1, <2>3 DEF Listing, Goes, Becomes, Returned, RollingBack, Planned
  <2>. QED  BY <1>24, <2>2, <2>3, ArchiveDoes
<1>25. CASE RemoveTarget(p)
  <2>1. pc[p] = "rmtarget" /\ UNCHANGED <<source, target, listed, manifest, disturbed>>
    BY <1>25, RemoveTargetDoes DEF SameHistory, places, paper, Still
  <2>2. CASE Goes(p, "redo", 1) BY <1>4, <2>1, <2>2
  <2>3. CASE Goes(p, "receipt", at[p])
    BY <1>1, <2>1, <2>3 DEF Listing, Goes, Becomes, Returned, RollingBack, Planned
  <2>. QED  BY <1>25, <2>2, <2>3, RemoveTargetDoes
<1>26. CASE WriteReceipt(p) BY <1>2, <1>26, WriteReceiptDoes
<1>27. CASE Redo(p)
  <2>1. pc[p] = "redo" /\ UNCHANGED <<listed, disturbed>>
    BY <1>27, RedoDoes DEF SameHistory, paper
  <2>2. CASE Ended(p) BY <1>2, <2>2
  <2>3. \A f \in File : at[p] + 1 <= f <=> at[p] <= f /\ f # at[p] BY FilesNat
  <2>4. CASE at[p] \notin moved[p] /\ Goes(p, "redo", at[p] + 1) /\ UNCHANGED <<source, target>>
    BY <1>1, <2>1, <2>3, <2>4 DEF Listing, Goes, Becomes, Returned, RollingBack, Returning, Planned
  <2>5. CASE at[p] \in moved[p] /\ Resent(at[p]) /\ Goes(p, "redo", at[p] + 1)
    <3>1. ASSUME ~disturbed PROVE source[at[p]] = plan[p][at[p]]
      BY <1>1, <2>1, <2>5, <3>1, FilesNat DEF Listing, Returned, RollingBack
    <3>. QED
      BY <1>1, <2>1, <2>3, <2>5, <3>1
         DEF Listing, Goes, Becomes, Returned, RollingBack, Returning, Planned, Resent
  <2>. QED  BY <1>27, <2>2, <2>4, <2>5, RedoDoes
<1>28. CASE Fault(p) BY <1>2, <1>3, <1>8, <1>28, FaultDoes
<1>29. CASE Killed(p) BY <1>2, <1>29, KilledDoes
<1>. QED
  BY <1>10, <1>11, <1>12, <1>13, <1>14, <1>15, <1>16, <1>17, <1>18, <1>19, <1>20, <1>21,
     <1>22, <1>23, <1>24, <1>25, <1>26, <1>27, <1>28, <1>29 DEF CallStep

Rolling == \E p \in Procs : RollingBack(p)
TargetListed == \A f \in File : listed[f] # None => target[f] = listed[f]

(* Outside of rollbacks only a publication brings a manifest to the target. *)
LEMMA Publishing ==
  ASSUME Basics, NEW p \in Procs, CallStep(p), ~RollingBack(p)
  PROVE  \/ UNCHANGED <<manifest, listed, target>>
         \/ manifest' = "staging"
         \/ /\ pc[p] = "publish" /\ target' = staging /\ listed' = listed
            /\ manifest' = IF manifest = "staging" THEN "target" ELSE manifest
<1>. USE DEF Basics, places, paper, RollingBack
<1>1. ASSUME Failed(p) \/ Still PROVE UNCHANGED <<manifest, listed, target>>
  BY <1>1 DEF Failed, Still
<1>2. CASE Apply(p) \/ Rollback(p) \/ MakeStaging(p) \/ Verify(p) \/ WriteManifest(p) \/ RemoveRoots(p)
  BY <1>1, <1>2, ApplyDoes, RollbackDoes, MakeStagingDoes, VerifyDoes, WriteManifestDoes, RemoveRootsDoes
<1>3. CASE Undo(p) \/ Unmove(p) \/ Cleanup(p) \/ Fault(p) \/ Killed(p)
  BY <1>1, <1>3, UndoDoes, UnmoveDoes, CleanupDoes, FaultDoes, KilledDoes
<1>4. CASE Move(p) BY <1>1, <1>4, MoveDoes DEF Taken
<1>5. CASE Publish(p) BY <1>1, <1>5, PublishDoes
<1>6. ~(Look(p) \/ Back(p) \/ Restored(p) \/ Archive(p) \/ RemoveTarget(p) \/ WriteReceipt(p) \/ Redo(p))
  BY DEF Returning, Look, Back, Restored, Archive, RemoveTarget, WriteReceipt, Redo
<1>. QED  BY <1>2, <1>3, <1>4, <1>5, <1>6 DEF CallStep

(* A rollback that is over has left every file where it was, unless it was *)
(* killed or failed to put them back, or has archived the manifest.        *)
LEMMA RollbackOver ==
  ASSUME Basics, TrueListing, Papers, NEW p \in Procs, CallStep(p), ~shared',
         RollingBack(p), ~RollingBack(p)', ~disturbed', manifest' = "target"
  PROVE  TargetListed'
<1>1. Listing(p) /\ ~shared
  BY OneAtWork DEF TrueListing
<1>. USE DEF Basics, SameHistory
<1>2. ASSUME NEW s \in Returning \cup {"redo"}, NEW i, NEW pl, NEW m, NEW b, Becomes(p, s, i, pl, m, b)
      PROVE  FALSE
  BY <1>2 DEF Becomes, RollingBack
<1>3. {"look", "back", "restored", "archive", "rmtarget", "receipt", "redo"} \subseteq Returning \cup {"redo"}
  BY DEF Returning
<1>4. ~(Diverted(p) /\ pc[p] \notin Applying)
  BY <1>2, <1>3 DEF Diverted, Goes
<1>5. pc[p] \in Returning \cup {"redo"} /\ pc[p] \notin Applying
  BY DEF RollingBack, Returning, Applying
<1>6. ~(Look(p) \/ Back(p) \/ Restored(p) \/ Archive(p) \/ RemoveTarget(p))
  BY <1>2, <1>3, LookDoes, BackDoes, RestoredDoes, ArchiveDoes, RemoveTargetDoes DEF Goes
<1>7. ~Fault(p)
  <2>1. pc[p] \notin {"unmove", "cleanup"} BY <1>5 DEF Returning
  <2>. QED  BY <1>4, <1>5, <2>1, FaultDoes
<1>8. ~Killed(p) BY KilledDoes
<1>9. ~WriteReceipt(p) BY <1>1, WriteReceiptDoes DEF Papers
<1>10. ~(Apply(p) \/ Rollback(p) \/ MakeStaging(p) \/ Move(p) \/ Verify(p) \/ WriteManifest(p)
          \/ RemoveRoots(p) \/ Publish(p) \/ Undo(p) \/ Unmove(p) \/ Cleanup(p))
  BY <1>5 DEF Returning, Apply, Rollback, MakeStaging, Move, Verify, WriteManifest, RemoveRoots,
     Publish, Undo, Unmove, Cleanup
<1>11. Redo(p) BY <1>6, <1>7, <1>8, <1>9, <1>10 DEF CallStep
<1>12. /\ pc[p] = "redo" /\ disturbed' = disturbed /\ UNCHANGED <<listed, source, target>>
       /\ \/ at[p] > Files
          \/ at[p] \in moved[p] /\ source[at[p]] = None
  BY <1>2, <1>3, <1>11, RedoDoes DEF Goes, paper
<1>13. moved[p] \subseteq File /\ at[p] \in Int BY DEF TypeOK
<1>14. CASE at[p] > Files
  <2>1. \A f \in File : ~(at[p] <= f) BY <1>13, <1>14, FilesNat
  <2>. QED  BY <1>1, <1>12, <2>1 DEF Listing, TargetListed, Returned, Planned
<1>15. CASE at[p] \in moved[p] /\ source[at[p]] = None
  <2>1. Returned(p, at[p]) BY <1>13, <1>15 DEF Returned
  <2>. QED  BY <1>1, <1>12, <1>13, <1>15, <2>1 DEF Listing, Planned
<1>. QED  BY <1>12, <1>14, <1>15

LEMMA CallListing ==
  ASSUME Basics, TrueListing, Papers, NEW p \in Procs, CallStep(p)
  PROVE  TrueListing'
<1>. SUFFICES ASSUME ~shared'
              PROVE  /\ \A q \in Procs : Listing(q)'
                     /\ manifest' = "target" /\ ~disturbed' /\ ~Rolling' => TargetListed'
  BY DEF TrueListing, Rolling, TargetListed
<1>1. ~shared /\ \A q \in Procs \ {p} : ~Busy(q) /\ ~Busy(q)'
  BY OneAtWork
<1>2. ASSUME NEW q \in Procs PROVE Listing(q)'
  <2>1. CASE q = p BY <2>1, OwnListing
  <2>2. CASE q # p
    BY <1>1, <2>2 DEF Listing, Busy, RollingBack, Returning
  <2>. QED  BY <2>1, <2>2
<1>3. ASSUME manifest' = "target", ~disturbed', ~Rolling' PROVE TargetListed'
  <2>1. CASE RollingBack(p) BY <1>3, <2>1, RollbackOver DEF Rolling
  <2>2. CASE ~RollingBack(p)
    <3>1. ~Rolling BY <1>1, <2>2 DEF Rolling, RollingBack, Busy, Returning
    <3>2. disturbed => disturbed' BY <2>2, DisturbedStays
    <3>3. manifest = "target" => TargetListed
      BY <1>1, <1>3, <3>1, <3>2 DEF TrueListing, Rolling, TargetListed
    <3>4. CASE UNCHANGED <<manifest, listed, target>>
      BY <1>3, <3>3, <3>4 DEF TargetListed
    <3>5. CASE pc[p] = "publish" /\ target' = staging /\ listed' = listed
      BY <1>1, <3>5 DEF TrueListing, Listing, Verified, Planned, TargetListed
    <3>. QED  BY <1>3, <2>2, <3>4, <3>5, Publishing
  <2>. QED  BY <2>1, <2>2
<1>. QED  BY <1>2, <1>3

(* The client writes into the source roots only.                           *)
LEMMA WriteListing ==
  ASSUME Basics, TrueListing, NEW f \in File, Write(f)
  PROVE  TrueListing'
<1>. USE WriteDoes
<1>1. ASSUME ~shared', NEW p \in Procs PROVE Listing(p)'
  <2>1. Listing(p) BY <1>1 DEF TrueListing
  <2>2. Verified(p)' <=> Verified(p) BY DEF Verified, Planned
  <2>. QED  BY <2>1, <2>2 DEF Listing, RollingBack
<1>2. (\A p \in Procs : ~RollingBack(p)') <=> \A p \in Procs : ~RollingBack(p)
  BY DEF RollingBack
<1>. QED  BY <1>1, <1>2 DEF TrueListing

-----------------------------------------------------------------------------
(* A manifest is at a target that is there, and no apply is at work.       *)
LEMMA TargetThere ==
  ASSUME Basics, Papers, NEW p \in Procs, CallStep(p)
  PROVE  /\ (target # Empty => targetDir)'
         /\ \/ targetDir => targetDir'
            \/ pc[p] = "rmtarget" /\ Goes(p, "receipt", at[p]) /\ manifest' = manifest
<1>. USE DEF Basics, places, dirs, paper, Papers
<1>1. ASSUME Failed(p) \/ Still PROVE UNCHANGED <<target, targetDir>>
  BY <1>1 DEF Failed, Still
<1>2. CASE Apply(p) \/ Rollback(p) \/ MakeStaging(p) \/ Verify(p) \/ WriteManifest(p) \/ RemoveRoots(p)
  BY <1>1, <1>2, ApplyDoes, RollbackDoes, MakeStagingDoes, VerifyDoes, WriteManifestDoes, RemoveRootsDoes
<1>3. CASE Undo(p) \/ Unmove(p) \/ Cleanup(p) \/ Fault(p) \/ Killed(p)
  BY <1>1, <1>3, UndoDoes, UnmoveDoes, CleanupDoes, FaultDoes, KilledDoes DEF Grown
<1>4. CASE Look(p) \/ Restored(p) \/ Archive(p) \/ RemoveTarget(p) \/ WriteReceipt(p)
  BY <1>1, <1>4, LookDoes, RestoredDoes, ArchiveDoes, RemoveTargetDoes, WriteReceiptDoes
<1>5. CASE Move(p) BY <1>1, <1>5, MoveDoes DEF Taken
<1>6. CASE Publish(p) BY <1>1, <1>6, PublishDoes
<1>7. CASE Back(p)
  <2>1. Empty = [Empty EXCEPT ![at[p]] = None] BY DEF Empty
  <2>. QED  BY <1>7, <2>1, BackDoes DEF PutBack
<1>8. CASE Redo(p) BY <1>8 DEF Redo
<1>. QED  BY <1>2, <1>3, <1>4, <1>5, <1>6, <1>7, <1>8 DEF CallStep

(* What a call's step may make of a manifest at the target: nothing, while *)
(* it rolls back; and only a publication brings one there.                 *)
LEMMA ManifestMoves ==
  ASSUME Basics, Papers, NEW p \in Procs, CallStep(p), ~shared', manifest' = "target"
  PROVE  \/ pc[p] = "publish" /\ pc'[p] = "idle" /\ targetDir' /\ target' = staging
            /\ manifest = "staging" /\ listed' = listed
         \/ /\ manifest = "target" /\ listed' = listed /\ targetDir'
            /\ pc[p] \notin Applying \cup Undoing /\ pc'[p] \notin Applying \cup Undoing
<1>0. ~shared /\ (manifest = "target" => targetDir /\ pc[p] \notin Applying \cup Undoing)
      /\ (manifest = "target" => pc[p] \notin {"rmtarget", "receipt"})
  BY OneAtWork DEF Papers
<1>. USE DEF Basics, places, dirs, paper
<1>1. ASSUME Failed(p) \/ Still PROVE UNCHANGED <<manifest, listed, targetDir>>
  BY <1>1 DEF Failed, Still
<1>2. /\ "idle" \notin Applying \cup Undoing /\ "redo" \notin Applying \cup Undoing
      /\ \A s \in {"look", "back", "restored", "archive", "rmtarget", "receipt"} :
           s \notin Applying \cup Undoing
      /\ {"mkdir", "move", "verify", "manifest", "rmroots", "publish", "undo", "unmove", "cleanup"}
           \subseteq Applying \cup Undoing
      /\ None # "target"
  BY RelocationAssumption DEF Applying, Undoing
<1>3. CASE MakeStaging(p) \/ Move(p) \/ Verify(p) \/ RemoveRoots(p) \/ Undo(p) \/ Unmove(p) \/ Cleanup(p)
  <2>1. manifest' = manifest
    BY <1>1, <1>3, MakeStagingDoes, MoveDoes, VerifyDoes, RemoveRootsDoes, UndoDoes, UnmoveDoes,
       CleanupDoes DEF Taken
  <2>2. pc[p] \in Applying \cup Undoing
    BY <1>2, <1>3 DEF MakeStaging, Move, Verify, RemoveRoots, Undo, Unmove, Cleanup
  <2>. QED  BY <1>0, <2>1, <2>2
<1>4. CASE WriteManifest(p) BY <1>4, WriteManifestDoes
<1>5. CASE Publish(p)
  <2>1. pc[p] = "publish" BY <1>5, PublishDoes
  <2>2. manifest # "target" BY <1>0, <1>2, <2>1
  <2>. QED  BY <1>1, <1>5, <2>1, <2>2, PublishDoes DEF Ended, Becomes
<1>6. CASE Apply(p)
  <2>1. manifest' = manifest /\ ~targetDir BY <1>6, ApplyDoes DEF Still, Clear
  <2>. QED  BY <1>0, <2>1
<1>7. CASE Rollback(p) \/ Look(p) \/ Restored(p) \/ Archive(p)
  <2>1. UNCHANGED <<manifest, listed, targetDir>> /\ pc[p] \notin Applying \cup Undoing
    BY <1>1, <1>2, <1>7, RollbackDoes, LookDoes, RestoredDoes, ArchiveDoes
  <2>2. pc'[p] \notin Applying \cup Undoing
    BY <1>2, <1>7, RollbackDoes, LookDoes, RestoredDoes, ArchiveDoes DEF Goes, Becomes
  <2>. QED  BY <1>0, <2>1, <2>2
<1>8. CASE Back(p)
  BY <1>0, <1>2, <1>8, BackDoes DEF Goes, Becomes
<1>9. CASE RemoveTarget(p) \/ WriteReceipt(p)
  BY <1>0, <1>1, <1>9, RemoveTargetDoes, WriteReceiptDoes
<1>10. CASE Redo(p)
  <2>1. UNCHANGED <<manifest, listed>> /\ pc'[p] \in {"idle", "redo"} /\ pc[p] = "redo"
    BY <1>10, RedoDoes DEF Goes, Ended, Becomes
  <2>2. targetDir => targetDir' BY <1>10 DEF Redo
  <2>. QED  BY <1>0, <1>2, <2>1, <2>2
<1>11. CASE Fault(p)
  <2>1. UNCHANGED <<manifest, listed>> /\ (targetDir => targetDir') BY <1>11, FaultDoes DEF Grown
  <2>2. pc[p] \notin Applying \cup Undoing BY <1>0, <2>1
  <2>3. pc'[p] \in {"redo", "idle"}
    BY <1>2, <1>11, <2>2, FaultDoes DEF Diverted, Goes, Ended, Becomes, Applying, Undoing
  <2>. QED  BY <1>0, <1>2, <2>1, <2>2, <2>3
<1>12. CASE Killed(p)
  BY <1>0, <1>1, <1>2, <1>12, KilledDoes DEF Ended, Becomes, Still
<1>. QED
  BY <1>3, <1>4, <1>5, <1>6, <1>7, <1>8, <1>9, <1>10, <1>11, <1>12 DEF CallStep

(* The manifest is archived before the target is removed.                  *)
LEMMA ArchivedFirst ==
  ASSUME Basics, Papers, NEW p \in Procs, CallStep(p), ~shared', pc'[p] \in {"rmtarget", "receipt"}
  PROVE  manifest' # "target"
<1>1. ~shared /\ (pc[p] \in {"rmtarget", "receipt"} => manifest # "target")
  BY OneAtWork DEF Papers
<1>. SUFFICES ASSUME manifest' = "target" PROVE FALSE
  OBVIOUS
<1>. USE DEF Basics
<1>2. ~(pc[p] = "publish" /\ pc'[p] = "idle") OBVIOUS
<1>3. manifest = "target" /\ pc[p] \notin Applying \cup Undoing BY <1>2, ManifestMoves
<1>4. ~(Failed(p) \/ Diverted(p) \/ Ended(p)) BY DEF Failed, Diverted, Ended, Goes, Becomes
<1>5. ~Archive(p) BY ArchiveDoes, RelocationAssumption DEF Goes, Becomes
<1>6. ~(RemoveTarget(p) \/ WriteReceipt(p)) BY <1>1, <1>3, RemoveTargetDoes, WriteReceiptDoes
<1>7. ~(Apply(p) \/ Rollback(p) \/ Look(p) \/ Back(p) \/ Restored(p) \/ Redo(p))
  BY <1>4, ApplyDoes, RollbackDoes, LookDoes, BackDoes, RestoredDoes, RedoDoes DEF Goes, Becomes
<1>8. ~(Fault(p) \/ Killed(p))
  <2>1. ~Killed(p) BY <1>4, KilledDoes
  <2>2. ~Fault(p) BY <1>4, FaultDoes DEF Becomes
  <2>. QED  BY <2>1, <2>2
<1>9. ~(MakeStaging(p) \/ Move(p) \/ Verify(p) \/ WriteManifest(p) \/ RemoveRoots(p)
        \/ Publish(p) \/ Undo(p) \/ Unmove(p) \/ Cleanup(p))
  BY <1>3 DEF Applying, Undoing, MakeStaging, Move, Verify, WriteManifest, RemoveRoots, Publish,
     Undo, Unmove, Cleanup
<1>. QED  BY <1>5, <1>6, <1>7, <1>8, <1>9 DEF CallStep

LEMMA CallPapers ==
  ASSUME Basics, Unwritten, TrueListing, Papers, NEW p \in Procs, CallStep(p)
  PROVE  Papers'
<1>1. (target # Empty => targetDir)' BY TargetThere
<1>. SUFFICES ASSUME ~shared'
              PROVE  /\ manifest' = "target" =>
                          targetDir' /\ \A q \in Procs : pc'[q] \notin Applying \cup Undoing
                     /\ \A q \in Procs : pc'[q] \in {"rmtarget", "receipt"} => manifest' # "target"
                     /\ manifest' = "target" /\ writes' = 0 => ThereOrBack'
  BY <1>1 DEF Papers
<1>2. ~shared /\ \A q \in Procs \ {p} : pc'[q] = "idle"
  BY OneAtWork DEF Busy
<1>3. "idle" \notin Applying \cup Undoing BY DEF Applying, Undoing
<1>4. ASSUME manifest' = "target"
      PROVE  targetDir' /\ \A q \in Procs : pc'[q] \notin Applying \cup Undoing
  BY <1>2, <1>3, <1>4, ManifestMoves
<1>5. ASSUME NEW q \in Procs, pc'[q] \in {"rmtarget", "receipt"} PROVE manifest' # "target"
  BY <1>2, <1>5, ArchivedFirst
<1>6. ASSUME manifest' = "target", writes' = 0 PROVE ThereOrBack'
  <2>1. writes = 0 BY <1>6, Rename
  <2>2. CASE pc[p] = "publish" /\ target' = staging /\ listed' = listed
    BY <1>2, <2>2 DEF TrueListing, Listing, Verified, Planned, ThereOrBack
  <2>3. CASE manifest = "target" /\ listed' = listed /\ pc[p] \notin Applying \cup Undoing
    <3>. SUFFICES ASSUME NEW f \in File, listed[f] # None
                  PROVE  listed[f] \in {source'[f], target'[f]}
      BY <2>3 DEF ThereOrBack
    <3>1. listed[f] \in {source[f], target[f]} BY <1>2, <2>1, <2>3 DEF Papers, ThereOrBack
    <3>2. {source[f], target[f]} \subseteq {0, None} /\ listed[f] = 0
      BY <2>1, <3>1 DEF Unwritten
    <3>3. \A g \in File : {source[g], target[g]} \subseteq {0, None} BY <2>1 DEF Unwritten
    <3>4. /\ source \in [File -> Version \cup {None}] /\ target \in [File -> Version \cup {None}]
          /\ moved[p] \subseteq File
      BY DEF Basics, TypeOK, Contents
    <3>5. CASE UNCHANGED places BY <3>1, <3>5 DEF places
    <3>6. CASE at[p] \in File /\ PutBack(at[p]) BY <3>1, <3>2, <3>3, <3>4, <3>6 DEF PutBack
    <3>7. CASE at[p] \in moved[p] /\ Resent(at[p]) BY <3>1, <3>2, <3>3, <3>4, <3>7 DEF Resent
    <3>8. pc[p] \notin {"move", "publish", "unmove"} BY <2>3 DEF Applying, Undoing
    <3>. QED  BY <3>5, <3>6, <3>7, <3>8, Rename
  <2>. QED  BY <1>6, <2>2, <2>3, ManifestMoves
<1>. QED  BY <1>4, <1>5, <1>6

LEMMA WritePapers ==
  ASSUME Basics, Papers, NEW f \in File, Write(f)
  PROVE  Papers'
<1>1. writes' # 0 BY WriteDoes DEF Basics, TypeOK
<1>. QED  BY <1>1, WriteDoes DEF Papers

-----------------------------------------------------------------------------
(* No kill and no write: the step tells where each file is.                *)
LEMMA Alike ==
  ASSUME NEW c \in Contents, NEW x, \A f \in File : c[f] = x
  PROVE  c = [f \in File |-> x]
BY DEF Contents

LEMMA QuietStays ==
  ASSUME Basics, NEW p \in Procs, CallStep(p), Quiet'
  PROVE  Quiet /\ ~Killed(p) /\ ~shared' /\ \A q \in Procs \ {p} : ~Busy(q) /\ ~Busy(q)'
<1>1. kills = 0 /\ ~Killed(p)
  <2>1. ~Killed(p) BY KilledDoes DEF Basics, TypeOK, Quiet
  <2>2. CASE Apply(p) \/ Rollback(p) BY <2>1, <2>2 DEF Apply, Rollback, Quiet
  <2>3. CASE Fault(p) BY <2>1, <2>3 DEF Fault, Quiet
  <2>. QED
    BY <2>1, <2>2, <2>3, MakeStagingDoes, MoveDoes, VerifyDoes, WriteManifestDoes, RemoveRootsDoes,
       PublishDoes, UndoDoes, UnmoveDoes, CleanupDoes, LookDoes, BackDoes, RestoredDoes,
       ArchiveDoes, RemoveTargetDoes, WriteReceiptDoes, RedoDoes
       DEF CallStep, Basics, SameHistory, Quiet
<1>. QED  BY <1>1, OneAtWork, Rename DEF Quiet

LEMMA BeginsPlaced ==
  ASSUME Basics, WholeOrUnderWay, NEW p \in Procs, CallStep(p), Quiet', ~Busy(p)
  PROVE  Busy(p)' /\ Placed(p)'
<1>0. Quiet /\ AtRest BY QuietStays DEF AtRest, Busy
<1>1. stuck' = {} BY StartsCall DEF Called
<1>2. (Clear \/ Returnable => Together) /\ (manifest # None => listed = AllZero)
  BY <1>0 DEF WholeOrUnderWay, Split
<1>3. moved[p] = {} /\ bad[p] = FALSE /\ pc[p] = "idle" /\ at[p] \in 0..Files + 1
  BY DEF Basics, AtFile, Busy, TypeOK
<1>4. None # 0 /\ 1 \in File /\ \A f \in File : ~(Files < f) /\ AllZero[f] = 0 /\ Empty[f] = None
  BY RelocationAssumption, FilesNat, EmptyTypes DEF AllZero
<1>5. CASE Apply(p)
  <2>1. Becomes(p, "mkdir", at[p], source, {}, FALSE) /\ Still /\ source # Empty /\ Clear
    BY <1>3, <1>5, ApplyDoes DEF Basics
  <2>2. source = AllZero /\ staging = Empty /\ target = Empty
    BY <1>2, <2>1 DEF Together, AllZero
  <2>. QED
    BY <1>1, <1>4, <2>1, <2>2
       DEF Placed, Place, Unwinding, Becomes, Still, InStaging, InTarget, RollingBack, Returning, Busy
<1>6. CASE Rollback(p)
  <2>1. Becomes(p, "look", Files, listed, {}, FALSE) /\ Still /\ Returnable
    BY <1>3, <1>6, RollbackDoes DEF Basics
  <2>2. listed = AllZero BY <1>2, <2>1, RelocationAssumption DEF Returnable
  <2>3. target[1] = 0 BY <1>4, <2>1, <2>2 DEF Returnable
  <2>4. target = AllZero /\ staging = Empty /\ source = Empty
    BY <1>2, <1>4, <2>1, <2>3 DEF Together, AllZero
  <2>. QED
    BY <1>1, <1>4, <2>1, <2>2, <2>4
       DEF Placed, Place, Unwinding, Becomes, Still, InStaging, InTarget, Returned, RollingBack, Returning,
           Applying, Busy
<1>7. ~(pc[p] \in Applying \cup Returning) /\ ~Fault(p)
  BY <1>3 DEF Applying, Returning, Fault, StepFails, UnmoveFails, CleanupFails, RedoFails
<1>. QED
  BY <1>3, <1>5, <1>6, <1>7 DEF CallStep, Busy, Apply, Rollback, MakeStaging, Move, Verify, WriteManifest,
     RemoveRoots, Publish, Undo, Unmove, Cleanup, Look, Back, Restored, Archive,
     RemoveTarget, WriteReceipt, Redo, Fault, Killed

(* A step that fails: the files stay, and the undoing finds them.          *)
LEMMA FailedPlaced ==
  ASSUME Basics, NEW p \in Procs, Placed(p), Diverted(p), pc[p] \in Applying \cup Returning,
         UNCHANGED <<source, staging, target, stuck>>
  PROVE  Placed(p)' /\ Busy(p)'
<1>1. moved[p] \subseteq File /\ \A f \in File : f <= Files /\ 1 <= f
  BY FilesNat DEF Basics, TypeOK
<1>0. ~Unwinding(p) /\ stuck = {} /\ bad[p] = FALSE
  BY DEF Unwinding, Applying, Returning, Placed
<1>2. CASE pc[p] \in Applying
  <2>1. moved[p] = {f \in File : InStaging(p, f)} BY <1>2 DEF Placed
  <2>2. Becomes(p, "undo", Files, plan[p], moved[p], bad[p])
    BY <1>2 DEF Diverted, Goes
  <2>3. \A f \in File : InStaging(p, f)' <=> InStaging(p, f)
    BY <1>1, <2>1, <2>2 DEF InStaging, Becomes, Unwinding
  <2>4. \A f \in File : InTarget(p, f)' = FALSE /\ InTarget(p, f) = FALSE
    BY <1>2, <2>2 DEF InTarget, RollingBack, Becomes, Returning, Applying
  <2>. QED
    BY <1>0, <2>2, <2>3, <2>4 DEF Placed, Place, Becomes, Busy, Applying, Returning, Unwinding
<1>3. CASE pc[p] \in Returning
  <2>1. Becomes(p, "redo", 1, plan[p], moved[p], bad[p])
    BY <1>3 DEF Diverted, Goes, Applying, Returning
  <2>2. \A f \in File : InStaging(p, f)' = FALSE /\ InStaging(p, f) = FALSE
    BY <1>3, <2>1 DEF InStaging, Becomes, Returning, Unwinding
  <2>3. \A f \in File : InTarget(p, f)' <=> InTarget(p, f)
    BY <1>1, <1>3, <2>1 DEF InTarget, Returned, RollingBack, Becomes, Returning
  <2>. QED
    BY <1>0, <2>1, <2>2, <2>3 DEF Placed, Place, Becomes, Busy, Applying, Returning, Unwinding
<1>. QED  BY <1>2, <1>3

(* Each step of a call takes the files one step further.                   *)
LEMMA AppliesPlaced ==
  ASSUME Basics, NEW p \in Procs, Placed(p), ~Failed(p), stuck' = stuck,
         MakeStaging(p) \/ Move(p) \/ Verify(p) \/ WriteManifest(p) \/ RemoveRoots(p)
  PROVE  Placed(p)' /\ Busy(p)'
<1>. USE DEF Basics
<1>1. /\ source \in [File -> Version \cup {None}] /\ staging \in [File -> Version \cup {None}]
      /\ at[p] \in Int /\ None # 0 /\ \A f \in File : plan[p][f] = 0 /\ f \in Int /\ 1 <= f /\ f <= Files
  BY RelocationAssumption, FilesNat DEF TypeOK, Contents, Placed, AllZero
<1>2. CASE MakeStaging(p)
  <2>1. pc[p] = "mkdir" /\ Goes(p, "move", 1) /\ UNCHANGED places
    BY <1>2, MakeStagingDoes
  <2>. QED
    BY <1>1, <2>1
       DEF Placed, Place, Goes, Becomes, places, InStaging, InTarget, RollingBack,
           Returning, Applying, Busy, Unwinding
<1>3. CASE Move(p)
  <2>0. pc[p] = "move" BY <1>3, MoveDoes
  <2>1. CASE at[p] > Files /\ Goes(p, "verify", 0) /\ Still
    <3>1. \A f \in File : f < at[p] BY <1>1, <2>1, FilesNat
    <3>. QED
      BY <2>0, <2>1, <3>1
         DEF Placed, Place, Goes, Becomes, Still, InStaging, InTarget, RollingBack,
           Returning, Applying, Busy, Unwinding
  <2>2. CASE /\ at[p] \in File /\ Taken(p, at[p])
             /\ Becomes(p, "move", at[p] + 1, plan[p], moved[p] \cup {at[p]}, bad[p])
    <3>1. \A f \in File : f < at[p] + 1 <=> f < at[p] \/ f = at[p] BY <1>1
    <3>2. source[at[p]] = 0 BY <1>1, <2>0, <2>2 DEF Placed, Place, InStaging, InTarget, RollingBack, Returning, Unwinding
    <3>3. \A f \in File : InStaging(p, f) <=> f < at[p]
      BY <2>0 DEF InStaging, Unwinding
    <3>4. \A f \in File : InStaging(p, f)' <=> f < at[p] \/ f = at[p]
      BY <2>2, <3>1 DEF InStaging, Becomes, Unwinding
    <3>5. \A f \in File : ~InTarget(p, f) /\ ~InTarget(p, f)'
      BY <2>0, <2>2 DEF InTarget, RollingBack, Returning, Becomes
    <3>6. \A f \in File : Place(p, f)'
      BY <1>1, <2>2, <3>2, <3>3, <3>4, <3>5 DEF Placed, Place, Taken
    <3>7. moved'[p] = {f \in File : InStaging(p, f)'}
      BY <2>0, <2>2, <3>3, <3>4 DEF Placed, Applying, Becomes
    <3>. QED  BY <2>0, <2>2, <3>6, <3>7 DEF Placed, Becomes, Returning, Busy, Unwinding
  <2>. QED  BY <1>1, <1>3, <2>1, <2>2, MoveDoes DEF Planned
<1>4. CASE Verify(p) \/ WriteManifest(p) \/ RemoveRoots(p)
  <2>1. /\ pc[p] \in {"verify", "manifest", "rmroots"} /\ UNCHANGED places
        /\ \E s \in {"manifest", "rmroots", "publish"} : Goes(p, s, at[p])
    BY <1>4, VerifyDoes, WriteManifestDoes, RemoveRootsDoes DEF Still, places
  <2>. QED
    BY <2>1
       DEF Placed, Place, Goes, Becomes, places, InStaging, InTarget, RollingBack,
           Returning, Applying, Busy, Unwinding
<1>. QED  BY <1>2, <1>3, <1>4

LEMMA UndoesPlaced ==
  ASSUME Basics, NEW p \in Procs, Placed(p), stuck' = stuck, ~Ended(p), Undo(p) \/ Unmove(p)
  PROVE  Placed(p)' /\ Busy(p)'
<1>. USE DEF Basics
<1>1. /\ source \in [File -> Version \cup {None}] /\ staging \in [File -> Version \cup {None}]
      /\ at[p] \in Int /\ None # 0 /\ moved[p] \subseteq File
      /\ \A f \in File : f \in Int /\ 1 <= f
  BY RelocationAssumption, FilesNat DEF TypeOK, Contents
<1>2. Unwinding(p) BY DEF Undo, Unmove, Unwinding
<1>3. \A f \in File : InStaging(p, f) <=> f \in moved[p] /\ (f <= at[p] \/ f \in stuck)
  BY <1>2 DEF InStaging, Unwinding
<1>4. \A f \in File : ~InTarget(p, f)
  BY <1>2 DEF InTarget, RollingBack, Returning, Unwinding
<1>5. /\ bad[p] <=> stuck # {}
      /\ \A f \in stuck : f \in moved[p] /\ at[p] < f
  BY <1>2 DEF Placed
<1>6. ASSUME NEW s \in {"undo", "unmove"}, NEW i \in Int, Goes(p, s, i), UNCHANGED <<source, staging, target>>,
             i <= at[p], \A f \in moved[p] : f <= at[p] <=> f <= i,
             s = "unmove" => i \in moved[p]
      PROVE  Placed(p)' /\ Busy(p)'
  <2>1. \A f \in File : InStaging(p, f)' <=> InStaging(p, f)
    BY <1>3, <1>6 DEF InStaging, Goes, Becomes, Unwinding
  <2>2. \A f \in File : ~InTarget(p, f)'
    BY <1>6 DEF InTarget, RollingBack, Returning, Goes, Becomes
  <2>3. \A f \in stuck : i < f BY <1>1, <1>5, <1>6
  <2>. QED
    BY <1>4, <1>5, <1>6, <2>1, <2>2, <2>3
       DEF Placed, Place, Goes, Becomes, Busy, Applying, Returning, Unwinding
<1>7. CASE Undo(p)
  <2>1. at[p] \in moved[p] => ~Blocked(at[p])
    BY <1>1, <1>3 DEF Placed, Place, Blocked
  <2>2. pc[p] = "undo" /\ UNCHANGED <<source, staging, target>>
    BY <1>7, UndoDoes DEF Still
  <2>3. CASE at[p] = 0 /\ Goes(p, "cleanup", 0) /\ ~bad[p]
    <3>1. stuck = {} /\ bad[p] = FALSE BY <1>5, <2>3 DEF TypeOK
    <3>2. \A f \in File : ~InStaging(p, f) BY <1>1, <1>3, <2>3, <3>1
    <3>3. \A f \in File : ~InStaging(p, f)' /\ ~InTarget(p, f)'
      BY <2>3 DEF InStaging, InTarget, RollingBack, Returning, Goes, Becomes, Unwinding
    <3>. QED
      BY <1>4, <2>2, <2>3, <3>1, <3>2, <3>3
         DEF Placed, Place, Goes, Becomes, Busy, Applying, Returning, Unwinding
  <2>4. CASE at[p] \in File /\ at[p] \notin moved[p] /\ Goes(p, "undo", at[p] - 1)
    <3>1. \A f \in moved[p] : f <= at[p] <=> f <= at[p] - 1 BY <1>1, <2>4
    <3>2. at[p] - 1 \in Int /\ at[p] - 1 <= at[p] BY <1>1
    <3>. QED  BY <1>6, <2>2, <2>4, <3>1, <3>2
  <2>5. CASE at[p] \in moved[p] /\ Goes(p, "unmove", at[p])
    BY <1>1, <1>6, <2>2, <2>5
  <2>. QED  BY <1>1, <1>7, <2>1, <2>3, <2>4, <2>5, UndoDoes
<1>8. CASE Unmove(p)
  <2>1. pc[p] = "unmove" /\ at[p] \in moved[p] /\ target' = target
    BY <1>8, UnmoveDoes DEF Placed
  <2>2. staging[at[p]] = 0 BY <1>1, <1>3, <2>1 DEF Placed, Place
  <2>3. Untaken(p, at[p]) /\ Goes(p, "undo", at[p] - 1)
    BY <1>1, <1>8, <2>2, UnmoveDoes
  <2>4. \A f \in File : f <= at[p] - 1 <=> f <= at[p] /\ f # at[p] BY <1>1
  <2>5. at[p] \notin stuck /\ \A f \in stuck : at[p] - 1 < f BY <1>1, <1>5
  <2>6. \A f \in File : InStaging(p, f)' <=> InStaging(p, f) /\ f # at[p]
    BY <1>3, <2>3, <2>4, <2>5 DEF InStaging, Goes, Becomes, Unwinding
  <2>7. \A f \in File : ~InTarget(p, f)'
    BY <2>3 DEF InTarget, RollingBack, Returning, Goes, Becomes
  <2>8. \A f \in File : Place(p, f)'
    BY <1>1, <1>4, <2>1, <2>2, <2>3, <2>6, <2>7 DEF Placed, Place, Untaken
  <2>. QED
    BY <1>5, <2>3, <2>5, <2>8 DEF Placed, Goes, Becomes, Busy, Applying, Returning, Unwinding
<1>. QED  BY <1>7, <1>8

(* A move back that fails leaves its file in staging, and goes on.         *)
LEMMA UnmoveFailsPlaced ==
  ASSUME Basics, NEW p \in Procs, Placed(p), pc[p] = "unmove", at[p] \in File,
         Becomes(p, "undo", at[p] - 1, plan[p], moved[p], TRUE),
         stuck' = stuck \cup {at[p]}, UNCHANGED <<source, staging, target>>
  PROVE  Placed(p)' /\ Busy(p)'
<1>1. /\ at[p] \in Int /\ moved[p] \subseteq File /\ at[p] \in moved[p]
      /\ \A f \in File : f \in Int
  BY FilesNat DEF Basics, TypeOK, Placed
<1>2. \A f \in stuck : f \in moved[p] /\ at[p] < f BY DEF Placed, Unwinding
<1>3. \A f \in stuck' : f \in moved[p] /\ at[p] - 1 < f BY <1>1, <1>2
<1>4. \A f \in File : f <= at[p] <=> f <= at[p] - 1 \/ f = at[p] BY <1>1
<1>5. \A f \in File : InStaging(p, f)' <=> InStaging(p, f)
  BY <1>1, <1>4 DEF InStaging, Becomes, Unwinding
<1>6. \A f \in File : ~InTarget(p, f) /\ ~InTarget(p, f)'
  BY DEF InTarget, RollingBack, Returning, Becomes
<1>. QED
  BY <1>3, <1>5, <1>6 DEF Placed, Place, Becomes, Busy, Applying, Returning, Unwinding

LEMMA ReturnsPlaced ==
  ASSUME Basics, NEW p \in Procs, Placed(p), ~Goes(p, "redo", 1), stuck' = stuck,
         Look(p) \/ Back(p) \/ Restored(p) \/ Archive(p) \/ RemoveTarget(p)
  PROVE  Placed(p)' /\ Busy(p)'
<1>. USE DEF Basics
<1>1. /\ source \in [File -> Version \cup {None}] /\ target \in [File -> Version \cup {None}]
      /\ at[p] \in Int /\ None # 0 /\ moved[p] \subseteq File
      /\ \A f \in File : plan[p][f] = 0 /\ f \in Int /\ 0 < f
  BY RelocationAssumption, FilesNat DEF TypeOK, Contents, Placed, AllZero
<1>2. pc[p] \in Returning BY DEF Look, Back, Restored, Archive, RemoveTarget, Returning
<1>3. \A f \in File : (InTarget(p, f) <=> f \notin moved[p]) /\ ~InStaging(p, f)
  BY <1>2 DEF Unwinding, InTarget, InStaging, Returned, RollingBack, Returning
<1>4. ASSUME NEW s \in Returning, NEW i, Goes(p, s, i), UNCHANGED <<source, staging, target>>,
             s \in {"look", "back"} => pc[p] \in {"look", "back"} /\ i = at[p],
             s \notin {"look", "back"} => moved[p] = File
      PROVE  Placed(p)' /\ Busy(p)'
  <2>1. \A f \in File : (InTarget(p, f)' <=> f \notin moved[p]) /\ ~InStaging(p, f)'
    BY <1>4 DEF Unwinding, InTarget, InStaging, Returned, RollingBack, Returning, Goes, Becomes
  <2>. QED
    BY <1>2, <1>3, <1>4, <2>1 DEF Unwinding, Placed, Place, Goes, Becomes, Busy, Applying, Returning
<1>5. {"look", "back", "restored", "archive", "rmtarget", "receipt"} \subseteq Returning
  BY DEF Returning
<1>6. CASE Look(p)
  <2>1. pc[p] = "look" /\ UNCHANGED <<source, staging, target>> /\ moved[p] = {f \in File : at[p] < f}
    BY <1>6, LookDoes DEF Still, Placed
  <2>2. CASE at[p] = 0 /\ Goes(p, "restored", 0)
    <3>1. moved[p] = File BY <1>1, <2>1, <2>2
    <3>. QED  BY <1>4, <1>5, <2>1, <2>2, <3>1
  <2>3. CASE Goes(p, "back", at[p])
    BY <1>4, <1>5, <2>1, <2>3
  <2>. QED  BY <1>1, <1>6, <2>2, <2>3, LookDoes DEF Planned
<1>7. CASE Back(p)
  <2>1. /\ pc[p] = "back" /\ at[p] \in File /\ PutBack(at[p]) /\ staging' = staging
        /\ Becomes(p, "look", at[p] - 1, plan[p], moved[p] \cup {at[p]}, bad[p])
    BY <1>7, BackDoes
  <2>2. moved[p] = {f \in File : at[p] < f} BY <2>1 DEF Placed
  <2>3. \A f \in File : at[p] - 1 < f <=> at[p] < f \/ f = at[p] BY <1>1
  <2>4. moved'[p] = {f \in File : at'[p] < f} BY <2>1, <2>2, <2>3 DEF Becomes
  <2>5. target[at[p]] = 0 BY <1>1, <1>3, <2>1, <2>2 DEF Unwinding, Placed, Place, PutBack
  <2>6. \A f \in File : (InTarget(p, f)' <=> f \notin moved[p] /\ f # at[p]) /\ ~InStaging(p, f)'
    BY <2>1 DEF Unwinding, InTarget, InStaging, Returned, RollingBack, Returning, Becomes
  <2>7. \A f \in File : Place(p, f)'
    BY <1>1, <1>3, <2>1, <2>5, <2>6 DEF Unwinding, Placed, Place, PutBack
  <2>. QED  BY <2>1, <2>4, <2>7 DEF Unwinding, Placed, Becomes, Busy, Applying
<1>8. CASE Restored(p) \/ Archive(p) \/ RemoveTarget(p)
  <2>1. /\ pc[p] \in Returning \ {"look", "back"} /\ UNCHANGED <<source, staging, target>>
        /\ \E s \in Returning \ {"look", "back"} : Goes(p, s, at[p])
    BY <1>8, <1>5, RestoredDoes, ArchiveDoes, RemoveTargetDoes DEF Still, places
  <2>2. moved[p] = File BY <2>1 DEF Placed
  <2>. QED  BY <1>4, <2>1, <2>2
<1>. QED  BY <1>6, <1>7, <1>8

LEMMA RedoesPlaced ==
  ASSUME Basics, NEW p \in Procs, Placed(p), Redo(p), ~Ended(p), stuck' = stuck
  PROVE  Placed(p)' /\ Busy(p)'
<1>. USE DEF Basics
<1>1. /\ source \in [File -> Version \cup {None}] /\ target \in [File -> Version \cup {None}]
      /\ at[p] \in Int /\ None # 0 /\ moved[p] \subseteq File
      /\ \A f \in File : f \in Int
  BY RelocationAssumption, FilesNat DEF TypeOK, Contents
<1>2. pc[p] = "redo" /\ staging' = staging BY RedoDoes
<1>3. \A f \in File : (InTarget(p, f) <=> ~(f \in moved[p] /\ at[p] <= f)) /\ ~InStaging(p, f)
  BY <1>2 DEF Unwinding, InTarget, InStaging, Returned, RollingBack
<1>4. at[p] \in File /\ Goes(p, "redo", at[p] + 1)
  BY <1>1, RedoDoes
<1>5. \A f \in File : at[p] + 1 <= f <=> at[p] <= f /\ f # at[p] BY <1>1, <1>4
<1>6. \A f \in File : /\ InTarget(p, f)' <=> ~(f \in moved[p] /\ at[p] <= f /\ f # at[p])
                      /\ ~InStaging(p, f)'
  BY <1>4, <1>5 DEF Unwinding, InTarget, InStaging, Returned, RollingBack, Goes, Becomes
<1>7. CASE at[p] \notin moved[p] /\ UNCHANGED <<source, target>>
  BY <1>2, <1>3, <1>4, <1>6, <1>7 DEF Unwinding, Placed, Place, Goes, Becomes, Busy, Applying, Returning
<1>8. CASE at[p] \in moved[p] /\ Resent(at[p])
  <2>1. source[at[p]] = 0 BY <1>1, <1>3, <1>4, <1>8 DEF Unwinding, Placed, Place
  <2>2. \A f \in File : Place(p, f)'
    BY <1>1, <1>2, <1>3, <1>4, <1>6, <1>8, <2>1 DEF Unwinding, Placed, Place, Resent
  <2>. QED  BY <1>2, <1>4, <2>2 DEF Unwinding, Placed, Goes, Becomes, Busy, Applying, Returning
<1>. QED  BY <1>7, <1>8, RedoDoes

(* A call that ends leaves the files together.                             *)
LEMMA EndsTogether ==
  ASSUME Basics, NEW p \in Procs, Placed(p), ~Failed(p), Ended(p),
         \/ Publish(p) \/ Cleanup(p) \/ WriteReceipt(p) \/ Redo(p)
         \/ pc[p] = "cleanup" /\ UNCHANGED <<source, staging, target>>
  PROVE  Together'
<1>. USE DEF Basics
<1>1. source \in Contents /\ staging \in Contents /\ target \in Contents
      /\ moved[p] \subseteq File /\ at[p] \in Int /\ \A f \in File : f \in Int /\ f <= Files
      /\ None # 0
  BY RelocationAssumption, FilesNat DEF TypeOK
<1>2. ASSUME UNCHANGED places, \A f \in File : ~InStaging(p, f),
             \/ \A f \in File : InTarget(p, f)
             \/ \A f \in File : ~InTarget(p, f)
      PROVE  Together'
  <2>1. staging = Empty BY <1>1, <1>2, Alike DEF Placed, Place, Empty
  <2>2. CASE \A f \in File : InTarget(p, f)
    <3>1. source = Empty /\ target = AllZero
      BY <1>1, <1>2, <2>2, Alike DEF Placed, Place, Empty, AllZero
    <3>. QED  BY <1>2, <2>1, <3>1 DEF Together, places, AllZero, Empty
  <2>3. CASE \A f \in File : ~InTarget(p, f)
    <3>1. target = Empty /\ source = AllZero
      BY <1>1, <1>2, <2>3, Alike DEF Placed, Place, Empty, AllZero
    <3>. QED  BY <1>2, <2>1, <3>1 DEF Together, places, AllZero, Empty
  <2>. QED  BY <1>2, <2>2, <2>3
<1>3. CASE Publish(p)
  <2>1. pc[p] = "publish" /\ target' = staging /\ staging' = Empty /\ source' = source
    BY <1>3, PublishDoes
  <2>2. \A f \in File : staging[f] = 0 /\ source[f] = None
    BY <2>1 DEF Unwinding, Placed, Place, InStaging
  <2>3. staging = AllZero /\ source = Empty BY <1>1, <2>2, Alike DEF AllZero, Empty
  <2>. QED  BY <2>1, <2>3 DEF Together, AllZero, Empty
<1>5. CASE Cleanup(p) \/ (pc[p] = "cleanup" /\ UNCHANGED <<source, staging, target>>)
  <2>1. pc[p] = "cleanup" /\ UNCHANGED places
    BY <1>5, CleanupDoes DEF places
  <2>. QED  BY <1>2, <2>1 DEF InStaging, InTarget, RollingBack, Returning, Unwinding
<1>6. CASE WriteReceipt(p)
  <2>1. pc[p] = "receipt" /\ UNCHANGED places BY <1>6, WriteReceiptDoes
  <2>2. moved[p] = File BY <2>1 DEF Placed, Returning
  <2>. QED  BY <1>2, <2>1, <2>2 DEF Unwinding, InStaging, InTarget, Returned, RollingBack, Returning
<1>7. CASE Redo(p)
  <2>1. pc[p] = "redo" /\ staging' = staging BY <1>7, RedoDoes
  <2>2. ~(at[p] \in moved[p] /\ source[at[p]] = None)
    <3>. SUFFICES ASSUME at[p] \in moved[p] PROVE source[at[p]] = 0
      BY <1>1
    <3>1. at[p] \in File /\ ~InStaging(p, at[p]) /\ ~InTarget(p, at[p])
      BY <1>1, <2>1 DEF Unwinding, InStaging, InTarget, Returned
    <3>. QED  BY <3>1 DEF Placed, Place
  <2>3. at[p] > Files /\ UNCHANGED <<source, target>>
    BY <1>7, <2>2, RedoDoes DEF Goes, Ended, Becomes
  <2>4. \A f \in File : InTarget(p, f) /\ ~InStaging(p, f)
    <3>1. \A f \in File : ~(at[p] <= f) BY <1>1, <2>3, FilesNat
    <3>. QED  BY <2>1, <3>1 DEF Unwinding, InStaging, InTarget, Returned, RollingBack
  <2>. QED  BY <1>2, <2>1, <2>3, <2>4 DEF places
<1>. QED  BY <1>3, <1>5, <1>6, <1>7

(* A call whose undoing failed leaves them split, so that no other starts. *)
LEMMA EndsSplit ==
  ASSUME Basics, NEW p \in Procs, Placed(p), UNCHANGED <<source, staging, target>>,
         \/ pc[p] = "undo" /\ at[p] = 0 /\ bad[p] /\ stuck' = stuck
         \/ pc[p] = "redo" /\ at[p] \in moved[p] /\ stuck' = stuck \cup {at[p]},
         (~stagingDir => staging = Empty)', (target # Empty => targetDir)',
         manifest' # None => listed' = AllZero
  PROVE  Together' \/ Split'
<1>1. /\ source \in Contents /\ staging \in Contents /\ target \in Contents
      /\ moved[p] \subseteq File /\ at[p] \in Int /\ 1 \in File
      /\ \A f \in File : f \in Int /\ ~(f <= 0)
      /\ None # 0 /\ None # "target" /\ \A f \in File : Empty[f] = None /\ AllZero[f] = 0
  BY RelocationAssumption, FilesNat, EmptyTypes DEF Basics, TypeOK, AllZero
<1>2. stuck' # {}
  <2>1. CASE pc[p] = "redo" BY <2>1
  <2>2. CASE pc[p] = "undo" BY <2>2 DEF Placed, Unwinding
  <2>. QED  BY <2>1, <2>2
<1>3. \A f \in File : InOnePlace(f)'
  <2>. SUFFICES ASSUME NEW f \in File PROVE InOnePlace(f)'
    OBVIOUS
  <2>0. Place(p, f) BY DEF Placed
  <2>1. ~(InStaging(p, f) /\ InTarget(p, f))
    BY DEF InStaging, InTarget, RollingBack, Returning, Unwinding
  <2>2. CASE InStaging(p, f)
    <3>. DEFINE here == "staging"
    <3>1. /\ source'[f] = IF here = "source" THEN 0 ELSE None
          /\ staging'[f] = IF here = "staging" THEN 0 ELSE None
          /\ target'[f] = IF here = "target" THEN 0 ELSE None
      BY <2>0, <2>1, <2>2 DEF Place
    <3>. QED  BY <3>1 DEF InOnePlace
  <2>3. CASE InTarget(p, f)
    <3>. DEFINE here == "target"
    <3>1. /\ source'[f] = IF here = "source" THEN 0 ELSE None
          /\ staging'[f] = IF here = "staging" THEN 0 ELSE None
          /\ target'[f] = IF here = "target" THEN 0 ELSE None
      BY <2>0, <2>1, <2>3 DEF Place
    <3>. QED  BY <3>1 DEF InOnePlace
  <2>4. CASE ~InStaging(p, f) /\ ~InTarget(p, f)
    <3>. DEFINE here == "source"
    <3>1. /\ source'[f] = IF here = "source" THEN 0 ELSE None
          /\ staging'[f] = IF here = "staging" THEN 0 ELSE None
          /\ target'[f] = IF here = "target" THEN 0 ELSE None
      BY <2>0, <2>4 DEF Place
    <3>. QED  BY <3>1 DEF InOnePlace
  <2>. QED  BY <2>2, <2>3, <2>4
<1>4. \/ target = Empty /\ \A f \in File : staging[f] # None => f \in stuck
      \/ staging = Empty
  <2>1. CASE pc[p] = "undo"
    <3>1. \A f \in File : ~InTarget(p, f) BY <2>1 DEF InTarget, RollingBack, Returning
    <3>2. \A f \in File : InStaging(p, f) => f \in stuck
      BY <1>1, <2>1 DEF InStaging, Unwinding
    <3>3. target = Empty BY <1>1, <3>1, Alike DEF Placed, Place, Empty
    <3>. QED  BY <1>1, <3>2, <3>3 DEF Placed, Place
  <2>2. CASE pc[p] = "redo"
    <3>1. \A f \in File : ~InStaging(p, f) BY <2>2 DEF InStaging, Unwinding
    <3>. QED  BY <1>1, <3>1, Alike DEF Placed, Place, Empty
  <2>. QED  BY <2>1, <2>2
<1>5. stuck \subseteq stuck' OBVIOUS
<1>. SUFFICES ASSUME ~Together' PROVE ~Clear' /\ ~Returnable'
  BY <1>2, <1>3, <1>4, <1>5 DEF Split
<1>6. ~Clear'
  <2>. SUFFICES ASSUME staging = Empty, target = Empty PROVE Together'
    BY DEF Clear
  <2>1. \A f \in File : source[f] = 0
    BY <1>1, <1>3 DEF InOnePlace
  <2>2. source = AllZero BY <1>1, <2>1, Alike DEF AllZero
  <2>. QED  BY <2>2 DEF Together, AllZero
<1>7. ~Returnable'
  <2>. SUFFICES ASSUME Returnable' PROVE Together'
    OBVIOUS
  <2>1. listed' = AllZero BY <1>1 DEF Returnable
  <2>2. \A f \in File : target[f] = 0 BY <1>1, <2>1 DEF Returnable
  <2>3. \A f \in File : source[f] = None /\ staging[f] = None
    BY <1>1, <1>3, <2>2 DEF InOnePlace
  <2>4. target = AllZero /\ source = Empty /\ staging = Empty
    BY <1>1, <2>2, <2>3, Alike DEF AllZero, Empty
  <2>. QED  BY <2>4 DEF Together, AllZero
<1>. QED  BY <1>6, <1>7

LEMMA GoesPlaced ==
  ASSUME Basics, NEW p \in Procs, Busy(p), Placed(p), CallStep(p), ~Killed(p),
         (~stagingDir => staging = Empty)', (target # Empty => targetDir)',
         manifest' # None => listed' = AllZero
  PROVE  \/ Placed(p)' /\ Busy(p)'
         \/ (Together' \/ Split') /\ ~Busy(p)'
<1>. USE DEF Basics
<1>0. ~Fault(p) => stuck' = stuck BY StuckStays
<1>1. CASE Failed(p) /\ pc[p] \in Applying \cup Returning /\ ~Fault(p)
  BY <1>0, <1>1, FailedPlaced DEF Failed, Still
<1>2. CASE Ended(p) /\ ~Failed(p) /\ (Publish(p) \/ Cleanup(p) \/ WriteReceipt(p) \/ Redo(p))
  BY <1>2, EndsTogether DEF Ended, Becomes, Busy
<1>3. ASSUME Goes(p, "redo", 1), UNCHANGED places, pc[p] \in Returning, ~Failed(p), ~Fault(p)
      PROVE  Placed(p)' /\ Busy(p)'
  <2>1. Becomes(p, "redo", 1, plan[p], moved[p], bad[p]) BY <1>3 DEF Goes
  <2>2. moved[p] \subseteq File /\ \A f \in File : 1 <= f BY FilesNat DEF TypeOK
  <2>3. \A f \in File : ~InStaging(p, f)' /\ ~InStaging(p, f)
    BY <1>3, <2>1 DEF InStaging, Becomes, Returning, Unwinding
  <2>4. \A f \in File : InTarget(p, f)' <=> InTarget(p, f)
    BY <1>3, <2>1, <2>2 DEF InTarget, Returned, RollingBack, Becomes, Returning
  <2>. QED
    BY <1>0, <1>3, <2>1, <2>3, <2>4 DEF Unwinding, Placed, Place, Becomes, places, Busy, Applying, Returning
<1>4. ~(Apply(p) \/ Rollback(p)) BY DEF Apply, Rollback, Busy
<1>5. CASE ~Fault(p) /\ (MakeStaging(p) \/ Move(p) \/ Verify(p) \/ WriteManifest(p) \/ RemoveRoots(p))
  <2>1. pc[p] \in Applying
    BY <1>5 DEF Applying, MakeStaging, Move, Verify, WriteManifest, RemoveRoots
  <2>. QED  BY <1>0, <1>1, <1>5, <2>1, AppliesPlaced
<1>6. CASE Publish(p) /\ ~Fault(p)
  <2>1. pc[p] \in Applying BY <1>6 DEF Applying, Publish
  <2>. QED  BY <1>1, <1>2, <1>6, <2>1, PublishDoes
<1>7. CASE ~Fault(p) /\ (Undo(p) \/ Unmove(p))
  <2>1. CASE Ended(p)
    <3>1. /\ pc[p] = "undo" /\ at[p] = 0 /\ bad[p]
          /\ UNCHANGED <<source, staging, target>>
      BY <1>7, <2>1, UndoDoes, UnmoveDoes DEF Ended, Goes, Becomes, Still
    <3>. QED  BY <1>0, <1>7, <2>1, <3>1, EndsSplit DEF Ended, Becomes, Busy
  <2>2. CASE ~Ended(p) BY <1>0, <1>7, <2>2, UndoesPlaced
  <2>. QED  BY <2>1, <2>2
<1>8. CASE Cleanup(p) \/ WriteReceipt(p)
  <2>1. Ended(p) BY <1>8, CleanupDoes, WriteReceiptDoes
  <2>2. ~Failed(p) BY <2>1 DEF Ended, Failed, Diverted, Goes, Becomes
  <2>. QED  BY <1>2, <1>8, <2>1, <2>2
<1>9. CASE ~Fault(p) /\ (Look(p) \/ Back(p) \/ Restored(p) \/ Archive(p) \/ RemoveTarget(p))
  <2>1. pc[p] \in Returning
    BY <1>9 DEF Returning, Look, Back, Restored, Archive, RemoveTarget
  <2>2. Goes(p, "redo", 1) => UNCHANGED places
    BY <1>9, LookDoes, BackDoes, RestoredDoes, ArchiveDoes, RemoveTargetDoes DEF places, Still, Goes, Becomes
  <2>. QED  BY <1>0, <1>1, <1>3, <1>9, <2>1, <2>2, ReturnsPlaced
<1>10. CASE Redo(p) /\ ~Fault(p)
  <2>1. CASE Ended(p)
    <3>1. ~Failed(p) BY <2>1 DEF Ended, Failed, Diverted, Goes, Becomes
    <3>. QED  BY <1>2, <1>10, <2>1, <3>1
  <2>2. CASE ~Ended(p) BY <1>0, <1>10, <2>2, RedoesPlaced
  <2>. QED  BY <2>1, <2>2
<1>11. CASE Fault(p)
  <2>0. UNCHANGED <<source, staging, target>> BY <1>11, FaultDoes
  <2>1. CASE pc[p] \in Applying \cup Returning /\ Diverted(p) /\ stuck' = stuck
    BY <2>0, <2>1, FailedPlaced
  <2>2. CASE /\ pc[p] = "unmove" /\ at[p] \in File
             /\ Becomes(p, "undo", at[p] - 1, plan[p], moved[p], TRUE)
             /\ stuck' = stuck \cup {at[p]}
    BY <2>0, <2>2, UnmoveFailsPlaced
  <2>3. CASE pc[p] = "cleanup" /\ Ended(p)
    <3>1. ~Failed(p) BY <2>3 DEF Ended, Failed, Diverted, Goes, Becomes
    <3>. QED  BY <2>0, <2>3, <3>1, EndsTogether DEF Ended, Becomes, Busy
  <2>4. CASE pc[p] = "redo" /\ at[p] \in moved[p] /\ Ended(p) /\ stuck' = stuck \cup {at[p]}
    BY <2>0, <2>4, EndsSplit DEF Ended, Becomes, Busy
  <2>. QED  BY <1>11, <2>1, <2>2, <2>3, <2>4, FaultDoes
<1>. QED
  BY <1>4, <1>5, <1>6, <1>7, <1>8, <1>9, <1>10, <1>11 DEF CallStep

LEMMA ListingStays ==
  ASSUME Basics, NEW p \in Procs, CallStep(p)
  PROVE  \/ manifest' # None => manifest # None /\ listed' = listed
         \/ listed' = plan[p]
<1>. USE DEF Basics, places, paper, dirs
<1>1. ASSUME Failed(p) \/ Still PROVE UNCHANGED <<manifest, listed>>
  BY <1>1 DEF Failed, Still
<1>2. CASE Apply(p) \/ Rollback(p) \/ MakeStaging(p) \/ Verify(p) \/ WriteManifest(p) \/ RemoveRoots(p)
  BY <1>1, <1>2, ApplyDoes, RollbackDoes, MakeStagingDoes, VerifyDoes, WriteManifestDoes, RemoveRootsDoes
<1>3. CASE Undo(p) \/ Unmove(p) \/ Cleanup(p) \/ Fault(p) \/ Killed(p)
  BY <1>1, <1>3, UndoDoes, UnmoveDoes, CleanupDoes, FaultDoes, KilledDoes
<1>4. CASE Move(p) BY <1>1, <1>4, MoveDoes DEF Taken
<1>5. CASE Publish(p)
  <2>1. manifest # None => listed' = listed BY <1>1, <1>5, PublishDoes
  <2>2. manifest' # None => manifest # None
    BY <1>1, <1>5, PublishDoes, RelocationAssumption
  <2>. QED  BY <2>1, <2>2
<1>6. CASE Look(p) \/ Back(p) \/ Restored(p) \/ RemoveTarget(p) \/ WriteReceipt(p) \/ Redo(p)
  BY <1>1, <1>6, LookDoes, BackDoes, RestoredDoes, RemoveTargetDoes, WriteReceiptDoes, RedoDoes
<1>7. CASE Archive(p) BY <1>1, <1>7, ArchiveDoes, RelocationAssumption
<1>. QED  BY <1>2, <1>3, <1>4, <1>5, <1>6, <1>7 DEF CallStep

(* What a manifest lists is what the files were.                           *)
LEMMA CallWhole ==
  ASSUME Basics, Lossless, Papers, WholeOrUnderWay, NEW p \in Procs, CallStep(p)
  PROVE  WholeOrUnderWay'
<1>. SUFFICES ASSUME Quiet'
              PROVE  /\ AtRest' => Together' \/ Split'
                     /\ \A q \in Procs : Busy(q)' => Placed(q)'
                     /\ manifest' # None => listed' = AllZero
  BY DEF WholeOrUnderWay, AllZero
<1>1. Quiet /\ ~Killed(p) /\ \A q \in Procs \ {p} : ~Busy(q)' BY QuietStays
<1>2. CASE ~Busy(p)
  <2>1. Busy(p)' /\ Placed(p)' BY <1>2, BeginsPlaced
  <2>2. Apply(p) \/ Rollback(p)
    <3>1. ~(pc[p] \in Applying \cup Returning) /\ ~Fault(p)
      BY <1>2 DEF Busy, Applying, Returning, Fault, StepFails, UnmoveFails, CleanupFails, RedoFails
    <3>. QED
      BY <1>2, <3>1 DEF CallStep, Busy, MakeStaging, Move, Verify, WriteManifest,
         RemoveRoots, Publish, Undo, Unmove, Cleanup, Look, Back, Restored, Archive,
         RemoveTarget, WriteReceipt, Redo, Fault, Killed
  <2>3. UNCHANGED paper BY <2>2 DEF Apply, Rollback
  <2>. QED
    BY <1>1, <2>1, <2>3 DEF WholeOrUnderWay, paper, AtRest, Busy
<1>3. CASE Busy(p)
  <2>1. Placed(p) BY <1>1, <1>3 DEF WholeOrUnderWay
  <2>2. manifest' # None => listed' = AllZero
    BY <1>1, <2>1, ListingStays DEF WholeOrUnderWay, Placed
  <2>3. (~stagingDir => staging = Empty)' /\ (target # Empty => targetDir)'
    BY StagingEmpty, TargetThere
  <2>4. \/ Placed(p)' /\ Busy(p)'
        \/ (Together' \/ Split') /\ ~Busy(p)'
    BY <1>1, <1>3, <2>1, <2>2, <2>3, GoesPlaced
  <2>. QED
    BY <1>1, <2>2, <2>4 DEF WholeOrUnderWay, Placed, AtRest, Busy
<1>. QED  BY <1>2, <1>3

LEMMA WriteWhole ==
  ASSUME Basics, NEW f \in File, Write(f)
  PROVE  WholeOrUnderWay'
BY WriteDoes DEF Basics, TypeOK, Version, WholeOrUnderWay, Quiet

-----------------------------------------------------------------------------
(* The whole invariant.                                                    *)
LEMMA InitInv ==
  Init => IInv
<1>. SUFFICES ASSUME Init PROVE IInv
  OBVIOUS
<1>. USE FilesNat, RelocationAssumption DEF Init
<1>1. TypeOK
  <2>1. 0 \in Version /\ 0 \in 0..Files + 1 /\ "idle" \in Steps
    BY StepsHave DEF Version
  <2>2. source \in Contents /\ live \subseteq File \X Version
    BY <2>1 DEF Contents
  <2>3. {source, staging, target, listed} \subseteq Contents
    BY <2>2, EmptyTypes
  <2>4. /\ pc \in [Procs -> Steps] /\ at \in [Procs -> 0..Files + 1]
        /\ moved \in [Procs -> SUBSET File] /\ bad \in [Procs -> BOOLEAN]
    BY <2>1
  <2>5. plan \in [Procs -> Contents] BY EmptyTypes
  <2>6. calls \in 0..MaxCalls /\ faults \in 0..MaxFaults /\ kills \in 0..MaxKills /\ writes \in 0..MaxWrites
    OBVIOUS
  <2>7. {roots, stagingDir, targetDir, receipt, late, disturbed, shared} \subseteq BOOLEAN
    OBVIOUS
  <2>. QED  BY <2>2, <2>3, <2>4, <2>5, <2>6, <2>7 DEF TypeOK
<1>2. Alone /\ \A p \in Procs : AtFile(p)
  BY DEF Alone, AtFile, Busy
<1>3. Unwritten /\ Kept
  BY EmptyTypes DEF Unwritten, Somewhere, Kept
<1>4. Lossless
  BY <1>3 DEF Lossless, FreeAhead, RollingBack, Returning
<1>5. TrueListing
  BY EmptyTypes DEF TrueListing, Listing, RollingBack, Returning
<1>6. Papers
  BY EmptyTypes DEF Papers, Applying, Undoing
<1>7. WholeOrUnderWay
  BY DEF WholeOrUnderWay, Together, AllZero, Busy
<1>. QED  BY <1>1, <1>2, <1>3, <1>4, <1>5, <1>6, <1>7 DEF IInv, Basics

LEMMA NextInv ==
  IInv /\ [Next]_vars => IInv'
<1>. SUFFICES ASSUME IInv, [Next]_vars PROVE IInv'
  OBVIOUS
<1>1. ASSUME NEW p \in Procs, CallStep(p) PROVE IInv'
  BY <1>1, CallBasics, CallUnwritten, CallLossless, CallListing, CallPapers, CallWhole DEF IInv
<1>2. ASSUME NEW f \in File, Write(f) PROVE IInv'
  BY <1>2, WriteDoes, WriteUnwritten, WriteLossless, WriteListing, WritePapers, WriteWhole DEF IInv
<1>3. CASE UNCHANGED vars
  <2>1. Basics' /\ Unwritten' /\ Lossless'
    BY <1>3 DEF IInv, vars, places, dirs, paper, control, Basics, TypeOK, Alone, AtFile, Busy,
       Unwritten, Somewhere, Lossless, FreeAhead, Returned, RollingBack, Kept
  <2>2. TrueListing'
    BY <1>3 DEF IInv, vars, places, paper, control, TrueListing, Listing, Returned, RollingBack,
       Verified, Planned
  <2>3. Papers'
    BY <1>3 DEF IInv, vars, places, dirs, paper, control, Papers, ThereOrBack
  <2>4. WholeOrUnderWay'
    BY <1>3 DEF IInv, vars, places, dirs, paper, control, WholeOrUnderWay, Quiet, AtRest, Together,
       Split, InOnePlace, Clear, Returnable, AllZero, Busy, Placed, Place, InStaging, InTarget,
       Returned, RollingBack, Unwinding
  <2>. QED  BY <2>1, <2>2, <2>3, <2>4 DEF IInv
<1>. QED  BY <1>1, <1>2, <1>3 DEF Next, CallStep

LEMMA Invariant ==
  Spec => []IInv
BY InitInv, NextInv, PTL DEF Spec

-----------------------------------------------------------------------------
(* No version of a file is lost: renames replace nothing, but for a        *)
(* client's file that came after the look or between two calls at work.    *)
THEOREM NoVersionLost ==
  Spec => []NothingLost
<1>1. IInv => NothingLost
  <2>. SUFFICES ASSUME IInv, ~late, writes = 0 \/ ~shared PROVE Kept
    BY DEF NothingLost, Kept
  <2>1. CASE ~shared BY <2>1 DEF IInv, Lossless
  <2>2. CASE writes = 0
    BY <2>2 DEF IInv, Unwritten, Somewhere, Kept
  <2>. QED  BY <2>1, <2>2
<1>. QED  BY <1>1, Invariant, PTL

(* A failed step - or as many as fail - is undone: when the calls, one     *)
(* after another, have ended, the files are together, or a step of the     *)
(* undoing failed too: then every file is in one place, the files left in  *)
(* staging are those whose own move back failed, and nothing more starts.  *)
THEOREM FailedStepsAreUndone ==
  Spec => []UndoneAsAWhole
<1>1. IInv => UndoneAsAWhole
  BY DEF IInv, WholeOrUnderWay, Quiet, UndoneAsAWhole
<1>. QED  BY <1>1, Invariant, PTL

(* A manifest at the target is true of it, but for a rollback at work, one *)
(* killed or written into, or one that failed to put the files back; if    *)
(* the client never wrote, what it lists is always there or back in its    *)
(* source. The types are the first part.                                   *)
THEOREM ManifestsAreTrue ==
  Spec => []ManifestIsTrue
<1>1. IInv => ManifestIsTrue
  BY DEF IInv, Basics, TrueListing, Papers, ThereOrBack, ManifestIsTrue
<1>. QED  BY <1>1, Invariant, PTL
=============================================================================
